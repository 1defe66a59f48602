--------------------- MODULE MechanicalEvaluation_proofs ---------------------
(***************************************************************************)
(* Proofs about the mechanical evaluation, for all logs that are well      *)
(* formed: what is kept has its type, whatever fails is explained, and     *)
(* each walk concludes what the levels above its evidence say.             *)
(*                                                                         *)
(* The invariant follows the causes.  What an input depends on is one of   *)
(* two kinds of checks, neither of which passes, and is settled when the   *)
(* entry is loaded, so that the commands that were observed keep what they *)
(* need.  What walks have found and relied on is of commands that were     *)
(* observed, and a producer that is missing is missing among them.  Each   *)
(* producer of a walk has concluded of the inputs that it no longer has    *)
(* left, and a trace of all inputs of its command, for every consumer.     *)
(***************************************************************************)
EXTENDS MechanicalEvaluation, FiniteSetTheorems, SequenceTheorems, WellFoundedInduction, TLAPS

Recorded(id) == \E d \in checks : d.id = id /\ d.outcome # "pass"

Preparing == phase \in {"discover", "close", "support"}
Judging == phase \in {"records", "graph"}

\* Where the evaluation is.
Staged ==
    /\ phase = "open" => loaded = {} /\ materialized = {} /\ prerequisites = {} /\ checks = {} /\ twice = {}
    /\ phase \in {"open", "discover", "close", "support"} => stack = <<>> /\ traces = <<>> /\ results = <<>>
    /\ phase # "discover" => pending = {}
    /\ phase # "records" => job.todo = {}
    /\ job.todo = {} => job = NoJob
    /\ stack # <<>> => phase = "records" /\ job.todo # {} /\ job.left # <<>>
    /\ \A p \in materialized \cup pending : At(p) \in loaded

\* The whole log has no closure.
Whole ==
    Full =>
        /\ phase # "close" /\ twice = {}
        /\ phase = "discover" => pending = Commands
        /\ phase = "support" \/ Judging => materialized = Commands
        /\ Preparing \/ Judging =>
              \A e \in Entry : SurfaceChecks(e) \subseteq checks /\ SurfaceNeeds(e) \subseteq prerequisites

\* What inputs depend on.
Prerequired(t) ==
    \E e \in loaded, m \in File :
        \/ t = <<e, m, ConflictId(m)>> /\ m \in Indexed({e})
        \/ \E i \in File : t = <<e, m, InputId(e, i)>>

Settled ==
    /\ \A t \in prerequisites : Prerequired(t)
    /\ \A e \in loaded : \A m \in Indexed({e}) :
          /\ Failure(ConflictId(m), FALSE) \in checks
          /\ <<e, m, ConflictId(m)>> \in prerequisites

Judged == {"evidence", "provenance", "summary"}

\* What checks depend on.
Explained ==
    /\ \A c \in checks : c.outcome = "pass" => c.id[1] \in Judged
    /\ \A c \in checks : c.outcome = "blocked" => \E id \in c.deps : Recorded(id)
    /\ Preparing \/ Judging => \A e \in log.broken : Recorded(DataId(e))
    /\ \A p \in materialized : Readable(At(p)) /\ Needs(p) # {} => Recorded(CommandId(p))
    /\ Judging => \A e \in loaded : log.support[e] = "broken" => Recorded(PyrunId(e))
    /\ phase = "records" =>
          \A r \in Selected \ job.todo : {EvidenceId(r), ProvenanceId(r)} \subseteq Ids(checks)

\* No producer among the commands that were observed.
Lacking(f) ==
    /\ f.subject \in File
    /\ \E q \in Commands \cup {None} :
          /\ f.about = {q}
          /\ q # None => \A p \in Invocations : p < q => f.subject \notin Scalars(p)

Sound(x) ==
    /\ x.relied \subseteq materialized
    /\ \A f \in x.found : f.code = "missing" => Lacking(f)

Walked ==
    /\ Sound(job)
    /\ \A i \in DOMAIN stack :
          /\ Sound(stack[i])
          /\ stack[i].command # None => stack[i].command \in Index(Context)
    /\ \A key \in DOMAIN traces : Sound(traces[key])
    /\ \A key \in DOMAIN results : Sound(results[key])

NoneOverlooked ==
    Full => \A p, q \in Commands : \A m \in Outs(p) :
        p < q /\ Readable(At(p)) => Failure(FindingId(Finding("missing", m, {q})), FALSE) \notin checks

EvaluationInv == log \in Logs /\ TypeOK /\ Staged /\ Whole /\ Settled /\ Explained /\ Walked /\ NoneOverlooked
-----------------------------------------------------------------------------
(* Logs *)

LEMMA MinIn ==
    ASSUME NEW S \in SUBSET Nat, S # {}
    PROVE  Min(S) \in S
<1>1. PICK x \in S : \A y \in S : ~ (<<y, x>> \in OpToRel(<, Nat))
  BY NatLessThanWellFounded, WFMin
<1>2. \A y \in S : ~ (y < x)
  BY <1>1 DEF OpToRel
<1>3. \A y \in S : x =< y
  BY <1>2
<1>4. QED
  BY <1>3 DEF Min

\* What a log is made of.
LEMMA LogTypes ==
    ASSUME log \in Log
    PROVE  /\ Commands \subseteq Nat /\ Records \subseteq Nat
           /\ \A p \in Commands :
                 /\ At(p) \in Entry /\ log.commands[p].ins \in Seq(File)
                 /\ Ins(p) \subseteq File /\ Outs(p) \subseteq Path /\ Home(p) \subseteq Directory
           /\ \A r \in Records : Of(r) \in Entry /\ Sources(r) \in Seq(File)
           /\ \A e \in Entry : log.declared[e] \in Seq(File) /\ log.origin[e] \subseteq File
           /\ None \notin Commands
<1>1. log.commands \in Seq([at : Entry, ins : Seq(File), outs : SUBSET Path])
  BY DEF Log
<1>2. log.records \in Seq([at : Entry, sources : Seq(File), right : BOOLEAN])
  BY DEF Log
<1>3. Commands \subseteq Nat /\ Records \subseteq Nat
  BY <1>1, <1>2 DEF Commands, Records
<1>4. ASSUME NEW p \in Commands
      PROVE  /\ At(p) \in Entry /\ log.commands[p].ins \in Seq(File)
             /\ Ins(p) \subseteq File /\ Outs(p) \subseteq Path /\ Home(p) \subseteq Directory
  <2>1. log.commands[p] \in [at : Entry, ins : Seq(File), outs : SUBSET Path]
    <3>1. p \in 1..Len(log.commands)
      BY <1>1 DEF Commands
    <3>2. QED
      BY <1>1, <3>1, ElementOfSeq
  <2>2. QED
    BY <2>1 DEF At, Ins, Outs, Home, ToSet
<1>5. ASSUME NEW r \in Records
      PROVE  Of(r) \in Entry /\ Sources(r) \in Seq(File)
  <2>1. log.records[r] \in [at : Entry, sources : Seq(File), right : BOOLEAN]
    <3>1. r \in 1..Len(log.records)
      BY <1>2 DEF Records
    <3>2. QED
      BY <1>2, <3>1, ElementOfSeq
  <2>2. QED
    BY <2>1 DEF Of, Sources
<1>6. \A e \in Entry : log.declared[e] \in Seq(File) /\ log.origin[e] \subseteq File
  BY DEF Log
<1>7. None \notin Commands
  BY <1>3, LogAssumption
<1>8. QED
  BY <1>3, <1>4, <1>5, <1>6, <1>7

LEMMA Absent ==
    ASSUME NEW materials \in Seq(File)
    PROVE  /\ FirstAbsent(materials) \subseteq File
           /\ \A m \in ToSet(materials) : ~ Here(m) => FirstAbsent(materials) # {}
<1>1. FirstAbsent(materials) \subseteq File
  BY DEF FirstAbsent
<1>2. ASSUME NEW m \in ToSet(materials), ~ Here(m)
      PROVE  FirstAbsent(materials) # {}
  <2> DEFINE absent == {i \in DOMAIN materials : ~ Here(materials[i])}
  <2>1. absent # {} /\ absent \subseteq Nat
    BY <1>2 DEF ToSet
  <2>2. PICK i \in absent : \A j \in absent : ~ (<<j, i>> \in OpToRel(<, Nat))
    BY <2>1, NatLessThanWellFounded, WFMin
  <2>0. \A j \in absent : ~ (j < i)
    BY <2>1, <2>2 DEF OpToRel
  <2>3. \A j \in 1..(i - 1) : Here(materials[j])
    BY <2>0
  <2>4. materials[i] \in FirstAbsent(materials)
    BY <2>2, <2>3 DEF FirstAbsent
  <2>5. QED
    BY <2>4
<1>3. QED
  BY <1>1, <1>2

\* What is found has its type, and only the lack of a producer is missing.
Other(found) == found \subseteq Findings /\ \A f \in found : f.code # "missing"

LEMMA FindingType ==
    ASSUME NEW code \in {"missing", "shared", "producer", "lineage", "origin", "gone", "deep",
                         "unavailable", "unobserved", "unsupported"},
           NEW subject \in Path, NEW about \in SUBSET (Commands \cup {None})
    PROVE  Finding(code, subject, about) \in Findings /\ Finding(code, subject, about).code = code
  BY DEF Finding, Findings

LEMMA NoProducerType ==
    ASSUME log \in Log, NEW index \in SUBSET Commands, NEW m \in File,
           NEW consumer \in Commands \cup {None}
    PROVE  /\ Producers(index, m, consumer) \subseteq index
           /\ NoProducer(index, m, consumer) \in Findings
           /\ NoProducer(index, m, consumer).code = "missing" =>
                 /\ NoProducer(index, m, consumer) = Finding("missing", m, {consumer})
                 /\ consumer # None => \A p \in index : p < consumer => m \notin Scalars(p)
<1> DEFINE found == Producers(index, m, consumer)
           sharers == {p \in found \cap Writers(index, m) : Home(p) \cap Above[m] # {}}
<1>1. found \subseteq index
  BY DEF Producers, Writers, Owners
<1>2. m \in Path /\ Directory \subseteq Path
  BY LogAssumption DEF File
<1>3. CASE found = {}
  <2>1. NoProducer(index, m, consumer) = Finding("missing", m, {consumer})
    BY <1>3 DEF NoProducer
  <2>2. consumer # None => \A p \in index : p < consumer => m \notin Scalars(p)
    BY <1>3 DEF Producers, Writers
  <2>3. QED
    BY <1>1, <1>2, <2>1, <2>2 DEF Finding, Findings
<1>4. CASE found # {} /\ sharers # {}
  <2>1. Min(sharers) \in sharers
    BY <1>1, <1>4, MinIn, LogTypes
  <2>2. (CHOOSE d \in Home(Min(sharers)) : TRUE) \in Path
    BY <1>1, <1>2, <2>1, LogTypes
  <2>3. NoProducer(index, m, consumer) = Finding("shared", CHOOSE d \in Home(Min(sharers)) : TRUE, found)
    BY <1>4 DEF NoProducer
  <2>4. QED
    BY <1>1, <2>2, <2>3 DEF Finding, Findings
<1>5. CASE found # {} /\ sharers = {}
  <2>1. NoProducer(index, m, consumer) = Finding(IF consumer = None THEN "producer" ELSE "lineage", m, found)
    BY <1>5 DEF NoProducer
  <2>2. QED
    BY <1>1, <1>2, <2>1 DEF Finding, Findings
<1>6. QED
  BY <1>3, <1>4, <1>5

LEMMA BoundaryType ==
    ASSUME log \in Log, NEW index \in SUBSET Commands, NEW m \in File
    PROVE  Other(Boundary(index, m))
<1>1. m \in Path
  BY DEF File
<1>2. QED
  BY <1>1 DEF Boundary, Writers, Finding, Findings, Other

LEMMA ReadyType ==
    ASSUME log \in Log, NEW index \in SUBSET Commands, NEW m \in File, NEW p \in Commands
    PROVE  Other(Ready(index, m, p))
<1>1. m \in Path /\ Directory \subseteq Path /\ File \subseteq Path
  BY LogAssumption DEF File
<1>2. Other(Sharing(index, p))
  <2>1. Home(p) \subseteq Path
    BY <1>1, LogTypes
  <2> DEFINE sharers(d) == {q \in index \ {p} : ~ Apart({d}, Scalars(q) \cup Home(q))}
  <2>2. \A d \in Home(p) : /\ Finding("shared", d, {p} \cup sharers(d)) \in Findings
                            /\ Finding("shared", d, {p} \cup sharers(d)).code = "shared"
    <3> TAKE d \in Home(p)
    <3>1. {p} \cup sharers(d) \in SUBSET (Commands \cup {None})
      OBVIOUS
    <3>2. d \in Path
      BY <2>1
    <3> HIDE DEF sharers
    <3>3. QED
      BY <3>1, <3>2, FindingType
  <2>3. \A f \in Sharing(index, p) : \E d \in Home(p) : f = Finding("shared", d, {p} \cup sharers(d))
    BY DEF Sharing
  <2>4. QED
    BY <2>2, <2>3 DEF Other
<1>3. Other(Support(p, m))
  <2> DEFINE output == IF Home(p) \cap Above[m] = {} THEN m ELSE CHOOSE d \in Home(p) : TRUE
             absent == FirstAbsent(log.commands[p].ins)
  <2>1. output \in Path
    BY <1>1, LogTypes
  <2>2. absent \subseteq Path
    BY <1>1, LogTypes, Absent
  <2>3. CASE Withheld(p) # {}
    BY <2>3 DEF Support, Other
  <2>4. CASE Withheld(p) = {} /\ absent # {}
    BY <2>2, <2>4 DEF Support, Finding, Findings, Other
  <2>5. CASE Withheld(p) = {} /\ absent = {}
    <3>1. /\ Finding("unsupported", output, {p}) \in Findings
          /\ Finding("unsupported", output, {p}).code = "unsupported"
      BY <2>1, FindingType
    <3>2. Support(p, m) \subseteq {Finding("unsupported", output, {p})}
      BY <2>5 DEF Support
    <3>3. QED
      BY <3>1, <3>2 DEF Other
  <2>6. QED
    BY <2>3, <2>4, <2>5
<1>4. Other({Finding("gone", m, {p})})
  BY <1>1 DEF Finding, Findings, Other
<1>5. QED
  BY <1>2, <1>3, <1>4 DEF Ready, Other

-----------------------------------------------------------------------------
(* What a step leaves alone *)

LEMMA Kinds ==
    /\ \A e : DataId(e)[1] = "data" /\ PyrunId(e)[1] = "pyrun"
    /\ \A e, m : InputId(e, m)[1] = "input"
    /\ \A m : ConflictId(m)[1] = "conflict" /\ ConflictId(m)[2] = m
    /\ \A p : CommandId(p)[1] = "command"
    /\ \A f : FindingId(f)[1] = "finding" /\ FindingId(f)[2] = f
    /\ \A r : EvidenceId(r)[1] = "evidence" /\ ProvenanceId(r)[1] = "provenance"
    /\ \A id : <<"summary", id>>[1] = "summary"
  BY DEF DataId, PyrunId, InputId, ConflictId, CommandId, FindingId, EvidenceId, ProvenanceId

LEMMA SameLog ==
    ASSUME log' = log
    PROVE  /\ Commands' = Commands /\ Records' = Records
           /\ \A p : /\ At(p)' = At(p) /\ Ins(p)' = Ins(p) /\ Outs(p)' = Outs(p)
                     /\ Home(p)' = Home(p) /\ Scalars(p)' = Scalars(p)
           /\ \A r : Of(r)' = Of(r) /\ Sources(r)' = Sources(r)
           /\ \A e : Readable(e)' = Readable(e)
           /\ \A m : Here(m)' = Here(m)
           /\ \A e, m : Declares(e, m)' = Declares(e, m) /\ Origin(e, m)' = Origin(e, m)
<1>1. /\ Commands' = Commands /\ Records' = Records
      /\ \A p : At(p)' = At(p) /\ Ins(p)' = Ins(p) /\ Outs(p)' = Outs(p)
      /\ \A r : Of(r)' = Of(r) /\ Sources(r)' = Sources(r)
      /\ \A e : Readable(e)' = Readable(e)
      /\ \A m : Here(m)' = Here(m)
      /\ \A e, m : Declares(e, m)' = Declares(e, m) /\ Origin(e, m)' = Origin(e, m)
  BY DEF Commands, Records, At, Ins, Outs, Of, Sources, Readable, Here, Declares, Origin
<1>2. \A p : Home(p)' = Home(p) /\ Scalars(p)' = Scalars(p)
  BY <1>1 DEF Home, Scalars
<1>3. QED
  BY <1>1, <1>2

LEMMA SameSurfaces ==
    ASSUME log' = log
    PROVE  /\ \A e : SurfaceChecks(e)' = SurfaceChecks(e) /\ SurfaceNeeds(e)' = SurfaceNeeds(e)
           /\ \A E : Indexed(E)' = Indexed(E) /\ ConflictNeeds(E)' = ConflictNeeds(E)
<1>1. \A e : SurfaceChecks(e)' = SurfaceChecks(e)
  BY DEF SurfaceChecks, FirstAbsent, Readable, Here
<1>2. \A e : SurfaceNeeds(e)' = SurfaceNeeds(e)
  BY <1>1, SameLog DEF SurfaceNeeds
<1>3. \A E : Indexed(E)' = Indexed(E)
  BY SameLog DEF Indexed, Conflicting
<1>4. \A E : ConflictNeeds(E)' = ConflictNeeds(E)
  BY <1>3, SameLog DEF ConflictNeeds
<1>5. QED
  BY <1>1, <1>2, <1>3, <1>4

\* Inputs depend on two kinds of checks, that do not pass.
LEMMA NeedsKinds ==
    ASSUME Settled
    PROVE  /\ \A e, m, id : <<e, m, id>> \in prerequisites => id[1] \in {"input", "conflict"}
           /\ \A p : \A c \in Needs(p) : c \in checks /\ c.id[1] \in {"input", "conflict"}
<1>1. ASSUME NEW e, NEW m, NEW id, <<e, m, id>> \in prerequisites
      PROVE  id[1] \in {"input", "conflict"}
  <2>1. Prerequired(<<e, m, id>>)
    BY <1>1 DEF Settled
  <2>2. PICK f \in loaded, n \in File :
           \/ <<e, m, id>> = <<f, n, ConflictId(n)>>
           \/ \E i \in File : <<e, m, id>> = <<f, n, InputId(f, i)>>
    BY <2>1 DEF Prerequired
  <2>3. id = ConflictId(n) \/ \E i \in File : id = InputId(f, i)
    BY <2>2
  <2>4. QED
    BY <2>3, Kinds
<1>2. QED
  BY <1>1 DEF Needs

LEMMA NeedsRecorded ==
    ASSUME Settled, Explained, NEW c \in checks, c.id[1] \in {"input", "conflict"}
    PROVE  Recorded(c.id)
  BY DEF Explained, Judged, Recorded

LEMMA SameNeeds ==
    ASSUME Settled, log' = log, prerequisites' = prerequisites, checks \subseteq checks',
           \A c \in checks' \ checks : c.id[1] \notin {"input", "conflict"}
    PROVE  \A p : Needs(p)' = Needs(p) /\ Away(p)' = Away(p) /\ Valid(p)' = Valid(p)
<1>1. ASSUME NEW p PROVE Needs(p)' = Needs(p)
  <2>1. At(p)' = At(p) /\ Ins(p)' = Ins(p)
    BY SameLog
  <2>2. \A c \in checks' : \A m \in Ins(p) : <<At(p), m, c.id>> \in prerequisites => c \in checks
    BY NeedsKinds
  <2>3. QED
    BY <2>1, <2>2 DEF Needs
<1>2. \A p : Away(p)' = Away(p)
  BY <1>1 DEF Away
<1>3. \A p : Valid(p)' = Valid(p)
  BY <1>1, <1>2, SameLog DEF Valid
<1>4. QED
  BY <1>1, <1>2, <1>3

LEMMA SameSound ==
    ASSUME log' = log, materialized' = materialized, \A p : Valid(p)' = Valid(p)
    PROVE  /\ Invocations' = Invocations
           /\ \A f : Lacking(f)' = Lacking(f)
<1>1. Invocations' = Invocations
  BY DEF Invocations
<1>2. \A f : Lacking(f)' = Lacking(f)
  BY <1>1, SameLog DEF Lacking
<1>3. QED
  BY <1>1, <1>2

\* Steps of the walk and from one source to the next leave what was recorded.
LEMMA SameRecorded ==
    ASSUME EvaluationInv,
           UNCHANGED <<log, target, scope, loaded, prerequisites, pending, materialized, phase, checks, twice>>,
           job'.todo = job.todo
    PROVE  Whole' /\ Settled' /\ Explained' /\ NoneOverlooked'
<1>1. Settled /\ Whole /\ Explained /\ NoneOverlooked
  BY DEF EvaluationInv
<1>2. \A p : Needs(p)' = Needs(p) /\ Away(p)' = Away(p) /\ Valid(p)' = Valid(p)
  BY <1>1, SameNeeds
<1>3. \A id : Recorded(id)' = Recorded(id)
  BY DEF Recorded
<1>4. Whole'
  BY <1>1, SameLog, SameSurfaces DEF Whole, Full, Preparing, Judging
<1>5. Settled'
  <2>1. \A t : Prerequired(t)' = Prerequired(t)
    BY SameSurfaces DEF Prerequired, ConflictId, InputId, File
  <2>2. \A e \in loaded : Indexed({e})' = Indexed({e})
    BY SameSurfaces
  <2>3. QED
    BY <1>1, <2>1, <2>2 DEF Settled
<1>6. Explained'
  <2>1. Selected' = Selected
    BY SameLog DEF Selected, Full
  <2>2. QED
    BY <1>1, <1>2, <1>3, <2>1, SameLog DEF Explained, Preparing, Judging
<1>7. NoneOverlooked'
  BY <1>1, SameLog DEF NoneOverlooked, Full
<1>8. QED
  BY <1>4, <1>5, <1>6, <1>7

-----------------------------------------------------------------------------
(* The walk *)

\* What the walk has above the evidence.
Trail(s) ==
    /\ s \in Seq(Frames) /\ Len(s) <= MaxDepth + 2
    /\ \A i \in DOMAIN s :
          /\ Sound(s[i])
          /\ s[i].command # None => s[i].command \in Index(Context)

\* What a level adds.
Adds(found, relied) ==
    /\ found \subseteq Findings /\ \A f \in found : f.code = "missing" => Lacking(f)
    /\ relied \subseteq materialized

LEMMA InWalk ==
    ASSUME EvaluationInv, stack # <<>>
    PROVE  /\ phase = "records" /\ job.todo # {} /\ job.left # <<>>
           /\ Trail(stack) /\ Len(stack) \in Nat /\ Len(stack) > 0
           /\ Top \in Frames /\ Sound(Top)
           /\ Top.command # None => Top.command \in Index(Context)
<1>1. phase = "records" /\ job.todo # {} /\ job.left # <<>>
  BY DEF EvaluationInv, Staged
<1>2. Trail(stack)
  BY DEF EvaluationInv, TypeOK, Walked, Trail
<1>3. Len(stack) \in Nat /\ Len(stack) > 0 /\ Len(stack) \in DOMAIN stack
  BY <1>2, EmptySeq, LenProperties DEF Trail
<1>4. Top \in Frames
  BY <1>2, <1>3, ElementOfSeq, LenProperties DEF Trail, Top
<1>5. QED
  BY <1>1, <1>2, <1>3, <1>4 DEF Trail, Top

LEMMA SameContext ==
    ASSUME EvaluationInv,
           UNCHANGED <<log, loaded, prerequisites, materialized, checks, job>>
    PROVE  Context' = Context /\ Index(Context)' = Index(Context)
           /\ Invocations' = Invocations /\ \A f : Lacking(f)' = Lacking(f)
<1>1. Settled
  BY DEF EvaluationInv
<1>2. Invocations' = Invocations /\ \A f : Lacking(f)' = Lacking(f)
  BY <1>1, SameNeeds, SameSound
<1>3. \A e, m : Limit(e, m)' = Limit(e, m)
  BY <1>2, SameLog DEF Limit
<1>4. Record' = Record /\ Source' = Source
  BY DEF Record, Source
<1>5. Context' = Context
  BY <1>3, <1>4, SameLog DEF Context
<1>6. QED
  BY <1>2, <1>5 DEF Index

LEMMA WalkStep ==
    ASSUME EvaluationInv, phase = "records", job.todo # {}, job.left # <<>>,
           UNCHANGED <<request, surfaces, phase, checks, twice, job, results>>,
           Trail(stack'),
           \A key \in DOMAIN traces' : traces'[key] \in Conclusions /\ Sound(traces'[key])
    PROVE  EvaluationInv'
<1>1. UNCHANGED <<log, target, scope, loaded, prerequisites, pending, materialized>>
  BY DEF request, surfaces
<1>2. Whole' /\ Settled' /\ Explained' /\ NoneOverlooked'
  BY <1>1, SameRecorded
<1>3. /\ Index(Context)' = Index(Context)
      /\ \A f : Lacking(f)' = Lacking(f)
  BY <1>1, SameContext
<1>4. log' \in Logs /\ TypeOK'
  <2>1. Frames' = Frames /\ Conclusions' = Conclusions /\ Findings' = Findings
    BY <1>1 DEF Frames, Conclusions, Findings, Commands
  <2>2. Commands' = Commands /\ Records' = Records
    BY <1>1, SameLog
  <2>3. QED
    BY <1>1, <2>1, <2>2 DEF EvaluationInv, TypeOK, Trail
<1>5. Staged'
  BY <1>1, SameLog DEF EvaluationInv, Staged
<1>6. Walked'
  <2>1. Sound(job)'
    BY <1>1, <1>3 DEF EvaluationInv, Walked, Sound
  <2>2. ASSUME NEW i \in DOMAIN stack'
        PROVE  /\ Sound(stack[i])'
               /\ (stack[i].command # None => stack[i].command \in Index(Context))'
    <3>1. /\ stack'[i].relied \subseteq materialized
          /\ \A f \in stack'[i].found : f.code = "missing" => Lacking(f)
          /\ stack'[i].command # None => stack'[i].command \in Index(Context)
      BY DEF Trail, Sound
    <3>2. QED
      BY <1>1, <1>3, <3>1 DEF Sound
  <2>3. ASSUME NEW key \in DOMAIN traces'
        PROVE  Sound(traces[key])'
    BY <1>1, <1>3 DEF Sound
  <2>4. ASSUME NEW key \in DOMAIN results'
        PROVE  Sound(results[key])'
    BY <1>1, <1>3 DEF EvaluationInv, Walked, Sound
  <2>5. QED
    BY <2>1, <2>2, <2>3, <2>4 DEF Walked
<1>7. QED
  BY <1>2, <1>4, <1>5, <1>6 DEF EvaluationInv

LEMMA Observed ==
    ASSUME EvaluationInv
    PROVE  /\ log \in Log /\ WellFormed(log)
           /\ materialized \subseteq Commands /\ Invocations \subseteq materialized
           /\ \A limit : Index(limit) \subseteq Invocations
<1>1. log \in Log /\ WellFormed(log)
  BY LogAssumption DEF EvaluationInv
<1>2. materialized \subseteq Commands
  BY DEF EvaluationInv, TypeOK
<1>3. QED
  BY <1>1, <1>2 DEF Invocations, Index

LEMMA ThroughKeeps ==
    ASSUME EvaluationInv, stack # <<>>, Top.left # <<>>,
           NEW found, NEW relied, Adds(found, relied)
    PROVE  Trail(Through(found, relied)) /\ Through(found, relied) # <<>>
           /\ Len(Through(found, relied)) = Len(stack)
<1> DEFINE next == [Top EXCEPT !.left = Tail(@), !.found = @ \cup found, !.relied = @ \cup relied]
<1>1. Trail(stack) /\ Len(stack) \in Nat /\ Len(stack) > 0 /\ Top \in Frames /\ Sound(Top)
      /\ (Top.command # None => Top.command \in Index(Context))
  BY InWalk
<1>2. Tail(Top.left) \in Seq(File)
  BY <1>1 DEF Frames
<1>3. /\ next.command = Top.command /\ next.left = Tail(Top.left)
      /\ next.found = Top.found \cup found /\ next.relied = Top.relied \cup relied
  BY <1>1 DEF Frames
<1>4. next \in Frames
  <2>1. materialized \subseteq Commands
    BY Observed
  <2>2. /\ Tail(Top.left) \in Seq(File) /\ Top.found \cup found \in SUBSET Findings
        /\ Top.relied \cup relied \in SUBSET Commands
    BY <1>1, <1>2, <2>1 DEF Frames, Adds
  <2>3. QED
    BY <1>1, <2>2 DEF Frames
<1>5. Sound(next) /\ (next.command # None => next.command \in Index(Context))
  BY <1>1, <1>3 DEF Sound, Adds
<1> HIDE DEF next
<1>6. Through(found, relied) = [stack EXCEPT ![Len(stack)] = next]
  BY DEF Through, next
<1>7. /\ Through(found, relied) \in Seq(Frames) /\ Len(Through(found, relied)) = Len(stack)
      /\ \A j \in 1..Len(stack) :
            Through(found, relied)[j] = IF j = Len(stack) THEN next ELSE stack[j]
  BY <1>1, <1>4, <1>6, ExceptSeq DEF Trail
<1>8. \A j \in DOMAIN Through(found, relied) :
         /\ Sound(Through(found, relied)[j])
         /\ Through(found, relied)[j].command # None => Through(found, relied)[j].command \in Index(Context)
  BY <1>1, <1>5, <1>7, LenProperties DEF Trail
<1>9. QED
  BY <1>1, <1>7, <1>8, EmptySeq DEF Trail

\* Findings other than the lack of a producer.
LEMMA OtherAdds ==
    ASSUME NEW found, Other(found), NEW relied \in SUBSET materialized
    PROVE  Adds(found, relied)
  BY DEF Other, Adds

LEMMA StepFrame ==
    ASSUME EvaluationInv, stack # <<>>,
           UNCHANGED <<request, surfaces, phase, checks, twice, job, results, traces>>,
           Trail(stack')
    PROVE  EvaluationInv'
<1>1. \A key \in DOMAIN traces' : traces'[key] \in Conclusions /\ Sound(traces'[key])
  BY DEF EvaluationInv, TypeOK, Walked
<1>2. QED
  BY <1>1, InWalk, WalkStep

LEMMA MeetOriginKeeps ==
    ASSUME EvaluationInv, MeetOrigin
    PROVE  EvaluationInv'
<1>1. PICK m \in File : Facing(m) /\ stack' = Through(Boundary(Index(Context), m), {})
  BY DEF MeetOrigin
<1>2. Index(Context) \in SUBSET Commands
  BY Observed
<1>3. Adds(Boundary(Index(Context), m), {})
  BY <1>2, Observed, BoundaryType, OtherAdds
<1>4. Trail(stack')
  BY <1>1, <1>3, ThroughKeeps DEF Facing
<1>5. QED
  BY <1>1, <1>4, StepFrame DEF MeetOrigin, Facing

\* A limit is a command.
LEMMA LimitIn ==
    ASSUME EvaluationInv, NEW e, NEW m
    PROVE  Limit(e, m) \in Nat \cup {None}
<1> DEFINE consumers == {p \in Invocations : At(p) = e /\ m \in Ins(p)}
<1>1. consumers \in SUBSET Nat
  BY Observed, LogTypes
<1>2. CASE consumers = {}
  BY <1>2 DEF Limit
<1>3. CASE consumers # {}
  <2>1. Min(consumers) \in Nat
    <3> HIDE DEF consumers
    <3>1. QED
      BY <1>1, <1>3, MinIn
  <2>2. QED
    BY <1>3, <2>1 DEF Limit
<1>4. QED
  BY <1>2, <1>3

\* What no producer of the index wrote, none of the commands that were
\* observed did.
LEMMA LackingProducer ==
    ASSUME EvaluationInv, stack # <<>>, NEW m \in File
    PROVE  Adds({NoProducer(Index(Context), m, Top.command)}, {})
<1> DEFINE f == NoProducer(Index(Context), m, Top.command)
<1>1. Index(Context) \in SUBSET Commands /\ log \in Log
  BY Observed
<1>2. Top.command \in Commands \cup {None}
  BY InWalk DEF Frames
<1>3. f \in Findings
  BY <1>1, <1>2, NoProducerType
<1>4. ASSUME f.code = "missing"
      PROVE  Lacking(f)
  <2>1. f = Finding("missing", m, {Top.command})
    BY <1>1, <1>2, <1>4, NoProducerType
  <2>2. ASSUME Top.command # None, NEW p \in Invocations, p < Top.command
        PROVE  m \notin Scalars(p)
    <3>1. Top.command \in Index(Context)
      BY <2>2, InWalk
    <3>2. p \in Nat /\ Top.command \in Nat
      BY <1>1, <2>2, <3>1, Observed, LogTypes
    <3>3. Context \in Nat \cup {None}
      BY LimitIn DEF Context
    <3>4. p \in Index(Context)
      BY <2>2, <3>1, <3>2, <3>3 DEF Index
    <3>5. QED
      BY <1>1, <1>2, <1>4, <2>2, <3>4, NoProducerType
  <2>3. QED
    BY <1>2, <2>1, <2>2 DEF Lacking, Finding
<1>5. QED
  BY <1>3, <1>4 DEF Adds

LEMMA StopShortKeeps ==
    ASSUME EvaluationInv, StopShort
    PROVE  EvaluationInv'
<1>1. PICK m \in File :
         /\ Facing(m)
         /\ \/ stack' = Through({Finding("deep", m, {})}, {})
            \/ stack' = Through({NoProducer(Index(Context), m, Top.command)}, {})
  BY DEF StopShort
<1>2. Adds({Finding("deep", m, {})}, {})
  <2>1. m \in Path
    BY DEF File
  <2>2. Other({Finding("deep", m, {})})
    BY <2>1, FindingType DEF Other
  <2>3. QED
    BY <2>2, OtherAdds
<1>3. Adds({NoProducer(Index(Context), m, Top.command)}, {})
  BY <1>1, LackingProducer DEF Facing
<1>4. Trail(stack')
  BY <1>1, <1>2, <1>3, ThroughKeeps DEF Facing
<1>5. QED
  BY <1>1, <1>4, StepFrame DEF StopShort, Facing

LEMMA ReadyAdds ==
    ASSUME EvaluationInv, NEW m \in File, NEW p \in Commands, Suppliers(m) = {p}, stack # <<>>
    PROVE  p \in Index(Context) /\ Adds(Ready(Index(Context), m, p), {p})
<1>1. Index(Context) \in SUBSET Commands /\ log \in Log
  BY Observed
<1>2. Top.command \in Commands \cup {None}
  BY InWalk DEF Frames
<1>3. p \in Index(Context)
  BY <1>1, <1>2, NoProducerType DEF Suppliers
<1>4. QED
  BY <1>1, <1>3, ReadyType, OtherAdds, Observed

LEMMA ReplayKeeps ==
    ASSUME EvaluationInv, Replay
    PROVE  EvaluationInv'
<1>1. PICK m \in File, p \in Commands :
         LET key == TraceKey(p, Depth, Visiting \cup {p})
         IN  /\ Meeting(m, p)
             /\ key \in DOMAIN traces
             /\ stack' = Through(Ready(Index(Context), m, p) \cup traces[key].found,
                                 {p} \cup traces[key].relied)
  BY DEF Replay
<1> DEFINE key == TraceKey(p, Depth, Visiting \cup {p})
<1>2. traces[key] \in Conclusions /\ Sound(traces[key])
  BY <1>1 DEF EvaluationInv, TypeOK, Walked
<1>3. Adds(Ready(Index(Context), m, p), {p})
  BY <1>1, ReadyAdds DEF Meeting, Facing
<1>4. Adds(Ready(Index(Context), m, p) \cup traces[key].found, {p} \cup traces[key].relied)
  BY <1>2, <1>3 DEF Adds, Sound, Conclusions
<1>5. Trail(stack')
  BY <1>1, <1>4, ThroughKeeps DEF Meeting, Facing
<1>6. QED
  BY <1>1, <1>5, StepFrame DEF Replay, Meeting, Facing

LEMMA DescendKeeps ==
    ASSUME EvaluationInv, Descend
    PROVE  EvaluationInv'
<1>1. PICK m \in File, p \in Commands :
         /\ Meeting(m, p)
         /\ stack' = Append(Through(Ready(Index(Context), m, p), {p}), Frame(p, log.commands[p].ins))
  BY DEF Descend
<1> DEFINE below == Through(Ready(Index(Context), m, p), {p})
           frame == Frame(p, log.commands[p].ins)
<1>2. stack # <<>> /\ Top.left # <<>> /\ Depth <= MaxDepth
  BY <1>1 DEF Meeting, Facing
<1>3. p \in Index(Context) /\ Adds(Ready(Index(Context), m, p), {p})
  BY <1>1, <1>2, ReadyAdds DEF Meeting
<1>4. Trail(below) /\ Len(below) = Len(stack)
  BY <1>2, <1>3, ThroughKeeps
<1>5. frame \in Frames /\ Sound(frame) /\ frame.command = p
  <2>1. log.commands[p].ins \in Seq(File)
    BY Observed, LogTypes
  <2>2. QED
    BY <2>1 DEF Frame, Frames, Sound
<1>6. Len(stack) <= MaxDepth + 1
  BY <1>2, InWalk, DepthAssumption DEF Depth
<1> HIDE DEF below, frame
<1>7. /\ Append(below, frame) \in Seq(Frames) /\ Len(Append(below, frame)) = Len(below) + 1
      /\ \A j \in DOMAIN Append(below, frame) :
            Append(below, frame)[j] = IF j = Len(below) + 1 THEN frame ELSE below[j]
      /\ \A j \in DOMAIN Append(below, frame) : j # Len(below) + 1 => j \in DOMAIN below
  BY <1>4, <1>5 DEF Trail
<1>8. Len(Append(below, frame)) <= MaxDepth + 2
  BY <1>2, <1>4, <1>6, <1>7, InWalk, DepthAssumption
<1>9. Trail(Append(below, frame))
  BY <1>3, <1>4, <1>5, <1>7, <1>8 DEF Trail
<1>10. Trail(stack')
  BY <1>1, <1>9 DEF below, frame
<1>11. QED
  BY <1>2, <1>10, StepFrame DEF Descend

LEMMA AscendKeeps ==
    ASSUME EvaluationInv, Ascend
    PROVE  EvaluationInv'
<1> DEFINE n == Len(stack)
           below == stack[n - 1]
           joined == [below EXCEPT !.found = @ \cup Top.found, !.relied = @ \cup Top.relied]
<1>1. /\ n > 1
      /\ traces' = Cached(traces, TraceKey(Top.command, Depth - 1, Visiting), Conclusion(Top))
      /\ stack' = [Front(stack) EXCEPT ![n - 1] = joined]
  BY DEF Ascend
<1>2. stack # <<>>
  BY <1>1
<1>3. Trail(stack) /\ n \in Nat /\ Top \in Frames /\ Sound(Top)
  BY <1>2, InWalk
<1>4. below \in Frames /\ Sound(below) /\ (below.command # None => below.command \in Index(Context))
  BY <1>1, <1>3, ElementOfSeq, LenProperties DEF Trail
<1>5. /\ joined.command = below.command /\ joined.left = below.left
      /\ joined.found = below.found \cup Top.found /\ joined.relied = below.relied \cup Top.relied
  BY <1>4 DEF Frames
<1>6. joined \in Frames
  BY <1>3, <1>4 DEF Frames
<1>7. Sound(joined) /\ (joined.command # None => joined.command \in Index(Context))
  BY <1>3, <1>4, <1>5 DEF Sound
<1>8. Conclusion(Top) \in Conclusions /\ Sound(Conclusion(Top))
  BY <1>3 DEF Conclusion, Conclusions, Frames, Sound
<1>9. \A key \in DOMAIN traces' : traces'[key] \in Conclusions /\ Sound(traces'[key])
  <2>1. \A key \in DOMAIN traces : traces[key] \in Conclusions /\ Sound(traces[key])
    BY DEF EvaluationInv, TypeOK, Walked
  <2>2. \A key \in DOMAIN traces' :
           traces'[key] = Conclusion(Top) \/ (key \in DOMAIN traces /\ traces'[key] = traces[key])
    BY <1>1 DEF Cached
  <2>3. QED
    BY <1>8, <2>1, <2>2
<1> HIDE DEF joined, below
<1>10. Trail(stack')
  <2>1. Front(stack) \in Seq(Frames) /\ Len(Front(stack)) = n - 1
        /\ \A j \in 1..(n - 1) : Front(stack)[j] = stack[j]
    BY <1>1, <1>3 DEF Front, Trail
  <2>2. /\ stack' \in Seq(Frames) /\ Len(stack') = n - 1
        /\ \A j \in 1..(n - 1) : stack'[j] = IF j = n - 1 THEN joined ELSE Front(stack)[j]
    BY <1>1, <1>3, <1>6, <2>1, ExceptSeq
  <2>3. \A j \in DOMAIN stack' :
           Sound(stack'[j]) /\ (stack'[j].command # None => stack'[j].command \in Index(Context))
    BY <1>1, <1>3, <1>7, <2>1, <2>2, LenProperties DEF Trail
  <2>4. n - 1 <= MaxDepth + 2
    BY <1>3, DepthAssumption DEF Trail
  <2>5. QED
    BY <2>2, <2>3, <2>4 DEF Trail
<1>11. QED
  BY <1>2, <1>9, <1>10, InWalk, WalkStep DEF Ascend

-----------------------------------------------------------------------------
(* Sources of a record *)

LEMMA TakeStep ==
    ASSUME EvaluationInv, phase = "records", job.todo # {}, job.left # <<>>,
           UNCHANGED <<request, surfaces, phase, checks, twice, traces>>, stack' = <<>>,
           NEW found, NEW relied, Adds(found, relied), job' = Counted(found, relied),
           \A key \in DOMAIN results' : results'[key] \in Conclusions /\ Sound(results'[key])
    PROVE  EvaluationInv'
<1> DEFINE Jobs == [todo : SUBSET Records, left : Seq(File), found : SUBSET Findings, relied : SUBSET Commands]
<1>1. UNCHANGED <<log, target, scope, loaded, prerequisites, pending, materialized>>
  BY DEF request, surfaces
<1>2. job \in Jobs
  BY DEF EvaluationInv, TypeOK
<1>3. /\ job'.todo = job.todo /\ job'.left = Tail(job.left)
      /\ job'.found = job.found \cup found /\ job'.relied = job.relied \cup relied
  BY <1>2 DEF Counted
<1>4. job' \in Jobs
  <2>1. Tail(job.left) \in Seq(File)
    BY <1>2
  <2>2. found \subseteq Findings /\ relied \subseteq Commands
    BY Observed DEF Adds
  <2>3. QED
    BY <1>2, <2>1, <2>2 DEF Counted
<1> HIDE DEF Jobs
<1>5. Whole' /\ Settled' /\ Explained' /\ NoneOverlooked'
  BY <1>1, <1>3, SameRecorded
<1>6. \A f : Lacking(f)' = Lacking(f)
  <2>1. Settled
    BY DEF EvaluationInv
  <2>2. QED
    BY <1>1, <2>1, SameNeeds, SameSound
<1>7. log' \in Logs /\ TypeOK'
  <2>1. Frames' = Frames /\ Conclusions' = Conclusions /\ Findings' = Findings
    BY <1>1 DEF Frames, Conclusions, Findings, Commands
  <2>2. Commands' = Commands /\ Records' = Records
    BY <1>1, SameLog
  <2>3. stack' \in Seq(Frames) /\ Len(stack') <= MaxDepth + 2
    BY EmptySeq, DepthAssumption
  <2>4. job' \in Jobs'
    BY <1>4, <2>1, <2>2 DEF Jobs
  <2>5. QED
    BY <1>1, <2>1, <2>2, <2>3, <2>4 DEF EvaluationInv, TypeOK, Jobs
<1>8. Staged'
  BY <1>1, <1>3, SameLog DEF EvaluationInv, Staged
<1>9. Walked'
  <2>1. Sound(job)'
    BY <1>1, <1>3, <1>6 DEF EvaluationInv, Walked, Sound, Adds
  <2>2. ASSUME NEW key \in DOMAIN traces'
        PROVE  Sound(traces[key])'
    BY <1>1, <1>6 DEF EvaluationInv, Walked, Sound
  <2>3. ASSUME NEW key \in DOMAIN results'
        PROVE  Sound(results[key])'
    BY <1>1, <1>6 DEF Sound
  <2>4. QED
    BY <2>1, <2>2, <2>3 DEF Walked
<1>10. QED
  BY <1>5, <1>7, <1>8, <1>9 DEF EvaluationInv

LEMMA ResultsSound ==
    ASSUME EvaluationInv, NEW key \in DOMAIN results
    PROVE  results[key] \in Conclusions /\ Sound(results[key])
           /\ Adds(results[key].found, results[key].relied)
  BY DEF EvaluationInv, TypeOK, Walked, Conclusions, Sound, Adds

LEMMA TakeOriginKeeps ==
    ASSUME EvaluationInv, TakeOrigin
    PROVE  EvaluationInv'
<1>1. phase = "records" /\ job.todo # {} /\ job.left # <<>> /\ stack = <<>>
  BY DEF TakeOrigin, Sourcing, Evaluating
<1>2. Source \in File
  BY <1>1 DEF EvaluationInv, TypeOK, Source
<1>3. Adds(Boundary(Invocations, Source), {})
  BY <1>2, Observed, BoundaryType, OtherAdds
<1>4. QED
  BY <1>1, <1>3, ResultsSound, TakeStep DEF TakeOrigin, walking

LEMMA TakeResultKeeps ==
    ASSUME EvaluationInv, TakeResult
    PROVE  EvaluationInv'
<1>1. phase = "records" /\ job.todo # {} /\ job.left # <<>> /\ stack = <<>>
  BY DEF TakeResult, Sourcing, Evaluating
<1>2. QED
  BY <1>1, ResultsSound, TakeStep DEF TakeResult, walking

LEMMA EndWalkKeeps ==
    ASSUME EvaluationInv, EndWalk
    PROVE  EvaluationInv'
<1>1. stack # <<>>
  BY DEF EndWalk
<1>2. /\ phase = "records" /\ job.todo # {} /\ job.left # <<>>
      /\ Top \in Frames /\ Sound(Top)
  BY <1>1, InWalk
<1>3. Adds(Top.found, Top.relied)
  BY <1>2 DEF Adds, Sound, Frames
<1>4. Conclusion(Top) \in Conclusions /\ Sound(Conclusion(Top))
  BY <1>2 DEF Conclusion, Conclusions, Frames, Sound
<1>5. \A key \in DOMAIN results' : results'[key] \in Conclusions /\ Sound(results'[key])
  <2>1. \A key \in DOMAIN results' :
           results'[key] = Conclusion(Top) \/ (key \in DOMAIN results /\ results'[key] = results[key])
    BY DEF EndWalk, Cached
  <2>2. QED
    BY <1>4, <2>1, ResultsSound
<1>6. QED
  BY <1>2, <1>3, <1>5, TakeStep DEF EndWalk

LEMMA BeginWalkKeeps ==
    ASSUME EvaluationInv, BeginWalk
    PROVE  EvaluationInv'
<1>1. phase = "records" /\ job.todo # {} /\ job.left # <<>>
  BY DEF BeginWalk, Sourcing, Evaluating
<1>2. Source \in File
  BY <1>1 DEF EvaluationInv, TypeOK, Source
<1>3. Frame(None, <<Source>>) \in Frames /\ Sound(Frame(None, <<Source>>))
      /\ Frame(None, <<Source>>).command = None
  <2>1. <<Source>> \in Seq(File)
    BY <1>2
  <2>2. QED
    BY <2>1 DEF Frame, Frames, Sound
<1>4. Trail(stack')
  <2> DEFINE frame == Frame(None, <<Source>>)
  <2>1. stack' = <<frame>>
    BY DEF BeginWalk
  <2> HIDE DEF frame
  <2>2. <<frame>> \in Seq(Frames) /\ Len(<<frame>>) = 1 /\ \A j \in DOMAIN <<frame>> : <<frame>>[j] = frame
    BY <1>3 DEF frame
  <2>3. QED
    BY <1>3, <2>1, <2>2, DepthAssumption DEF Trail, frame
<1>5. \A key \in DOMAIN traces' : traces'[key] \in Conclusions /\ Sound(traces'[key])
  BY DEF BeginWalk, EvaluationInv, TypeOK, Walked
<1>6. QED
  BY <1>1, <1>4, <1>5, WalkStep DEF BeginWalk

-----------------------------------------------------------------------------
(* Checks of support, records and the summary *)

LEMMA CheckFields ==
    /\ \A id, outcome, deps : /\ Check(id, outcome, deps).id = id
                              /\ Check(id, outcome, deps).outcome = outcome
                              /\ Check(id, outcome, deps).deps = deps
    /\ \A id, deps : /\ Blocked(id, deps).id = id /\ Blocked(id, deps).outcome = "blocked"
                     /\ Blocked(id, deps).deps = deps
    /\ \A id, u : /\ Failure(id, u).id = id /\ Failure(id, u).outcome \in {"failed", "finding"}
                  /\ Failure(id, u).deps = {}
  BY DEF Check, Blocked, Failure

LEMMA BeginType ==
    ASSUME log \in Log, NEW todo \in SUBSET Records
    PROVE  /\ Begin(todo).todo = todo /\ Begin(todo).left \in Seq(File)
           /\ Begin(todo).found = {} /\ Begin(todo).relied = {}
           /\ Begin(todo) = [todo |-> todo, left |-> Begin(todo).left, found |-> {}, relied |-> {}]
           /\ todo = {} => Begin(todo) = NoJob
<1> DEFINE left == IF todo = {} THEN <<>> ELSE Sources(Min(todo))
<1>0. /\ Begin(todo) = [todo |-> todo, left |-> left, found |-> {}, relied |-> {}]
      /\ NoJob = [todo |-> {}, left |-> <<>>, found |-> {}, relied |-> {}]
  BY DEF Begin, NoJob
<1>1. CASE todo = {}
  BY <1>0, <1>1
<1>2. CASE todo # {}
  <2>1. Min(todo) \in Records
    BY <1>2, LogTypes, MinIn
  <2>2. Sources(Min(todo)) \in Seq(File)
    BY <2>1, LogTypes
  <2>3. QED
    BY <1>0, <1>2, <2>2
<1>3. QED
  BY <1>1, <1>2

\* A check that is recorded has an outcome and says what it depends on.
Sayable(c) ==
    /\ c.outcome \in {"pass", "finding", "failed", "blocked"}
    /\ c.outcome = "pass" => c.id[1] \in Judged

Behind(id, some) == \E d \in some : d.id = id /\ d.outcome # "pass"

LEMMA ChecksGrow ==
    ASSUME EvaluationInv, stack = <<>>, UNCHANGED <<request, surfaces, twice, walking>>,
           phase \in {"support", "close", "records"}, phase' \in {"records", "graph"},
           checks \subseteq checks',
           \A c \in checks' \ checks :
              /\ Sayable(c) /\ c.id[1] \notin {"input", "conflict"}
              /\ c.outcome = "blocked" => \E id \in c.deps : Behind(id, checks'),
           \A e \in loaded : log.support[e] = "broken" => Behind(PyrunId(e), checks'),
           NEW todo \in SUBSET Records, job' = Begin(todo), phase' = "graph" => todo = {},
           \A r \in Selected \ todo : {EvidenceId(r), ProvenanceId(r)} \subseteq Ids(checks'),
           Full => \A p, q \in Commands : \A m \in Outs(p) :
               p < q /\ Readable(At(p)) => Failure(FindingId(Finding("missing", m, {q})), FALSE) \notin checks'
    PROVE  EvaluationInv'
<1> DEFINE Jobs == [todo : SUBSET Records, left : Seq(File), found : SUBSET Findings, relied : SUBSET Commands]
<1>1. UNCHANGED <<log, target, scope, loaded, prerequisites, pending, materialized, stack, traces, results>>
  BY DEF request, surfaces, walking
<1>2. Settled /\ Whole /\ Explained /\ TypeOK /\ Staged /\ Walked
  BY DEF EvaluationInv
<1>3. \A p : Needs(p)' = Needs(p) /\ Away(p)' = Away(p) /\ Valid(p)' = Valid(p)
  BY <1>1, <1>2, SameNeeds
<1>4. \A id : Recorded(id) => Behind(id, checks')
  BY DEF Recorded, Behind
<1>5. /\ job'.todo = todo /\ job'.found = {} /\ job'.relied = {} /\ job' \in Jobs
      /\ todo = {} => job' = NoJob
  BY Observed, BeginType
<1> HIDE DEF Jobs
<1>6. log' \in Logs /\ TypeOK'
  <2>1. Frames' = Frames /\ Conclusions' = Conclusions /\ Findings' = Findings
    BY <1>1 DEF Frames, Conclusions, Findings, Commands
  <2>2. Commands' = Commands /\ Records' = Records
    BY <1>1, SameLog
  <2>3. \A c \in checks' : c.outcome \in {"pass", "finding", "failed", "blocked"}
    BY <1>2 DEF TypeOK, Sayable
  <2>4. job' \in Jobs'
    BY <1>5, <2>1, <2>2 DEF Jobs
  <2>5. QED
    BY <1>1, <2>1, <2>2, <2>3, <2>4 DEF EvaluationInv, TypeOK, Jobs
<1>7. Staged'
  BY <1>1, <1>2, <1>5, SameLog DEF Staged, NoJob
<1>8. Whole'
  <2>1. \A e : SurfaceChecks(e)' = SurfaceChecks(e) /\ SurfaceNeeds(e)' = SurfaceNeeds(e)
    BY <1>1, SameSurfaces
  <2>2. Commands' = Commands
    BY <1>1, SameLog
  <2>3. QED
    BY <1>1, <1>2, <2>1, <2>2 DEF Whole, Full, Preparing, Judging
<1>9. Settled'
  <2>1. \A t : Prerequired(t)' = Prerequired(t)
    BY <1>1, SameSurfaces DEF Prerequired, ConflictId, InputId, File
  <2>2. \A e \in loaded : Indexed({e})' = Indexed({e})
    BY <1>1, SameSurfaces
  <2>3. QED
    BY <1>1, <1>2, <2>1, <2>2 DEF Settled
<1>10. Explained'
  <2>1. \A c \in checks' : c.outcome = "pass" => c.id[1] \in Judged
    BY <1>2 DEF Explained, Sayable
  <2>2. \A c \in checks' : c.outcome = "blocked" => \E id \in c.deps : Behind(id, checks')
    BY <1>2, <1>4 DEF Explained
  <2>3. \A e \in log.broken : Behind(DataId(e), checks')
    BY <1>2, <1>4 DEF Explained, Preparing, Judging
  <2>4. \A p \in materialized : Readable(At(p)) /\ Needs(p) # {} => Behind(CommandId(p), checks')
    BY <1>2, <1>4 DEF Explained
  <2>5. Selected' = Selected /\ \A p : At(p)' = At(p) /\ Readable(At(p))' = Readable(At(p))
    BY <1>1, SameLog DEF Selected, Full
  <2>6. (\A c \in checks : c.outcome = "blocked" => \E id \in c.deps : Recorded(id))'
    BY <2>2 DEF Behind, Recorded
  <2>7. (Preparing \/ Judging => \A e \in log.broken : Recorded(DataId(e)))'
    BY <1>1, <2>3 DEF Behind, Recorded, DataId
  <2>8. (\A p \in materialized : Readable(At(p)) /\ Needs(p) # {} => Recorded(CommandId(p)))'
    BY <1>1, <1>3, <2>4, <2>5 DEF Behind, Recorded, CommandId
  <2>9. (Judging => \A e \in loaded : log.support[e] = "broken" => Recorded(PyrunId(e)))'
    BY <1>1 DEF Behind, Recorded, PyrunId
  <2>10. (phase = "records" =>
             \A r \in Selected \ job.todo : {EvidenceId(r), ProvenanceId(r)} \subseteq Ids(checks))'
    BY <1>5, <2>5 DEF Ids, EvidenceId, ProvenanceId
  <2>11. QED
    BY <2>1, <2>6, <2>7, <2>8, <2>9, <2>10 DEF Explained
<1>11. NoneOverlooked'
  BY <1>1, SameLog DEF NoneOverlooked, Full, Failure, FindingId, Finding, Check
<1>12. Walked'
  <2>1. \A f : Lacking(f)' = Lacking(f)
    BY <1>1, <1>3, SameSound
  <2>2. Sound(job)'
    BY <1>5 DEF Sound
  <2>3. ASSUME NEW key \in DOMAIN traces'
        PROVE  Sound(traces[key])'
    BY <1>1, <1>2, <2>1 DEF Walked, Sound
  <2>4. ASSUME NEW key \in DOMAIN results'
        PROVE  Sound(results[key])'
    BY <1>1, <1>2, <2>1 DEF Walked, Sound
  <2>5. QED
    BY <1>1, <2>2, <2>3, <2>4 DEF Walked
<1>13. QED
  BY <1>6, <1>7, <1>8, <1>9, <1>10, <1>11, <1>12 DEF EvaluationInv

LEMMA ThroughRecords ==
    ASSUME EvaluationInv, Evaluating
    PROVE  /\ Record \in Records /\ job.todo \ {Record} \in SUBSET Records
           /\ Of(Record) \in Entry /\ Sources(Record) \in Seq(File)
           /\ phase = "records" /\ stack = <<>>
<1>1. job.todo \in SUBSET Records /\ job.todo # {}
  BY DEF EvaluationInv, TypeOK, Evaluating
<1>2. job.todo \in SUBSET Nat
  BY <1>1, Observed, LogTypes
<1>3. Record \in job.todo
  BY <1>1, <1>2, MinIn DEF Record
<1>4. QED
  BY <1>1, <1>3, Observed, LogTypes DEF Evaluating

LEMMA RecordBlockedKeeps ==
    ASSUME EvaluationInv, RecordBlocked
    PROVE  EvaluationInv'
<1> DEFINE new == {Blocked(id, {DataId(Of(Record))}) : id \in {EvidenceId(Record), ProvenanceId(Record)}}
           todo == job.todo \ {Record}
<1>1. Evaluating /\ ~ Readable(Of(Record)) /\ checks' = checks \cup new /\ job' = Begin(todo)
      /\ UNCHANGED <<request, surfaces, phase, twice, walking>>
  BY DEF RecordBlocked
<1>2. /\ Record \in Records /\ todo \in SUBSET Records
      /\ Of(Record) \in Entry /\ phase = "records" /\ stack = <<>>
  BY <1>1, ThroughRecords
<1>3. Recorded(DataId(Of(Record)))
  BY <1>1, <1>2 DEF EvaluationInv, Explained, Judging, Readable
<1>4. Behind(DataId(Of(Record)), checks')
  BY <1>1, <1>3 DEF Behind, Recorded
<1>5. \A c \in new : /\ c.id \in {EvidenceId(Record), ProvenanceId(Record)}
                     /\ c.outcome = "blocked" /\ c.deps = {DataId(Of(Record))}
  BY CheckFields
<1>6. \A c \in checks' \ checks :
         /\ Sayable(c) /\ c.id[1] \notin {"input", "conflict"}
         /\ c.outcome = "blocked" => \E id \in c.deps : Behind(id, checks')
  BY <1>1, <1>4, <1>5, Kinds DEF Sayable
<1>7. \A e \in loaded : log.support[e] = "broken" => Behind(PyrunId(e), checks')
  BY <1>1, <1>2 DEF EvaluationInv, Explained, Judging, Recorded, Behind
<1>8. \A r \in Selected \ todo : {EvidenceId(r), ProvenanceId(r)} \subseteq Ids(checks')
  <2>1. {EvidenceId(Record), ProvenanceId(Record)} \subseteq Ids(new)
    <3>1. \A id \in {EvidenceId(Record), ProvenanceId(Record)} :
             Blocked(id, {DataId(Of(Record))}) \in new /\ Blocked(id, {DataId(Of(Record))}).id = id
      BY CheckFields
    <3> HIDE DEF new
    <3>2. QED
      BY <3>1 DEF Ids
  <2>2. \A r \in Selected \ job.todo : {EvidenceId(r), ProvenanceId(r)} \subseteq Ids(checks)
    BY <1>2 DEF EvaluationInv, Explained
  <2>3. Ids(checks') = Ids(checks) \cup Ids(new)
    BY <1>1 DEF Ids
  <2>4. QED
    BY <2>1, <2>2, <2>3
<1>9. Full => \A p, q \in Commands : \A m \in Outs(p) :
         p < q /\ Readable(At(p)) => Failure(FindingId(Finding("missing", m, {q})), FALSE) \notin checks'
  <2>1. \A f : Failure(FindingId(f), FALSE) \notin new
    BY <1>5, CheckFields
  <2>2. QED
    BY <1>1, <2>1 DEF EvaluationInv, NoneOverlooked
<1> HIDE DEF new, todo
<1>10. QED
  BY <1>1, <1>2, <1>6, <1>7, <1>8, <1>9, ChecksGrow

LEMMA LoadSupportKeeps ==
    ASSUME EvaluationInv, LoadSupport
    PROVE  EvaluationInv'
<1> DEFINE new == {Failure(PyrunId(e), FALSE) : e \in {e \in loaded : log.support[e] = "broken"}}
<1>1. /\ phase \in {"support", "close"} /\ phase' = "records"
      /\ checks' = checks \cup new /\ job' = Begin(Selected)
      /\ UNCHANGED <<request, surfaces, twice, walking>>
  BY DEF LoadSupport
<1>2. stack = <<>>
  BY <1>1 DEF EvaluationInv, Staged
<1>3. \A c \in new : c.id[1] = "pyrun" /\ c.outcome \in {"failed", "finding"}
  <2> TAKE c \in new
  <2>1. PICK e \in loaded : c = Failure(PyrunId(e), FALSE)
    OBVIOUS
  <2>2. c.id = PyrunId(e) /\ c.outcome \in {"failed", "finding"}
    BY <2>1, CheckFields
  <2>3. QED
    BY <2>2, Kinds
<1>4. \A c \in checks' \ checks :
         /\ Sayable(c) /\ c.id[1] \notin {"input", "conflict"}
         /\ c.outcome = "blocked" => \E id \in c.deps : Behind(id, checks')
  BY <1>1, <1>3 DEF Sayable
<1>5. \A e \in loaded : log.support[e] = "broken" => Behind(PyrunId(e), checks')
  <2>1. \A e \in loaded : log.support[e] = "broken" =>
            /\ Failure(PyrunId(e), FALSE) \in checks' /\ Failure(PyrunId(e), FALSE).id = PyrunId(e)
            /\ Failure(PyrunId(e), FALSE).outcome # "pass"
    BY <1>1, CheckFields
  <2>2. QED
    BY <2>1 DEF Behind
<1>6. Full => \A p, q \in Commands : \A m \in Outs(p) :
         p < q /\ Readable(At(p)) => Failure(FindingId(Finding("missing", m, {q})), FALSE) \notin checks'
  <2>1. \A f : Failure(FindingId(f), FALSE) \notin new
    <3> TAKE f
    <3>1. Failure(FindingId(f), FALSE).id = FindingId(f)
      BY CheckFields
    <3>2. FindingId(f)[1] = "finding"
      BY Kinds
    <3> HIDE DEF new
    <3>3. QED
      BY <1>3, <3>1, <3>2
  <2>2. QED
    BY <1>1, <2>1 DEF EvaluationInv, NoneOverlooked
<1>7. Selected \in SUBSET Records
  BY DEF Selected
<1> HIDE DEF new
<1>8. QED
  BY <1>1, <1>2, <1>4, <1>5, <1>6, <1>7, ChecksGrow

LEMMA ConcludeSummaryKeeps ==
    ASSUME EvaluationInv, ConcludeSummary
    PROVE  EvaluationInv'
<1> DEFINE ids == UNION {{EvidenceId(r), ProvenanceId(r)} : r \in {r \in log.cited : Full}}
           concluded(id) == IF OutcomeOf(id) = "pass" THEN Check(<<"summary", id>>, "pass", {})
                            ELSE Blocked(<<"summary", id>>, {id})
           new == {concluded(id) : id \in ids}
<1>1. /\ phase = "records" /\ job.todo = {} /\ phase' = "graph" /\ checks' = checks \cup new
      /\ UNCHANGED <<request, surfaces, twice, job, walking>>
  BY DEF ConcludeSummary
<1>2. job = NoJob /\ stack = <<>>
  BY <1>1 DEF EvaluationInv, Staged
<1>3. Begin({}) = NoJob /\ job' = Begin({})
  BY <1>1, <1>2, Observed, BeginType
<1>4. ASSUME NEW c \in new
      PROVE  /\ c.id[1] = "summary" /\ c.outcome \in {"pass", "blocked"}
             /\ c.outcome = "blocked" => \E id \in c.deps : Recorded(id)
  <2>1. PICK id \in ids : c = concluded(id)
    BY <1>4
  <2>2. PICK r \in log.cited : Full /\ id \in {EvidenceId(r), ProvenanceId(r)}
    BY <2>1
  <2>3. r \in Selected \ job.todo
    BY <1>1, <2>2, Observed DEF WellFormed, Selected, Records
  <2>4. id \in Ids(checks)
    BY <1>1, <2>2, <2>3 DEF EvaluationInv, Explained
  <2>5. \E d \in checks : d.id = id
    BY <2>4 DEF Ids
  <2>6. (CHOOSE d \in checks : d.id = id) \in checks /\ (CHOOSE d \in checks : d.id = id).id = id
    BY <2>5
  <2>7. CASE OutcomeOf(id) = "pass"
    BY <2>1, <2>7, CheckFields, Kinds
  <2>8. CASE OutcomeOf(id) # "pass"
    <3>1. Recorded(id)
      BY <2>6, <2>8 DEF OutcomeOf, Recorded
    <3>2. c.id = <<"summary", id>> /\ c.outcome = "blocked" /\ c.deps = {id}
      BY <2>1, <2>8, CheckFields
    <3>3. QED
      BY <3>1, <3>2, Kinds
  <2>9. QED
    BY <2>7, <2>8
<1>5. \A c \in checks' \ checks :
         /\ Sayable(c) /\ c.id[1] \notin {"input", "conflict"}
         /\ c.outcome = "blocked" => \E id \in c.deps : Behind(id, checks')
  <2>1. \A id : Recorded(id) => Behind(id, checks')
    BY <1>1 DEF Recorded, Behind
  <2> HIDE DEF new
  <2>2. QED
    BY <1>1, <1>4, <2>1 DEF Sayable, Judged
<1> HIDE DEF new
<1>6. \A e \in loaded : log.support[e] = "broken" => Behind(PyrunId(e), checks')
  BY <1>1 DEF EvaluationInv, Explained, Judging, Recorded, Behind
<1>7. \A r \in Selected \ {} : {EvidenceId(r), ProvenanceId(r)} \subseteq Ids(checks')
  BY <1>1 DEF EvaluationInv, Explained, Ids
<1>8. Full => \A p, q \in Commands : \A m \in Outs(p) :
         p < q /\ Readable(At(p)) => Failure(FindingId(Finding("missing", m, {q})), FALSE) \notin checks'
  <2>1. \A f : Failure(FindingId(f), FALSE) \notin new
    BY <1>4, CheckFields, Kinds
  <2>2. QED
    BY <1>1, <2>1 DEF EvaluationInv, NoneOverlooked
<1>9. QED
  BY <1>1, <1>2, <1>3, <1>5, <1>6, <1>7, <1>8, ChecksGrow

\* A finding is recorded, as a failure or blocked by commands that failed.
LEMMA FindingCheckFields ==
    ASSUME EvaluationInv, NEW f
    PROVE  LET c == FindingCheck(f)
           IN  /\ c.id = FindingId(f) /\ c.outcome \in {"failed", "finding", "blocked"}
               /\ c.outcome = "blocked" => \E id \in c.deps : Recorded(id)
<1>1. CASE f.code = "missing" /\ Blockers(f.subject) # {}
  <2>1. FindingCheck(f) = Blocked(FindingId(f), Blockers(f.subject))
    BY <1>1 DEF FindingCheck
  <2>2. PICK p \in materialized : /\ Readable(At(p)) /\ Needs(p) # {}
                                  /\ CommandId(p) \in Blockers(f.subject)
    BY <1>1 DEF Blockers
  <2>3. Recorded(CommandId(p))
    BY <2>2 DEF EvaluationInv, Explained
  <2>4. QED
    BY <2>1, <2>2, <2>3, CheckFields
<1>2. CASE ~ (f.code = "missing" /\ Blockers(f.subject) # {})
  <2>1. FindingCheck(f) = Failure(FindingId(f), f.code = "unavailable")
    BY <1>2 DEF FindingCheck
  <2>2. QED
    BY <2>1, CheckFields
<1>3. QED
  BY <1>1, <1>2

\* What stands for the support of a producer is recorded.
LEMMA WithheldRecorded ==
    ASSUME EvaluationInv, phase = "records", NEW p \in materialized, NEW id \in Withheld(p)
    PROVE  Recorded(id)
<1>1. CASE id = PyrunId(At(p)) /\ log.support[At(p)] = "broken"
  BY <1>1 DEF EvaluationInv, Explained, Judging, Staged
<1>2. CASE id \in Ids(Away(p))
  <2>1. PICK c \in Needs(p) : id = c.id
    BY <1>2 DEF Ids, Away
  <2>2. Settled /\ Explained
    BY DEF EvaluationInv
  <2>3. QED
    BY <2>1, <2>2, NeedsKinds, NeedsRecorded
<1>3. QED
  BY <1>1, <1>2 DEF Withheld

LEMMA ConcludeRecordKeeps ==
    ASSUME EvaluationInv, ConcludeRecord
    PROVE  EvaluationInv'
<1> DEFINE e == Of(Record)
           named == {c \in checks : \E m \in ToSet(Sources(Record)) : <<e, m, c.id>> \in prerequisites}
           causes == {FindingId(f) : f \in job.found} \cup UNION {Withheld(p) : p \in job.relied}
           verdict(id, causing, otherwise) ==
               IF causing = {} THEN Check(id, otherwise, {}) ELSE Blocked(id, causing)
           found == {FindingCheck(f) : f \in job.found}
           right == IF log.records[Record].right THEN "pass" ELSE "finding"
           first == verdict(EvidenceId(Record), Ids(named), right)
           second == verdict(ProvenanceId(Record), IF causes = {} THEN Ids(named) ELSE causes, "pass")
           todo == job.todo \ {Record}
<1>1. /\ Evaluating /\ Readable(e) /\ job.left = <<>>
      /\ checks' = checks \cup found \cup {first, second}
      /\ job' = Begin(todo)
      /\ UNCHANGED <<request, surfaces, phase, twice, walking>>
  BY DEF ConcludeRecord
<1>2. /\ Record \in Records /\ todo \in SUBSET Records
      /\ phase = "records" /\ stack = <<>>
  BY <1>1, ThroughRecords
<1>3. Settled /\ Explained /\ Sound(job) /\ NoneOverlooked /\ Whole /\ job.found \subseteq Findings
  BY DEF EvaluationInv, Walked, TypeOK
<1>4. \A id : Recorded(id) => Behind(id, checks')
  BY <1>1 DEF Recorded, Behind
<1>5. \A f \in job.found : Behind(FindingId(f), checks')
  <2> TAKE f \in job.found
  <2>1. FindingCheck(f) \in checks'
    BY <1>1
  <2>2. QED
    BY <2>1, FindingCheckFields DEF Behind
<1>6. \A id \in Ids(named) : Recorded(id)
  <2> TAKE id \in Ids(named)
  <2>1. PICK c \in named : id = c.id
    BY DEF Ids
  <2>2. c.id[1] \in {"input", "conflict"}
    BY <1>3, NeedsKinds
  <2>3. QED
    BY <1>3, <2>1, <2>2, NeedsRecorded
<1>7. \A id \in causes : Behind(id, checks')
  <2> TAKE id \in causes
  <2>1. CASE id \in {FindingId(f) : f \in job.found}
    BY <1>5, <2>1
  <2>2. CASE id \in UNION {Withheld(p) : p \in job.relied}
    <3>1. PICK p \in job.relied : id \in Withheld(p)
      BY <2>2
    <3>2. p \in materialized
      BY <1>3 DEF Sound
    <3>3. QED
      BY <1>2, <1>4, <3>1, <3>2, WithheldRecorded
  <2>3. QED
    BY <2>1, <2>2
<1> DEFINE Good(c, id) ==
       /\ c.id = id /\ c.outcome \in {"pass", "finding", "blocked"}
       /\ c.outcome = "blocked" => \E d \in c.deps : Behind(d, checks')
<1>8. Good(first, EvidenceId(Record))
  <2> HIDE DEF named
  <2>1. CASE Ids(named) = {}
    BY <2>1, CheckFields
  <2>2. CASE Ids(named) # {}
    BY <1>4, <1>6, <2>2, CheckFields
  <2>3. QED
    BY <2>1, <2>2
<1>9. Good(second, ProvenanceId(Record))
  <2> DEFINE causing == IF causes = {} THEN Ids(named) ELSE causes
  <2>1. \A id \in causing : Behind(id, checks')
    BY <1>4, <1>6, <1>7
  <2>2. second = IF causing = {} THEN Check(ProvenanceId(Record), "pass", {}) ELSE Blocked(ProvenanceId(Record), causing)
    OBVIOUS
  <2> HIDE DEF causing, second
  <2>3. CASE causing = {}
    BY <2>2, <2>3, CheckFields
  <2>4. CASE causing # {}
    BY <2>1, <2>2, <2>4, CheckFields
  <2>5. QED
    BY <2>3, <2>4
<1>10. \A c \in found : /\ c.id[1] = "finding" /\ c.outcome \in {"failed", "finding", "blocked"}
                        /\ c.outcome = "blocked" => \E id \in c.deps : Behind(id, checks')
  <2> TAKE c \in found
  <2>1. PICK f \in job.found : c = FindingCheck(f)
    OBVIOUS
  <2>2. QED
    BY <1>4, <2>1, FindingCheckFields, Kinds
<1>11. \A r \in Selected \ todo : {EvidenceId(r), ProvenanceId(r)} \subseteq Ids(checks')
  <2> HIDE DEF first, second, found
  <2>1. {EvidenceId(Record), ProvenanceId(Record)} \subseteq Ids(checks')
    BY <1>1, <1>8, <1>9 DEF Ids
  <2>2. \A r \in Selected \ job.todo : {EvidenceId(r), ProvenanceId(r)} \subseteq Ids(checks)
    BY <1>2, <1>3 DEF Explained
  <2>3. Ids(checks) \subseteq Ids(checks')
    BY <1>1 DEF Ids
  <2>4. QED
    BY <2>1, <2>2, <2>3
<1>12. Full => \A p, q \in Commands : \A m \in Outs(p) :
         p < q /\ Readable(At(p)) => Failure(FindingId(Finding("missing", m, {q})), FALSE) \notin checks'
  <2> SUFFICES ASSUME Full, NEW p \in Commands, NEW q \in Commands, NEW m \in Outs(p),
                      p < q, Readable(At(p)),
                      Failure(FindingId(Finding("missing", m, {q})), FALSE) \in checks'
               PROVE  FALSE
    OBVIOUS
  <2> DEFINE g == Finding("missing", m, {q})
             failure == Failure(FindingId(g), FALSE)
  <2>1. failure.id = FindingId(g) /\ failure.outcome # "blocked" /\ FindingId(g)[1] = "finding"
    BY CheckFields, Kinds
  <2>2. failure \notin checks
    BY <1>3 DEF NoneOverlooked
  <2>3. failure # first /\ failure # second
    <3> HIDE DEF first, second, failure, g
    <3>1. QED
      BY <1>8, <1>9, <2>1, Kinds
  <2>4. failure \in found
    <3> HIDE DEF first, second, failure, g, found
    <3>1. failure \in checks'
      BY DEF failure, g
    <3>2. QED
      BY <1>1, <2>2, <2>3, <3>1
  <2>5. PICK f \in job.found : failure = FindingCheck(f)
    BY <2>4
  <2>6. f = g
    <3> HIDE DEF failure, g
    <3>1. FindingId(f) = FindingId(g)
      BY <2>1, <2>5, FindingCheckFields
    <3>2. QED
      BY <3>1, Kinds
  <2>7. f.code = "missing" /\ f.subject = m /\ f.about = {q}
    BY <2>6 DEF Finding
  <2>8. Blockers(m) = {}
    <3> SUFFICES ASSUME Blockers(m) # {} PROVE FALSE
      OBVIOUS
    <3>1. FindingCheck(f) = Blocked(FindingId(f), Blockers(m))
      BY <2>7 DEF FindingCheck
    <3>2. FindingCheck(f).outcome = "blocked"
      BY <3>1, CheckFields
    <3> HIDE DEF failure
    <3>3. QED
      BY <2>1, <2>5, <3>2
  <2>9. Lacking(f)
    BY <1>3, <2>7 DEF Sound
  <2>10. m \in File /\ \A o \in Invocations : o < q => m \notin Scalars(o)
    <3>1. PICK k \in Commands \cup {None} :
             /\ f.about = {k}
             /\ k # None => \A o \in Invocations : o < k => f.subject \notin Scalars(o)
      BY <2>9 DEF Lacking
    <3>2. k = q
      BY <2>7, <3>1
    <3>3. q # None
      BY Observed, LogTypes
    <3>4. QED
      BY <2>7, <2>9, <3>1, <3>2, <3>3 DEF Lacking
  <2>11. p \notin Invocations
    BY <2>10 DEF Scalars
  <2>12. p \in materialized
    BY <1>2, <1>3 DEF Whole, Judging
  <2>13. Needs(p) # {}
    BY <2>11, <2>12 DEF Invocations, Valid, Away
  <2>14. CommandId(p) \in Blockers(m)
    BY <2>12, <2>13 DEF Blockers
  <2>15. QED
    BY <2>8, <2>14
<1>13. \A c \in checks' \ checks :
         /\ Sayable(c) /\ c.id[1] \notin {"input", "conflict"}
         /\ c.outcome = "blocked" => \E id \in c.deps : Behind(id, checks')
  <2> HIDE DEF first, second, found
  <2>1. EvidenceId(Record)[1] = "evidence" /\ ProvenanceId(Record)[1] = "provenance"
    BY Kinds
  <2>2. ASSUME NEW c \in found
        PROVE  /\ Sayable(c) /\ c.id[1] \notin {"input", "conflict"}
               /\ c.outcome = "blocked" => \E id \in c.deps : Behind(id, checks')
    BY <1>10 DEF Sayable
  <2>3. ASSUME NEW c \in {first, second}
        PROVE  /\ Sayable(c) /\ c.id[1] \notin {"input", "conflict"}
               /\ c.outcome = "blocked" => \E id \in c.deps : Behind(id, checks')
    BY <1>8, <1>9, <2>1 DEF Sayable, Judged
  <2>4. QED
    BY <1>1, <2>2, <2>3
<1>14. \A d \in loaded : log.support[d] = "broken" => Behind(PyrunId(d), checks')
  BY <1>2, <1>3, <1>4 DEF Explained, Judging
<1>15. checks \subseteq checks' /\ phase' = "records"
  BY <1>1, <1>2
<1> HIDE DEF first, second, found, todo
<1>16. QED
  BY <1>1, <1>2, <1>11, <1>12, <1>13, <1>14, <1>15, ChecksGrow

-----------------------------------------------------------------------------
(* Entries and commands *)

LEMMA ConflictFacts ==
    ASSUME NEW E \in SUBSET Entry
    PROVE  /\ Indexed(E) \subseteq File /\ \A e \in E : Indexed({e}) \subseteq Indexed(E)
           /\ \A e \in E : \A m \in Indexed({e}) :
                 /\ Failure(ConflictId(m), FALSE) \in ConflictChecks(Indexed(E))
                 /\ <<e, m, ConflictId(m)>> \in ConflictNeeds(E)
           /\ \A t \in ConflictNeeds(E) : \E e \in E : \E m \in Indexed({e}) : t = <<e, m, ConflictId(m)>>
           /\ \A c \in ConflictChecks(Indexed(E)) :
                 /\ \E m \in Indexed(E) : c = Failure(ConflictId(m), FALSE)
                 /\ c.id[1] = "conflict" /\ c.outcome \in {"failed", "finding"}
<1>1. Indexed(E) \subseteq File /\ \A e \in E : Indexed({e}) \subseteq Indexed(E)
  BY DEF Indexed, Conflicting
<1>2. \A e, m : m \in Indexed({e}) <=> m \in Conflicting(Entry) /\ Declares(e, m)
  BY DEF Indexed
<1>3. \A e \in E : \A m \in Indexed({e}) :
         /\ Failure(ConflictId(m), FALSE) \in ConflictChecks(Indexed(E))
         /\ <<e, m, ConflictId(m)>> \in ConflictNeeds(E)
  <2> TAKE e \in E
  <2> TAKE m \in Indexed({e})
  <2>1. m \in Indexed(E) /\ Declares(e, m)
    BY <1>1, <1>2
  <2>2. Failure(ConflictId(m), FALSE) \in ConflictChecks(Indexed(E))
    BY <2>1 DEF ConflictChecks
  <2> DEFINE needs == {<<e, n, ConflictId(n)>> : n \in {n \in Indexed(E) : Declares(e, n)}}
  <2>3. needs \subseteq ConflictNeeds(E)
    BY DEF ConflictNeeds
  <2>4. <<e, m, ConflictId(m)>> \in needs
    BY <2>1
  <2>5. QED
    BY <2>2, <2>3, <2>4
<1>4. ASSUME NEW t \in ConflictNeeds(E)
      PROVE  \E e \in E : \E m \in Indexed({e}) : t = <<e, m, ConflictId(m)>>
  <2>1. PICK e \in E : \E m \in Indexed(E) : Declares(e, m) /\ t = <<e, m, ConflictId(m)>>
    BY DEF ConflictNeeds
  <2>2. PICK m \in Indexed(E) : Declares(e, m) /\ t = <<e, m, ConflictId(m)>>
    BY <2>1
  <2>3. m \in Indexed({e})
    BY <1>2, <2>2 DEF Indexed
  <2>4. QED
    BY <2>2, <2>3
<1>5. ASSUME NEW c \in ConflictChecks(Indexed(E))
      PROVE  /\ \E m \in Indexed(E) : c = Failure(ConflictId(m), FALSE)
             /\ c.id[1] = "conflict" /\ c.outcome \in {"failed", "finding"}
  <2>1. PICK m \in Indexed(E) : c = Failure(ConflictId(m), FALSE)
    BY DEF ConflictChecks
  <2>2. c.id = ConflictId(m) /\ c.outcome \in {"failed", "finding"}
    BY <2>1, CheckFields
  <2>3. QED
    BY <2>1, <2>2, Kinds
<1>6. QED
  BY <1>1, <1>3, <1>4, <1>5

LEMMA SurfaceFacts ==
    ASSUME log \in Log, NEW e \in Entry
    PROVE  /\ \A c \in SurfaceChecks(e) : c.id[1] \in {"input", "data"} /\ c.outcome \in {"failed", "finding"}
           /\ \A t \in SurfaceNeeds(e) : \E m, i \in File : t = <<e, m, InputId(e, i)>>
           /\ ~ Readable(e) => Failure(DataId(e), FALSE) \in SurfaceChecks(e)
<1>1. FirstAbsent(log.declared[e]) \subseteq File
  BY LogTypes, Absent
<1>2. ASSUME Readable(e), NEW c \in SurfaceChecks(e)
      PROVE  \E i \in File : c.id = InputId(e, i) /\ c.outcome \in {"failed", "finding"}
  <2>1. PICK i \in FirstAbsent(log.declared[e]) : c = Failure(InputId(e, i), log.state[i] = "away")
    BY <1>2 DEF SurfaceChecks
  <2>2. QED
    BY <1>1, <2>1, CheckFields
<1>3. ASSUME ~ Readable(e)
      PROVE  SurfaceChecks(e) = {Failure(DataId(e), FALSE)}
  BY <1>3 DEF SurfaceChecks
<1>4. ASSUME NEW c \in SurfaceChecks(e)
      PROVE  c.id[1] \in {"input", "data"} /\ c.outcome \in {"failed", "finding"}
  <2>1. CASE Readable(e)
    BY <1>2, <2>1, Kinds
  <2>2. CASE ~ Readable(e)
    <3>1. c = Failure(DataId(e), FALSE)
      BY <1>3, <2>2
    <3>2. c.id = DataId(e) /\ c.outcome \in {"failed", "finding"}
      BY <3>1, CheckFields
    <3>3. QED
      BY <3>2, Kinds
  <2>3. QED
    BY <2>1, <2>2
<1>5. ASSUME NEW t \in SurfaceNeeds(e)
      PROVE  \E m, i \in File : t = <<e, m, InputId(e, i)>>
  <2>1. PICK m \in File, id \in Ids(SurfaceChecks(e)) : Declares(e, m) /\ t = <<e, m, id>>
    BY DEF SurfaceNeeds
  <2>2. PICK c \in SurfaceChecks(e) : id = c.id
    BY <2>1 DEF Ids
  <2>3. Readable(e)
    BY <2>1 DEF Declares
  <2>4. PICK i \in File : id = InputId(e, i)
    BY <1>2, <2>2, <2>3
  <2>5. QED
    BY <2>1, <2>4
<1>6. QED
  BY <1>3, <1>4, <1>5

LEMMA NothingWalked ==
    ASSUME EvaluationInv, phase # "records", UNCHANGED job,
           stack' = <<>> /\ traces' = <<>> /\ results' = <<>>
    PROVE  Walked'
<1>1. job = NoJob
  BY DEF EvaluationInv, Staged
<1>2. job'.found = {} /\ job'.relied = {}
  BY <1>1 DEF NoJob
<1>3. Sound(job)'
  BY <1>2 DEF Sound
<1>4. DOMAIN stack' = {} /\ DOMAIN traces' = {} /\ DOMAIN results' = {}
  OBVIOUS
<1>5. QED
  BY <1>3, <1>4 DEF Walked

\* While entries are loaded there is no walk.
LEMMA SurfaceTypes ==
    ASSUME EvaluationInv, phase \in {"open", "discover", "close"}, UNCHANGED <<request, job, walking>>,
           phase' \in {"discover", "close", "support"},
           loaded' \in SUBSET Entry, pending' \in SUBSET Commands, materialized' \in SUBSET Commands,
           \A p \in materialized' \cup pending' : At(p) \in loaded',
           phase' # "discover" => pending' = {},
           \A c \in checks' : c.outcome \in {"pass", "finding", "failed", "blocked"}
    PROVE  log' \in Logs /\ TypeOK' /\ Staged' /\ Walked'
<1>1. UNCHANGED <<log, target, scope, attempts, stack, traces, results>>
  BY DEF request, walking
<1>2. TypeOK /\ Staged
  BY DEF EvaluationInv
<1>3. job = NoJob /\ stack = <<>> /\ traces = <<>> /\ results = <<>>
  BY <1>2 DEF Staged
<1>4. Walked'
  BY <1>1, <1>3, NothingWalked
<1>5. TypeOK'
  <2>1. Frames' = Frames /\ Conclusions' = Conclusions /\ Findings' = Findings
    BY <1>1 DEF Frames, Conclusions, Findings, Commands
  <2>2. Commands' = Commands /\ Records' = Records
    BY <1>1, SameLog
  <2>3. QED
    BY <1>1, <1>2, <2>1, <2>2 DEF TypeOK
<1>6. Staged'
  BY <1>1, <1>3, SameLog DEF Staged, NoJob
<1>7. QED
  BY <1>1, <1>4, <1>5, <1>6 DEF EvaluationInv

LEMMA OpenKeeps ==
    ASSUME EvaluationInv, Open
    PROVE  EvaluationInv'
<1> DEFINE opened == IF Full THEN Entry ELSE {target}
           surfaced == UNION {SurfaceChecks(e) : e \in opened \cup log.broken}
           needed == UNION {SurfaceNeeds(e) : e \in opened}
<1>1. /\ phase = "open" /\ loaded' = opened
      /\ checks' = ConflictChecks(Indexed(opened)) \cup surfaced
      /\ prerequisites' = ConflictNeeds(opened) \cup needed
      /\ pending' = {p \in Commands : At(p) \in opened}
      /\ phase' = "discover"
      /\ UNCHANGED <<request, materialized, twice, job, walking>>
  BY DEF Open
<1>2. UNCHANGED <<log, scope>> /\ log \in Log
  BY <1>1, Observed DEF request
<1>3. opened \in SUBSET Entry /\ log.broken \subseteq Entry
  BY <1>2 DEF EvaluationInv, TypeOK, Log
<1>4. materialized' = {} /\ twice' = {}
  BY <1>1 DEF EvaluationInv, Staged
<1> DEFINE everywhere == opened \cup log.broken
<1>5. /\ \A e \in everywhere : SurfaceChecks(e) \subseteq surfaced
      /\ \A e \in opened : SurfaceNeeds(e) \subseteq needed
      /\ \A c \in surfaced : \E e \in everywhere : c \in SurfaceChecks(e)
      /\ \A t \in needed : \E e \in opened : t \in SurfaceNeeds(e)
  OBVIOUS
<1>6. Full => opened = Entry
  OBVIOUS
<1> HIDE DEF opened, surfaced, needed
<1>7. \A c \in checks' : c.id[1] \in {"input", "data", "conflict"} /\ c.outcome \in {"failed", "finding"}
  <2> TAKE c \in checks'
  <2>1. CASE c \in surfaced
    <3>1. PICK e \in everywhere : c \in SurfaceChecks(e)
      BY <1>5, <2>1
    <3>2. QED
      BY <1>2, <1>3, <3>1, SurfaceFacts
  <2>2. CASE c \in ConflictChecks(Indexed(opened))
    BY <1>3, <2>2, ConflictFacts
  <2>3. QED
    BY <1>1, <2>1, <2>2
<1>8. log' \in Logs /\ TypeOK' /\ Staged' /\ Walked'
  BY <1>1, <1>3, <1>4, <1>7, SurfaceTypes
<1>9. Whole'
  <2>1. ASSUME Full
        PROVE  /\ pending' = Commands
               /\ \A e \in Entry : SurfaceChecks(e) \subseteq checks' /\ SurfaceNeeds(e) \subseteq prerequisites'
    <3>1. opened = Entry
      BY <1>6, <2>1
    <3>2. QED
      BY <1>1, <1>2, <1>5, <3>1, LogTypes
  <2>2. Full' = Full /\ Commands' = Commands
        /\ \A e : SurfaceChecks(e)' = SurfaceChecks(e) /\ SurfaceNeeds(e)' = SurfaceNeeds(e)
    BY <1>2, SameLog, SameSurfaces DEF Full
  <2>3. QED
    BY <1>1, <1>4, <2>1, <2>2 DEF Whole, Judging
<1>10. Settled'
  <2>1. \A e : Indexed({e})' = Indexed({e})
    BY <1>2, SameSurfaces
  <2>2. ASSUME NEW t \in prerequisites'
        PROVE  \E e \in opened, m \in File :
                  \/ t = <<e, m, ConflictId(m)>> /\ m \in Indexed({e})
                  \/ \E i \in File : t = <<e, m, InputId(e, i)>>
    <3>1. CASE t \in ConflictNeeds(opened)
      <4>1. PICK e \in opened : \E m \in Indexed({e}) : t = <<e, m, ConflictId(m)>>
        BY <1>3, <3>1, ConflictFacts
      <4>2. Indexed({e}) \subseteq File
        BY DEF Indexed, Conflicting
      <4>3. QED
        BY <4>1, <4>2
    <3>2. CASE t \in needed
      <4>1. PICK e \in opened : t \in SurfaceNeeds(e)
        BY <1>5, <3>2
      <4>2. \E m, i \in File : t = <<e, m, InputId(e, i)>>
        BY <1>2, <1>3, <4>1, SurfaceFacts
      <4>3. QED
        BY <4>2
    <3>3. QED
      BY <1>1, <3>1, <3>2
  <2>3. (\A t \in prerequisites : Prerequired(t))'
    <3>1. SUFFICES ASSUME NEW t \in prerequisites'
                   PROVE  Prerequired(t)'
      OBVIOUS
    <3>2. PICK e \in opened, m \in File :
             \/ t = <<e, m, ConflictId(m)>> /\ m \in Indexed({e})'
             \/ \E i \in File : t = <<e, m, InputId(e, i)>>
      BY <2>1, <2>2
    <3>3. e \in loaded'
      BY <1>1
    <3>4. QED
      BY <3>2, <3>3 DEF Prerequired
  <2>4. \A e \in opened : \A m \in Indexed({e}) :
           /\ Failure(ConflictId(m), FALSE) \in checks'
           /\ <<e, m, ConflictId(m)>> \in prerequisites'
    BY <1>1, <1>3, ConflictFacts
  <2>5. QED
    BY <1>1, <2>1, <2>3, <2>4 DEF Settled, Failure, Check, ConflictId
<1>11. Explained'
  <2>1. \A e \in log.broken : \E d \in checks' : d.id = DataId(e) /\ d.outcome # "pass"
    <3> TAKE e \in log.broken
    <3>1. Failure(DataId(e), FALSE) \in SurfaceChecks(e)
      BY <1>2, <1>3, SurfaceFacts DEF Readable
    <3>2. Failure(DataId(e), FALSE) \in checks'
      BY <1>1, <1>5, <3>1
    <3>3. Failure(DataId(e), FALSE).id = DataId(e) /\ Failure(DataId(e), FALSE).outcome # "pass"
      BY CheckFields
    <3>4. QED
      BY <3>2, <3>3
  <2>2. QED
    BY <1>1, <1>2, <1>4, <1>7, <2>1 DEF Explained, Recorded, DataId, Judging
<1>12. NoneOverlooked'
  <2>1. \A f : Failure(FindingId(f), FALSE) \notin checks'
    <3> TAKE f
    <3>1. Failure(FindingId(f), FALSE).id = FindingId(f)
      BY CheckFields
    <3>2. FindingId(f)[1] = "finding"
      BY Kinds
    <3>3. QED
      BY <1>7, <3>1, <3>2
  <2>2. QED
    BY <2>1 DEF NoneOverlooked, Failure, Check, FindingId
<1>13. QED
  BY <1>8, <1>9, <1>10, <1>11, <1>12 DEF EvaluationInv

LEMMA DiscoverKeeps ==
    ASSUME EvaluationInv, Discover
    PROVE  EvaluationInv'
<1> DEFINE new == UNION {CommandChecks(p) : p \in pending}
           now == materialized \cup pending
<1>1. /\ phase = "discover" /\ checks' = checks \cup new
      /\ materialized' = now /\ pending' = {}
      /\ phase' = IF Full THEN "support" ELSE "close"
      /\ UNCHANGED <<request, loaded, prerequisites, twice, job, walking>>
  BY DEF Discover
<1>2. UNCHANGED <<log, scope, loaded, prerequisites>>
  BY <1>1 DEF request
<1>3. TypeOK /\ Staged /\ Whole /\ Settled /\ Explained /\ NoneOverlooked
  BY DEF EvaluationInv
<1>4. \A c \in new : \E p \in pending :
         /\ c.id = CommandId(p) /\ c.outcome = "blocked"
         /\ \E id \in c.deps : Recorded(id)
  <2> TAKE c \in new
  <2>1. PICK p \in pending : c \in CommandChecks(p)
    OBVIOUS
  <2> DEFINE causes == IF Readable(At(p)) THEN Ids(Needs(p)) ELSE {DataId(At(p))}
  <2>2. c = Blocked(CommandId(p), causes) /\ causes # {}
    BY <2>1 DEF CommandChecks
  <2>3. PICK id \in causes : TRUE
    BY <2>2
  <2>4. Recorded(id)
    <3>1. CASE Readable(At(p))
      <4>1. PICK d \in Needs(p) : id = d.id
        BY <2>3, <3>1 DEF Ids
      <4>2. QED
        BY <1>3, <4>1, NeedsKinds, NeedsRecorded
    <3>2. CASE ~ Readable(At(p))
      <4>1. At(p) \in Entry
        BY <1>3, LogTypes DEF TypeOK
      <4>2. id = DataId(At(p))
        BY <2>3, <3>2
      <4>3. At(p) \in log.broken
        BY <3>2 DEF Readable
      <4>4. QED
        BY <1>1, <1>3, <4>2, <4>3 DEF Explained, Preparing
    <3>3. QED
      BY <3>1, <3>2
  <2> HIDE DEF causes
  <2>5. QED
    BY <2>2, <2>4, CheckFields
<1>5. \A p \in pending : Readable(At(p)) /\ Needs(p) # {} =>
         \E d \in new : d.id = CommandId(p) /\ d.outcome # "pass"
  <2> SUFFICES ASSUME NEW p \in pending, Readable(At(p)), Needs(p) # {}
               PROVE  \E d \in new : d.id = CommandId(p) /\ d.outcome # "pass"
    OBVIOUS
  <2>1. Ids(Needs(p)) # {}
    BY DEF Ids
  <2>2. Blocked(CommandId(p), Ids(Needs(p))) \in CommandChecks(p)
    BY <2>1 DEF CommandChecks
  <2>3. Blocked(CommandId(p), Ids(Needs(p))) \in new
    BY <2>2
  <2>4. QED
    BY <2>3, CheckFields
<1>6. \A c \in new : c.id[1] = "command" /\ c.outcome = "blocked" /\ \E id \in c.deps : Recorded(id)
  BY <1>4, Kinds
<1> HIDE DEF new, now
<1>7. \A p : Needs(p)' = Needs(p)
  BY <1>1, <1>2, <1>3, <1>6, SameNeeds
<1>8. log' \in Logs /\ TypeOK' /\ Staged' /\ Walked'
  <2>1. loaded' \in SUBSET Entry /\ pending' \in SUBSET Commands /\ now \in SUBSET Commands
        /\ \A p \in now : At(p) \in loaded'
    BY <1>1, <1>3 DEF TypeOK, Staged, now
  <2>2. \A c \in checks' : c.outcome \in {"pass", "finding", "failed", "blocked"}
    BY <1>1, <1>3, <1>6 DEF TypeOK
  <2>3. QED
    BY <1>1, <2>1, <2>2, SurfaceTypes
<1>9. Whole'
  <2>1. Full => now = Commands
    BY <1>1, <1>3 DEF Whole, TypeOK, now
  <2>2. Full' = Full /\ Commands' = Commands
        /\ \A e : SurfaceChecks(e)' = SurfaceChecks(e) /\ SurfaceNeeds(e)' = SurfaceNeeds(e)
    BY <1>2, SameLog, SameSurfaces DEF Full
  <2>3. QED
    BY <1>1, <1>2, <1>3, <2>1, <2>2 DEF Whole, Preparing, Judging
<1>10. Settled'
  <2>1. \A t : Prerequired(t)' = Prerequired(t)
    BY <1>2, SameSurfaces DEF Prerequired, ConflictId, InputId, File
  <2>2. \A e \in loaded : Indexed({e})' = Indexed({e})
    BY <1>2, SameSurfaces
  <2>3. QED
    BY <1>1, <1>2, <1>3, <2>1, <2>2 DEF Settled
<1>11. Explained'
  <2>1. \A c \in checks' : c.outcome = "pass" => c.id[1] \in Judged
    BY <1>1, <1>3, <1>6 DEF Explained
  <2>2. \A id : Recorded(id) => Behind(id, checks')
    BY <1>1 DEF Recorded, Behind
  <2>3. \A c \in checks' : c.outcome = "blocked" => \E id \in c.deps : Behind(id, checks')
    BY <1>1, <1>3, <1>6, <2>2 DEF Explained
  <2>4. \A e \in log.broken : Behind(DataId(e), checks')
    BY <1>1, <1>3, <2>2 DEF Explained, Preparing
  <2>5. \A p \in now : Readable(At(p)) /\ Needs(p) # {} => Behind(CommandId(p), checks')
    BY <1>1, <1>3, <1>5, <2>2 DEF Explained, Behind, now
  <2>6. \A p : At(p)' = At(p) /\ Readable(At(p))' = Readable(At(p))
    BY <1>2, SameLog
  <2>7. (\A p \in materialized : Readable(At(p)) /\ Needs(p) # {} => Recorded(CommandId(p)))'
    BY <1>1, <1>7, <2>5, <2>6 DEF Behind, Recorded, CommandId
  <2>8. (\A e \in log.broken : Recorded(DataId(e)))'
    BY <1>2, <2>4 DEF Behind, Recorded, DataId
  <2>9. QED
    BY <1>1, <2>1, <2>3, <2>7, <2>8 DEF Explained, Judging, Behind, Recorded
<1>12. NoneOverlooked'
  <2>1. \A f : Failure(FindingId(f), FALSE) \notin new
    <3> TAKE f
    <3>1. Failure(FindingId(f), FALSE).id = FindingId(f)
      BY CheckFields
    <3>2. FindingId(f)[1] = "finding"
      BY Kinds
    <3>3. QED
      BY <1>6, <3>1, <3>2
  <2>2. Full => \A p, q \in Commands : \A m \in Outs(p) :
           p < q /\ Readable(At(p)) => Failure(FindingId(Finding("missing", m, {q})), FALSE) \notin checks'
    BY <1>1, <1>3, <2>1 DEF NoneOverlooked
  <2>3. QED
    BY <1>2, <2>2, SameLog DEF NoneOverlooked, Full, Failure, FindingId, Finding, Check
<1>13. QED
  BY <1>8, <1>9, <1>10, <1>11, <1>12 DEF EvaluationInv

\* What is loaded later adds nothing to what observed commands need.
LEMMA ReachNeeds ==
    ASSUME EvaluationInv, Reach, NEW p \in materialized, Needs(p)' # {}
    PROVE  Needs(p) # {}
<1> DEFINE batch == {At(q) : q \in Reached}
           now == loaded \cup batch
<1>1. /\ checks' = checks \cup ConflictChecks(Indexed(now))
      /\ prerequisites' = prerequisites \cup ConflictNeeds(now)
      /\ log' = log
  BY DEF Reach, request
<1>2. Settled /\ At(p) \in loaded /\ now \in SUBSET Entry
  <2>1. batch \subseteq Entry
    BY Observed, LogTypes DEF Reached
  <2>2. QED
    BY <2>1 DEF EvaluationInv, Staged, TypeOK
<1> HIDE DEF now
<1>3. PICK c \in checks', m \in Ins(p) : <<At(p), m, c.id>> \in prerequisites'
  BY <1>1, SameLog DEF Needs
<1>4. ASSUME m \in Indexed({At(p)}) PROVE Needs(p) # {}
  <2>1. Failure(ConflictId(m), FALSE) \in checks /\ <<At(p), m, ConflictId(m)>> \in prerequisites
    BY <1>2, <1>4 DEF Settled
  <2>2. Failure(ConflictId(m), FALSE).id = ConflictId(m)
    BY CheckFields
  <2>3. QED
    BY <1>3, <2>1, <2>2 DEF Needs
<1>5. CASE <<At(p), m, c.id>> \in prerequisites /\ c \in checks
  BY <1>3, <1>5 DEF Needs
<1>6. CASE <<At(p), m, c.id>> \in prerequisites /\ c \notin checks
  <2>1. PICK k \in Indexed(now) : c = Failure(ConflictId(k), FALSE)
    BY <1>1, <1>2, <1>3, <1>6, ConflictFacts
  <2>2. c.id = ConflictId(k)
    BY <2>1, CheckFields
  <2>3. PICK e \in loaded, n \in File :
           \/ <<At(p), m, c.id>> = <<e, n, ConflictId(n)>> /\ n \in Indexed({e})
           \/ \E i \in File : <<At(p), m, c.id>> = <<e, n, InputId(e, i)>>
    BY <1>2, <1>6 DEF Settled, Prerequired
  <2>4. c.id[1] = "conflict" /\ \A i : InputId(e, i)[1] = "input"
    BY <2>2, Kinds
  <2>5. m \in Indexed({At(p)})
    BY <2>3, <2>4
  <2>6. QED
    BY <1>4, <2>5
<1>7. CASE <<At(p), m, c.id>> \in ConflictNeeds(now)
  <2>1. PICK e \in now : \E n \in Indexed({e}) : <<At(p), m, c.id>> = <<e, n, ConflictId(n)>>
    BY <1>2, <1>7, ConflictFacts
  <2>2. m \in Indexed({At(p)})
    BY <2>1
  <2>3. QED
    BY <1>4, <2>2
<1>8. QED
  BY <1>1, <1>3, <1>5, <1>6, <1>7

LEMMA ReachKeeps ==
    ASSUME EvaluationInv, Reach
    PROVE  EvaluationInv'
<1> DEFINE batch == {At(q) : q \in Reached}
           now == loaded \cup batch
<1>1. /\ phase = "close" /\ loaded' = now
      /\ checks' = checks \cup ConflictChecks(Indexed(now))
      /\ prerequisites' = prerequisites \cup ConflictNeeds(now)
      /\ pending' = Reached /\ phase' = "discover"
      /\ UNCHANGED <<request, materialized, job, walking>>
  BY DEF Reach
<1>2. UNCHANGED <<log, scope>>
  BY <1>1 DEF request
<1>3. TypeOK /\ Staged /\ Whole /\ Settled /\ Explained /\ NoneOverlooked
  BY DEF EvaluationInv
<1>4. /\ now \in SUBSET Entry /\ loaded \subseteq now
      /\ Reached \in SUBSET Commands /\ \A q \in Reached : At(q) \in now
  <2>1. Reached \in SUBSET Commands
    BY DEF Reached
  <2>2. batch \subseteq Entry
    BY <2>1, Observed, LogTypes
  <2>3. QED
    BY <1>3, <2>1, <2>2 DEF TypeOK
<1>5. ~ Full
  BY <1>1, <1>3 DEF Whole
<1> HIDE DEF now
<1>6. \A c \in ConflictChecks(Indexed(now)) : c.id[1] = "conflict" /\ c.outcome \in {"failed", "finding"}
  BY <1>4, ConflictFacts
<1>7. log' \in Logs /\ TypeOK' /\ Staged' /\ Walked'
  <2>1. \A p \in materialized' \cup pending' : At(p) \in loaded'
    BY <1>1, <1>3, <1>4 DEF Staged
  <2>2. \A c \in checks' : c.outcome \in {"pass", "finding", "failed", "blocked"}
    BY <1>1, <1>3, <1>6 DEF TypeOK
  <2>3. materialized' \in SUBSET Commands
    BY <1>1, <1>3 DEF TypeOK
  <2>4. QED
    BY <1>1, <1>4, <2>1, <2>2, <2>3, SurfaceTypes
<1>8. Whole' /\ NoneOverlooked'
  BY <1>2, <1>5 DEF Whole, NoneOverlooked, Full
<1>9. Settled'
  <2>1. \A e : Indexed({e})' = Indexed({e})
    BY <1>2, SameSurfaces
  <2>2. (\A t \in prerequisites : Prerequired(t))'
    <3>1. SUFFICES ASSUME NEW t \in prerequisites'
                   PROVE  Prerequired(t)'
      OBVIOUS
    <3>2. CASE t \in prerequisites
      <4>1. PICK e \in loaded, m \in File :
               \/ t = <<e, m, ConflictId(m)>> /\ m \in Indexed({e})
               \/ \E i \in File : t = <<e, m, InputId(e, i)>>
        BY <1>3, <3>2 DEF Settled, Prerequired
      <4>2. e \in loaded' /\ (m \in Indexed({e}) => m \in Indexed({e})')
        BY <1>1, <1>4, <2>1
      <4>3. QED
        BY <4>1, <4>2 DEF Prerequired
    <3>3. CASE t \in ConflictNeeds(now)
      <4>1. PICK e \in now : \E m \in Indexed({e}) : t = <<e, m, ConflictId(m)>>
        BY <1>4, <3>3, ConflictFacts
      <4>2. Indexed({e}) \subseteq File
        BY DEF Indexed, Conflicting
      <4>3. PICK m \in File : m \in Indexed({e})' /\ t = <<e, m, ConflictId(m)>>
        BY <2>1, <4>1, <4>2
      <4>4. e \in loaded'
        BY <1>1, <4>1
      <4>5. QED
        BY <4>3, <4>4 DEF Prerequired
    <3>4. QED
      BY <1>1, <3>1, <3>2, <3>3
  <2>3. \A e \in now : \A m \in Indexed({e}) :
           /\ Failure(ConflictId(m), FALSE) \in checks'
           /\ <<e, m, ConflictId(m)>> \in prerequisites'
    BY <1>1, <1>4, ConflictFacts
  <2>4. QED
    BY <1>1, <2>1, <2>2, <2>3 DEF Settled, Failure, Check, ConflictId
<1>10. Explained'
  <2>1. \A id : Recorded(id) => Behind(id, checks')
    BY <1>1 DEF Recorded, Behind
  <2>2. \A c \in checks' : c.outcome = "pass" => c.id[1] \in Judged
    BY <1>1, <1>3, <1>6 DEF Explained
  <2>3. \A c \in checks' : c.outcome = "blocked" => \E id \in c.deps : Behind(id, checks')
    BY <1>1, <1>3, <1>6, <2>1 DEF Explained
  <2>4. \A e \in log.broken : Behind(DataId(e), checks')
    BY <1>1, <1>3, <2>1 DEF Explained, Preparing
  <2>5. \A p \in materialized : Readable(At(p)) /\ Needs(p)' # {} => Behind(CommandId(p), checks')
    BY <1>3, <2>1, ReachNeeds DEF Explained
  <2>6. \A p : At(p)' = At(p) /\ Readable(At(p))' = Readable(At(p))
    BY <1>2, SameLog
  <2>7. (\A p \in materialized : Readable(At(p)) /\ Needs(p) # {} => Recorded(CommandId(p)))'
    BY <1>1, <2>5, <2>6 DEF Behind, Recorded, CommandId
  <2>8. (\A e \in log.broken : Recorded(DataId(e)))'
    BY <1>2, <2>4 DEF Behind, Recorded, DataId
  <2>9. QED
    BY <1>1, <2>2, <2>3, <2>7, <2>8 DEF Explained, Judging, Behind, Recorded
<1>11. QED
  BY <1>7, <1>8, <1>9, <1>10 DEF EvaluationInv

LEMMA FinishKeeps ==
    ASSUME EvaluationInv, Finish
    PROVE  EvaluationInv'
<1>1. /\ phase = "graph" /\ scope' \in {"full", "entry"} /\ scope' # "full" /\ phase' \in {"open", "over"}
      /\ loaded' = {} /\ prerequisites' = {} /\ materialized' = {} /\ checks' = {} /\ twice' = {}
      /\ stack' = <<>> /\ traces' = <<>> /\ results' = <<>>
      /\ UNCHANGED <<log, target, pending, job>>
  BY DEF Finish, Full, EvaluationInv, TypeOK
<1>2. TypeOK /\ Staged
  BY DEF EvaluationInv
<1>3. pending' = {} /\ job = NoJob
  BY <1>1, <1>2 DEF Staged
<1>4. Walked'
  BY <1>1, NothingWalked
<1>5. TypeOK'
  <2>1. Frames' = Frames /\ Conclusions' = Conclusions /\ Findings' = Findings
    BY <1>1 DEF Frames, Conclusions, Findings, Commands
  <2>2. Commands' = Commands /\ Records' = Records
    BY <1>1, SameLog
  <2>3. stack' \in Seq(Frames) /\ Len(stack') <= MaxDepth + 2
    BY <1>1, EmptySeq, DepthAssumption
  <2>4. DOMAIN traces' = {} /\ DOMAIN results' = {}
    BY <1>1
  <2>5. QED
    BY <1>1, <1>2, <2>1, <2>2, <2>3, <2>4 DEF TypeOK
<1>6. Staged'
  BY <1>1, <1>3 DEF Staged, NoJob
<1>7. Whole' /\ NoneOverlooked'
  BY <1>1 DEF Whole, NoneOverlooked, Full
<1>8. Settled' /\ Explained'
  BY <1>1 DEF Settled, Explained, Preparing, Judging
<1>9. QED
  BY <1>1, <1>4, <1>5, <1>6, <1>7, <1>8 DEF EvaluationInv

-----------------------------------------------------------------------------
(* All evaluations *)

LEMMA EvaluationInit ==
    ASSUME Init
    PROVE  EvaluationInv
<1>1. /\ log \in Logs /\ log \in Log /\ target \in Entry /\ scope = "full" /\ phase = "open"
      /\ loaded = {} /\ prerequisites = {} /\ pending = {} /\ materialized = {}
      /\ checks = {} /\ twice = {} /\ job = NoJob
      /\ stack = <<>> /\ traces = <<>> /\ results = <<>>
  BY LogAssumption DEF Init
<1>2. job = [todo |-> {}, left |-> <<>>, found |-> {}, relied |-> {}]
  BY <1>1 DEF NoJob
<1>3. DOMAIN stack = {} /\ DOMAIN traces = {} /\ DOMAIN results = {}
  BY <1>1
<1>4. TypeOK
  <2>1. <<>> \in Seq(File) /\ <<>> \in Seq(Frames) /\ Len(<<>>) = 0
    BY EmptySeq
  <2>2. job \in [todo : SUBSET Records, left : Seq(File), found : SUBSET Findings, relied : SUBSET Commands]
    BY <1>2, <2>1
  <2>3. QED
    BY <1>1, <1>3, <2>1, <2>2, DepthAssumption DEF TypeOK
<1>5. Staged
  BY <1>1, <1>2 DEF Staged
<1>6. Whole
  BY <1>1 DEF Whole, Preparing, Judging
<1>7. Settled /\ Explained
  BY <1>1 DEF Settled, Explained, Preparing, Judging
<1>8. Walked
  BY <1>1, <1>2, <1>3 DEF Walked, Sound
<1>9. NoneOverlooked
  BY <1>1 DEF NoneOverlooked
<1>10. QED
  BY <1>1, <1>4, <1>5, <1>6, <1>7, <1>8, <1>9 DEF EvaluationInv

LEMMA StutterKeeps ==
    ASSUME EvaluationInv, UNCHANGED vars
    PROVE  EvaluationInv'
<1>1. UNCHANGED <<log, target, scope, loaded, prerequisites, pending, materialized, phase, checks,
                  twice, job, stack, traces, results>>
  BY DEF vars, request, surfaces, walking
<1>2. Whole' /\ Settled' /\ Explained' /\ NoneOverlooked'
  BY <1>1, SameRecorded
<1>3. Index(Context)' = Index(Context) /\ \A f : Lacking(f)' = Lacking(f)
  BY <1>1, SameContext
<1>4. TypeOK'
  <2>1. Frames' = Frames /\ Conclusions' = Conclusions /\ Findings' = Findings
        /\ Commands' = Commands /\ Records' = Records
    BY <1>1, SameLog DEF Frames, Conclusions, Findings
  <2>2. QED
    BY <1>1, <2>1 DEF EvaluationInv, TypeOK
<1>5. Staged'
  BY <1>1, SameLog DEF EvaluationInv, Staged
<1>6. Walked'
  BY <1>1, <1>3 DEF EvaluationInv, Walked, Sound
<1>7. QED
  BY <1>1, <1>2, <1>4, <1>5, <1>6 DEF EvaluationInv

LEMMA EvaluationNext ==
    ASSUME EvaluationInv, [Next]_vars
    PROVE  EvaluationInv'
<1>1. CASE Open
  BY <1>1, OpenKeeps
<1>2. CASE Discover
  BY <1>2, DiscoverKeeps
<1>3. CASE Reach
  BY <1>3, ReachKeeps
<1>4. CASE LoadSupport
  BY <1>4, LoadSupportKeeps
<1>5. CASE RecordBlocked
  BY <1>5, RecordBlockedKeeps
<1>6. CASE TakeOrigin
  BY <1>6, TakeOriginKeeps
<1>7. CASE TakeResult
  BY <1>7, TakeResultKeeps
<1>8. CASE BeginWalk
  BY <1>8, BeginWalkKeeps
<1>9. CASE EndWalk
  BY <1>9, EndWalkKeeps
<1>10. CASE ConcludeRecord
  BY <1>10, ConcludeRecordKeeps
<1>11. CASE MeetOrigin
  BY <1>11, MeetOriginKeeps
<1>12. CASE StopShort
  BY <1>12, StopShortKeeps
<1>13. CASE Replay
  BY <1>13, ReplayKeeps
<1>14. CASE Descend
  BY <1>14, DescendKeeps
<1>15. CASE Ascend
  BY <1>15, AscendKeeps
<1>16. CASE ConcludeSummary
  BY <1>16, ConcludeSummaryKeeps
<1>17. CASE Finish
  BY <1>17, FinishKeeps
<1>18. CASE UNCHANGED vars
  BY <1>18, StutterKeeps
<1>19. QED
  BY <1>1, <1>2, <1>3, <1>4, <1>5, <1>6, <1>7, <1>8, <1>9, <1>10, <1>11, <1>12, <1>13, <1>14,
     <1>15, <1>16, <1>17, <1>18 DEF Next

LEMMA EvaluationAlways == Spec => []EvaluationInv
<1>1. Init => EvaluationInv
  BY EvaluationInit
<1>2. EvaluationInv /\ [Next]_vars => EvaluationInv'
  BY EvaluationNext
<1>3. QED
  BY <1>1, <1>2, PTL DEF Spec

\* What the evaluation of a log keeps always has its type, and its walk is
\* never deeper than the bound (validation/engine.py, MAX_LINEAGE_DEPTH).
THEOREM TypeAlways == Spec => []TypeOK
<1>1. EvaluationInv => TypeOK
  BY DEF EvaluationInv
<1>2. QED
  BY <1>1, EvaluationAlways, PTL

\* An absent input is a failure of the surface, so that no command of the
\* whole log that is admitted lacks one.
LEMMA GraphHolds ==
    ASSUME EvaluationInv, phase = "graph", Full
    PROVE  ~ GraphFails
<1> SUFFICES ASSUME NEW p \in Invocations, Away(p) = {}, FirstAbsent(log.commands[p].ins) # {}
             PROVE  FALSE
  BY DEF GraphFails
<1>1. /\ log \in Log /\ WellFormed(log) /\ p \in Commands
      /\ At(p) \in Entry /\ log.commands[p].ins \in Seq(File)
  BY Observed, LogTypes
<1>2. Needs(p) = {} /\ Readable(At(p))
  BY DEF Invocations, Valid
<1>3. PICK m \in Ins(p) : ~ Here(m)
  BY DEF FirstAbsent, Ins, ToSet
<1>4. m \in ToSet(log.declared[At(p)]) /\ m \in File
  BY <1>1, <1>3, LogTypes DEF WellFormed, Ins, At, Commands
<1>5. FirstAbsent(log.declared[At(p)]) # {}
  BY <1>1, <1>3, <1>4, LogTypes, Absent
<1>6. PICK c \in SurfaceChecks(At(p)) : TRUE
  BY <1>2, <1>5 DEF SurfaceChecks
<1>7. /\ SurfaceChecks(At(p)) \subseteq checks
      /\ SurfaceNeeds(At(p)) \subseteq prerequisites
  BY <1>1 DEF EvaluationInv, Whole, Judging
<1>8. <<At(p), m, c.id>> \in SurfaceNeeds(At(p))
  BY <1>2, <1>3, <1>4, <1>6 DEF SurfaceNeeds, Declares, Ids
<1>9. c \in Needs(p)
  BY <1>3, <1>6, <1>7, <1>8 DEF Needs
<1>10. QED
  BY <1>2, <1>9

\* Whatever fails, each check that is blocked names one that is recorded and
\* does not pass, the attempt for the whole log is built, and no producer is
\* said to be missing that the log has (ValidationAttempt.build,
\* _root_blockers, _command_blockers).
THEOREM FailuresAlwaysExplained == Spec => []FailuresExplained
<1>1. ASSUME EvaluationInv PROVE FailuresExplained
  <2>1. Unexplained = {}
    BY <1>1 DEF EvaluationInv, Explained, Recorded, Unexplained
  <2>2. phase = "graph" /\ Full => Verdict = "built"
    BY <1>1, <2>1, GraphHolds DEF EvaluationInv, Whole, Verdict, Refused
  <2>3. NoProducerOverlooked
    BY <1>1 DEF EvaluationInv, NoneOverlooked, NoProducerOverlooked
  <2>4. QED
    BY <2>1, <2>2, <2>3 DEF FailuresExplained, AttemptsBuild
<1>2. QED
  BY <1>1, EvaluationAlways, PTL

-----------------------------------------------------------------------------
(* The levels above the evidence *)

\* Induction, over the numbers at which something fails.
LEMMA NoneFails ==
    ASSUME NEW Fails \in SUBSET Nat, 0 \notin Fails, \A k \in Fails : k # 0 => k - 1 \in Fails
    PROVE  Fails = {}
<1> SUFFICES ASSUME Fails # {} PROVE FALSE
  OBVIOUS
<1>1. PICK k \in Fails : \A j \in Fails : ~ (<<j, k>> \in OpToRel(<, Nat))
  BY NatLessThanWellFounded, WFMin
<1>2. \A j \in Fails : ~ (j < k)
  BY <1>1 DEF OpToRel
<1>3. k \in Nat /\ k # 0 /\ k - 1 \in Fails
  OBVIOUS
<1>4. QED
  BY <1>2, <1>3

LEMMA LevelsDef ==
    ASSUME NEW further, NEW start
    PROVE  Levels(further, start) = [n \in 0..MaxDepth + 1 |->
              IF n = 0 THEN {start} ELSE UNION {further[pair] : pair \in Levels(further, start)[n - 1]}]
<1> DEFINE Good(f, k) == f = [n \in 0..k |-> IF n = 0 THEN {start} ELSE UNION {further[pair] : pair \in f[n - 1]}]
           Fails == {k \in Nat : ~ \E f : Good(f, k)}
<1>1. Fails = {}
  <2>1. \E f : Good(f, 0)
    <3> DEFINE f == [n \in 0..0 |-> {start}]
    <3>1. Good(f, 0)
      OBVIOUS
    <3>2. QED
      BY <3>1
  <2>2. ASSUME NEW k \in Nat, k # 0, k - 1 \in Nat, NEW f, Good(f, k - 1)
        PROVE  \E g : Good(g, k)
    <3> DEFINE g == [n \in 0..k |-> IF n = k THEN UNION {further[pair] : pair \in f[k - 1]} ELSE f[n]]
    <3>1. ASSUME NEW n \in 0..k
          PROVE  g[n] = IF n = 0 THEN {start} ELSE UNION {further[pair] : pair \in g[n - 1]}
      <4>1. CASE n = k
        <5>0. k - 1 \in 0..k /\ k - 1 # k
          BY <2>2
        <5>1. g[n - 1] = f[k - 1]
          BY <4>1, <5>0
        <5>2. QED
          BY <2>2, <4>1, <5>1
      <4>2. CASE n # k
        <5>1. n \in 0..k - 1 /\ g[n] = f[n]
          BY <4>2
        <5>2. n # 0 => g[n - 1] = f[n - 1]
          BY <4>2
        <5>3. f[n] = IF n = 0 THEN {start} ELSE UNION {further[pair] : pair \in f[n - 1]}
          BY <2>2, <5>1
        <5>4. QED
          BY <5>1, <5>2, <5>3
      <4>3. QED
        BY <4>1, <4>2
    <3>2. Good(g, k)
      <4> DEFINE h == [n \in 0..k |-> IF n = 0 THEN {start} ELSE UNION {further[pair] : pair \in g[n - 1]}]
      <4>1. \A n \in 0..k : g[n] = h[n]
        BY <3>1
      <4>2. g = [n \in 0..k |-> g[n]] /\ h = [n \in 0..k |-> h[n]]
        OBVIOUS
      <4> HIDE DEF g, h
      <4>3. g = h
        BY <4>1, <4>2
      <4>4. QED
        BY <4>3 DEF h
    <3>3. QED
      BY <3>2
  <2>3. \A k \in Fails : k # 0 => k - 1 \in Fails
    <3> TAKE k \in Fails
    <3> HAVE k # 0
    <3>1. k \in Nat /\ k - 1 \in Nat /\ ~ \E f : Good(f, k)
      OBVIOUS
    <3> HIDE DEF Good
    <3>2. ~ \E f : Good(f, k - 1)
      BY <2>2, <3>1
    <3>3. QED
      BY <3>1, <3>2
  <2>4. 0 \notin Fails /\ Fails \in SUBSET Nat
    BY <2>1
  <2> HIDE DEF Fails
  <2>5. QED
    BY <2>3, <2>4, NoneFails
<1>2. MaxDepth + 1 \in Nat
  BY DepthAssumption
<1>3. \E f : Good(f, MaxDepth + 1)
  BY <1>1, <1>2
<1>4. Levels(further, start) = CHOOSE f : Good(f, MaxDepth + 1)
  BY DEF Levels
<1> DEFINE L == Levels(further, start)
<1>5. Good(L, MaxDepth + 1)
  <2> HIDE DEF Good
  <2>1. QED
    BY <1>3, <1>4
<1>6. QED
  BY <1>5

LEMMA LevelsAt ==
    ASSUME NEW further, NEW start
    PROVE  /\ Levels(further, start)[0] = {start}
           /\ \A k \in 0..MaxDepth :
                 Levels(further, start)[k + 1] = UNION {further[pair] : pair \in Levels(further, start)[k]}
<1> DEFINE L == Levels(further, start)
           M == [n \in 0..MaxDepth + 1 |-> IF n = 0 THEN {start} ELSE UNION {further[pair] : pair \in L[n - 1]}]
<1>1. L = M
  BY LevelsDef
<1>2. M[0] = {start}
  BY DepthAssumption
<1>3. \A k \in 0..MaxDepth : M[k + 1] = UNION {further[pair] : pair \in L[k]}
  BY DepthAssumption
<1> HIDE DEF L, M
<1>4. QED
  BY <1>1, <1>2, <1>3 DEF L

\* A level is made of those one nearer to what the first follows.
LEMMA LevelsShift ==
    ASSUME NEW further, NEW start, NEW k \in 0..MaxDepth
    PROVE  Levels(further, start)[k + 1] = UNION {Levels(further, q)[k] : q \in further[start]}
<1> DEFINE L(q) == Levels(further, q)
           Fails == {j \in Nat : j <= MaxDepth /\ L(start)[j + 1] # UNION {L(q)[j] : q \in further[start]}}
<1>1. L(start)[1] = UNION {L(q)[0] : q \in further[start]}
  <2>1. L(start)[1] = UNION {further[pair] : pair \in L(start)[0]}
    BY LevelsAt, DepthAssumption
  <2>2. L(start)[0] = {start} /\ \A q : L(q)[0] = {q}
    BY LevelsAt
  <2> HIDE DEF L
  <2>3. L(start)[1] = further[start]
    BY <2>1, <2>2
  <2>4. UNION {L(q)[0] : q \in further[start]} = further[start]
    BY <2>2
  <2>5. QED
    BY <2>3, <2>4
<1>2. ASSUME NEW j \in Nat, j # 0, j <= MaxDepth,
             L(start)[j] = UNION {L(q)[j - 1] : q \in further[start]}
      PROVE  L(start)[j + 1] = UNION {L(q)[j] : q \in further[start]}
  <2>1. j \in 0..MaxDepth /\ j - 1 \in 0..MaxDepth /\ j - 1 + 1 = j
    BY <1>2, DepthAssumption
  <2>2. L(start)[j + 1] = UNION {further[pair] : pair \in L(start)[j]}
    BY <2>1, LevelsAt
  <2>3. \A q : L(q)[j] = UNION {further[pair] : pair \in L(q)[j - 1]}
    BY <2>1, LevelsAt
  <2> HIDE DEF L
  <2>4. QED
    BY <1>2, <2>2, <2>3
<1>3. Fails = {}
  <2>1. 0 \notin Fails
    <3> HIDE DEF L
    <3>1. QED
      BY <1>1
  <2>2. \A j \in Fails : j # 0 => j - 1 \in Fails
    <3> TAKE j \in Fails
    <3> HAVE j # 0
    <3>1. j \in Nat /\ j - 1 \in Nat /\ j <= MaxDepth /\ j - 1 <= MaxDepth /\ j - 1 + 1 = j
      BY DepthAssumption
    <3> HIDE DEF L
    <3>2. L(start)[j + 1] # UNION {L(q)[j] : q \in further[start]}
      OBVIOUS
    <3>3. L(start)[j] # UNION {L(q)[j - 1] : q \in further[start]}
      BY <1>2, <3>1, <3>2
    <3>4. QED
      BY <3>1, <3>3
  <2>3. Fails \in SUBSET Nat
    OBVIOUS
  <2> HIDE DEF Fails
  <2>4. QED
    BY <2>1, <2>2, <2>3, NoneFails
<1>4. k \in Nat /\ k <= MaxDepth
  BY DepthAssumption
<1> HIDE DEF L
<1>5. L(start)[k + 1] = UNION {L(q)[k] : q \in further[start]}
  BY <1>3, <1>4
<1>6. QED
  BY <1>5 DEF L

\* The pairs that a walk meets from a depth on, what it finds at them and on
\* whom it relies.
Within(index, n, pair) == UNION {Levels(Further(index), pair)[k] : k \in 0..MaxDepth - n}

Told(index, n, pair) ==
    {Finding("deep", q[1], {}) : q \in Levels(Further(index), pair)[MaxDepth + 1 - n]}
    \cup UNION {FoundAt(index, q) : q \in Within(index, n, pair)}

Passed(index, n, pair) == UNION {Sole(index, q) : q \in Within(index, n, pair)}

LEMMA WithinSplit ==
    ASSUME NEW index, NEW n \in 0..MaxDepth, NEW pair
    PROVE  Within(index, n, pair) = {pair} \cup UNION {Within(index, n + 1, q) : q \in Further(index)[pair]}
<1> DEFINE L(q) == Levels(Further(index), q)
           more == Further(index)[pair]
<1>1. n \in Nat /\ n <= MaxDepth /\ MaxDepth \in Nat
  BY DepthAssumption
<1>2. L(pair)[0] = {pair} /\ \A k \in 0..MaxDepth : L(pair)[k + 1] = UNION {L(q)[k] : q \in more}
  BY LevelsAt, LevelsShift
<1> HIDE DEF L, more
<1>3. ASSUME NEW x \in UNION {L(pair)[k] : k \in 0..MaxDepth - n}
      PROVE  x = pair \/ \E q \in more : x \in UNION {L(q)[k] : k \in 0..MaxDepth - (n + 1)}
  <2>1. PICK k \in 0..MaxDepth - n : x \in L(pair)[k]
    OBVIOUS
  <2>2. CASE k = 0
    BY <1>2, <2>1, <2>2
  <2>3. CASE k # 0
    <3>1. k - 1 \in 0..MaxDepth /\ k - 1 \in 0..MaxDepth - (n + 1) /\ k - 1 + 1 = k
      BY <1>1, <2>3
    <3>2. L(pair)[k] = UNION {L(q)[k - 1] : q \in more}
      BY <1>2, <3>1
    <3>3. PICK q \in more : x \in L(q)[k - 1]
      BY <2>1, <3>2
    <3>4. QED
      BY <3>1, <3>3
  <2>4. QED
    BY <2>2, <2>3
<1>4. pair \in UNION {L(pair)[k] : k \in 0..MaxDepth - n}
  <2>1. 0 \in 0..MaxDepth - n
    BY <1>1
  <2>2. QED
    BY <1>2, <2>1
<1>5. ASSUME NEW q \in more, NEW x \in UNION {L(q)[k] : k \in 0..MaxDepth - (n + 1)}
      PROVE  x \in UNION {L(pair)[k] : k \in 0..MaxDepth - n}
  <2>1. PICK k \in 0..MaxDepth - (n + 1) : x \in L(q)[k]
    OBVIOUS
  <2>2. k \in 0..MaxDepth /\ k + 1 \in 0..MaxDepth - n
    BY <1>1
  <2>3. x \in L(pair)[k + 1]
    BY <1>2, <2>1, <2>2
  <2>4. QED
    BY <2>2, <2>3
<1>6. QED
  BY <1>3, <1>4, <1>5 DEF Within, L, more

LEMMA ToldSplit ==
    ASSUME NEW index, NEW n \in 0..MaxDepth, NEW pair
    PROVE  /\ Told(index, n, pair) = FoundAt(index, pair) \cup UNION {Told(index, n + 1, q) : q \in Further(index)[pair]}
           /\ Passed(index, n, pair) = Sole(index, pair) \cup UNION {Passed(index, n + 1, q) : q \in Further(index)[pair]}
<1> DEFINE L(q) == Levels(Further(index), q)
           more == Further(index)[pair]
           W(q) == Within(index, n + 1, q)
<1>1. Within(index, n, pair) = {pair} \cup UNION {W(q) : q \in more}
  BY WithinSplit
<1>2. L(pair)[MaxDepth + 1 - n] = UNION {L(q)[MaxDepth + 1 - (n + 1)] : q \in more}
  <2>1. MaxDepth - n \in 0..MaxDepth /\ MaxDepth - n + 1 = MaxDepth + 1 - n
        /\ MaxDepth - n = MaxDepth + 1 - (n + 1)
    BY DepthAssumption
  <2>2. L(pair)[MaxDepth - n + 1] = UNION {L(q)[MaxDepth - n] : q \in more}
    BY <2>1, LevelsShift
  <2>3. QED
    BY <2>1, <2>2
<1> HIDE DEF L, W, more
<1>3. Passed(index, n, pair) = Sole(index, pair) \cup UNION {Passed(index, n + 1, q) : q \in more}
  BY <1>1 DEF Passed, W
<1>4. UNION {FoundAt(index, x) : x \in Within(index, n, pair)}
         = FoundAt(index, pair) \cup UNION {UNION {FoundAt(index, x) : x \in W(q)} : q \in more}
  BY <1>1
<1>5. {Finding("deep", x[1], {}) : x \in L(pair)[MaxDepth + 1 - n]}
         = UNION {{Finding("deep", x[1], {}) : x \in L(q)[MaxDepth + 1 - (n + 1)]} : q \in more}
  BY <1>2
<1>6. Told(index, n, pair) = FoundAt(index, pair) \cup UNION {Told(index, n + 1, q) : q \in more}
  <2>1. Told(index, n, pair) = {Finding("deep", x[1], {}) : x \in L(pair)[MaxDepth + 1 - n]}
                               \cup UNION {FoundAt(index, x) : x \in Within(index, n, pair)}
    BY DEF Told, L
  <2>2. \A q : Told(index, n + 1, q) = {Finding("deep", x[1], {}) : x \in L(q)[MaxDepth + 1 - (n + 1)]}
                                       \cup UNION {FoundAt(index, x) : x \in W(q)}
    BY DEF Told, L, W
  <2> DEFINE D(q) == {Finding("deep", x[1], {}) : x \in L(q)[MaxDepth + 1 - (n + 1)]}
             F(q) == UNION {FoundAt(index, x) : x \in W(q)}
             A == {Finding("deep", x[1], {}) : x \in L(pair)[MaxDepth + 1 - n]}
             B == UNION {FoundAt(index, x) : x \in Within(index, n, pair)}
  <2>3. /\ \A q : Told(index, n + 1, q) = D(q) \cup F(q)
        /\ Told(index, n, pair) = A \cup B
        /\ A = UNION {D(q) : q \in more}
        /\ B = FoundAt(index, pair) \cup UNION {F(q) : q \in more}
    BY <1>4, <1>5, <2>1, <2>2
  <2> HIDE DEF D, F, A, B
  <2>4. ASSUME NEW x
        PROVE  x \in Told(index, n, pair)
                  <=> x \in FoundAt(index, pair) \cup UNION {Told(index, n + 1, q) : q \in more}
    <3>1. x \in A <=> \E q \in more : x \in D(q)
      BY <2>3
    <3>2. x \in B <=> x \in FoundAt(index, pair) \/ \E q \in more : x \in F(q)
      BY <2>3
    <3>3. x \in UNION {Told(index, n + 1, q) : q \in more} <=> \E q \in more : x \in Told(index, n + 1, q)
      OBVIOUS
    <3>4. QED
      BY <2>3, <3>1, <3>2, <3>3
  <2>5. QED
    BY <2>4
<1>7. QED
  BY <1>3, <1>6 DEF more

LEMMA ToldAtEnd ==
    ASSUME NEW index, NEW pair
    PROVE  /\ Told(index, MaxDepth + 1, pair) = {Finding("deep", pair[1], {})}
           /\ Passed(index, MaxDepth + 1, pair) = {}
<1>1. MaxDepth + 1 - (MaxDepth + 1) = 0 /\ 0..MaxDepth - (MaxDepth + 1) = {}
  BY DepthAssumption
<1>2. Within(index, MaxDepth + 1, pair) = {}
  BY <1>1 DEF Within
<1>3. Levels(Further(index), pair)[0] = {pair}
  BY LevelsAt
<1>4. QED
  BY <1>1, <1>2, <1>3 DEF Told, Passed

-----------------------------------------------------------------------------
(* What has been followed *)

\* What a consumer at a depth makes of one of its inputs.
AtOrigin(c, m) == c # None /\ Origin(At(c), m)

Finds(index, n, c, m) == IF AtOrigin(c, m) THEN Boundary(index, m) ELSE Told(index, n, <<m, c>>)
Relies(index, n, c, m) == IF AtOrigin(c, m) THEN {} ELSE Passed(index, n, <<m, c>>)

FindsAll(index, n, c, done) == UNION {Finds(index, n, c, m) : m \in done}
ReliesAll(index, n, c, done) == UNION {Relies(index, n, c, m) : m \in done}

Named(c) == IF c = None THEN {Source} ELSE Ins(c)

\* A frame has concluded of what is no longer left ...
Following(index, n, frame) ==
    \E done \in SUBSET File :
        /\ done \cup ToSet(frame.left) = Named(frame.command)
        /\ frame.found = FindsAll(index, n, frame.command, done)
        /\ frame.relied = ReliesAll(index, n, frame.command, done)

\* ... or is through with an input but for the inputs of its producer.
Awaiting(index, n, frame, p) ==
    /\ n <= MaxDepth
    /\ \E done \in SUBSET File, m \in File :
        /\ done \cup {m} \cup ToSet(frame.left) = Named(frame.command)
        /\ ~ AtOrigin(frame.command, m)
        /\ Sole(index, <<m, frame.command>>) = {p}
        /\ frame.found = FindsAll(index, n, frame.command, done) \cup Ready(index, m, p)
        /\ frame.relied = ReliesAll(index, n, frame.command, done) \cup {p}

StackExact(s) ==
    /\ s # <<>> => s[1].command = None /\ Following(Index(Context), Len(s) - 1, s[Len(s)])
    /\ \A i \in 1..(Len(s) - 1) : Awaiting(Index(Context), i - 1, s[i], s[i + 1].command)

TraceExact(key, trace) ==
    /\ trace.found = FindsAll(Index(key[1]), key[3] + 1, key[2], Ins(key[2]))
    /\ trace.relied = ReliesAll(Index(key[1]), key[3] + 1, key[2], Ins(key[2]))

ResultExact(key, result) ==
    /\ result.found = Told(Index(key[2]), 0, <<key[1], None>>)
    /\ result.relied = Passed(Index(key[2]), 0, <<key[1], None>>)

Exactly ==
    /\ StackExact(stack)
    /\ \A key \in DOMAIN traces : TraceExact(key, traces[key])
    /\ \A key \in DOMAIN results : ResultExact(key, results[key])
-----------------------------------------------------------------------------
(* What a walk concludes *)

LEMMA SoleProducer ==
    ASSUME log \in Log, NEW index \in SUBSET Commands, NEW m \in File, NEW c \in Commands \cup {None}
    PROVE  /\ \A p : Producers(index, m, c) = {p} => p \in Commands /\ Sole(index, <<m, c>>) = {p}
           /\ Cardinality(Producers(index, m, c)) # 1 => Sole(index, <<m, c>>) = {}
           /\ \A p : Sole(index, <<m, c>>) = {p} => p \in Commands
<1>1. Producers(index, m, c) \subseteq Commands
  BY DEF Producers, Writers, Owners
<1>2. \A p : Cardinality({p}) = 1
  BY FS_Singleton
<1>3. Sole(index, <<m, c>>) =
         IF Cardinality(Producers(index, m, c)) = 1 THEN Producers(index, m, c) ELSE {}
  BY DEF Sole
<1>4. QED
  BY <1>1, <1>2, <1>3

LEMMA FurtherAt ==
    ASSUME NEW index, NEW m \in File, NEW c \in Commands \cup {None}
    PROVE  /\ Sole(index, <<m, c>>) = {} => Further(index)[<<m, c>>] = {}
           /\ \A p : Sole(index, <<m, c>>) = {p} =>
                 Further(index)[<<m, c>>] = {<<i, p>> : i \in {i \in Ins(p) : ~ Origin(At(p), i)}}
<1>1. <<m, c>> \in Pairs
  BY DEF Pairs
<1>2. Further(index)[<<m, c>>] =
         UNION {{<<i, p>> : i \in {i \in Ins(p) : ~ Origin(At(p), i)}} : p \in Sole(index, <<m, c>>)}
  BY <1>1 DEF Further
<1>3. QED
  BY <1>2

\* Where there is no producer, or none alone, the walk ends.
LEMMA ToldNone ==
    ASSUME NEW index, NEW m \in File, NEW c \in Commands \cup {None}, NEW n \in 0..MaxDepth,
           Sole(index, <<m, c>>) = {}
    PROVE  /\ Told(index, n, <<m, c>>) = {NoProducer(index, m, c)}
           /\ Passed(index, n, <<m, c>>) = {}
<1>1. Further(index)[<<m, c>>] = {}
  BY FurtherAt
<1>2. FoundAt(index, <<m, c>>) = {NoProducer(index, m, c)}
  BY DEF FoundAt
<1>3. /\ Told(index, n, <<m, c>>) = FoundAt(index, <<m, c>>) \cup UNION {Told(index, n + 1, q) : q \in {}}
      /\ Passed(index, n, <<m, c>>) = Sole(index, <<m, c>>) \cup UNION {Passed(index, n + 1, q) : q \in {}}
  BY <1>1, ToldSplit
<1>4. QED
  BY <1>2, <1>3

\* Its only producer is ready or not, and its inputs are followed.
LEMMA ToldProducer ==
    ASSUME NEW index, NEW m \in File, NEW c \in Commands \cup {None}, NEW n \in 0..MaxDepth,
           NEW p, Sole(index, <<m, c>>) = {p}, p # None
    PROVE  /\ Told(index, n, <<m, c>>) = Ready(index, m, p) \cup FindsAll(index, n + 1, p, Ins(p))
           /\ Passed(index, n, <<m, c>>) = {p} \cup ReliesAll(index, n + 1, p, Ins(p))
<1> DEFINE origins == {i \in Ins(p) : Origin(At(p), i)}
           others == {i \in Ins(p) : ~ Origin(At(p), i)}
<1>1. Further(index)[<<m, c>>] = {<<i, p>> : i \in others}
  BY FurtherAt
<1>2. FoundAt(index, <<m, c>>) = Ready(index, m, p) \cup UNION {Boundary(index, i) : i \in origins}
  <2>1. FoundAt(index, <<m, c>>) =
           UNION {Ready(index, m, q) \cup UNION {Boundary(index, i) : i \in {i \in Ins(q) : Origin(At(q), i)}} :
                     q \in {p}}
    BY DEF FoundAt
  <2>2. QED
    BY <2>1
<1>3. /\ \A i \in origins : Finds(index, n + 1, p, i) = Boundary(index, i) /\ Relies(index, n + 1, p, i) = {}
      /\ \A i \in others : /\ Finds(index, n + 1, p, i) = Told(index, n + 1, <<i, p>>)
                           /\ Relies(index, n + 1, p, i) = Passed(index, n + 1, <<i, p>>)
  BY DEF Finds, Relies, AtOrigin
<1>4. Ins(p) = origins \cup others
  OBVIOUS
<1>5. /\ Told(index, n, <<m, c>>) =
            FoundAt(index, <<m, c>>) \cup UNION {Told(index, n + 1, q) : q \in {<<i, p>> : i \in others}}
      /\ Passed(index, n, <<m, c>>) =
            {p} \cup UNION {Passed(index, n + 1, q) : q \in {<<i, p>> : i \in others}}
  BY <1>1, ToldSplit
<1> HIDE DEF origins, others
<1>6. ASSUME NEW x
      PROVE  x \in Told(index, n, <<m, c>>) <=> x \in Ready(index, m, p) \cup FindsAll(index, n + 1, p, Ins(p))
  <2>1. x \in Told(index, n, <<m, c>>)
           <=> \/ x \in Ready(index, m, p)
               \/ \E i \in origins : x \in Boundary(index, i)
               \/ \E i \in others : x \in Told(index, n + 1, <<i, p>>)
    <3> DEFINE Later == UNION {Told(index, n + 1, q) : q \in {<<i, p>> : i \in others}}
               Bounds == UNION {Boundary(index, i) : i \in origins}
    <3>1. x \in Later <=> \E i \in others : x \in Told(index, n + 1, <<i, p>>)
      OBVIOUS
    <3>2. x \in Bounds <=> \E i \in origins : x \in Boundary(index, i)
      OBVIOUS
    <3>3. Told(index, n, <<m, c>>) = (Ready(index, m, p) \cup Bounds) \cup Later
      BY <1>2, <1>5
    <3> HIDE DEF Later, Bounds
    <3>4. QED
      BY <3>1, <3>2, <3>3
  <2>2. x \in FindsAll(index, n + 1, p, Ins(p)) <=> \E i \in origins \cup others : x \in Finds(index, n + 1, p, i)
    BY <1>4 DEF FindsAll
  <2>3. QED
    BY <1>3, <2>1, <2>2
<1>7. ASSUME NEW x
      PROVE  x \in Passed(index, n, <<m, c>>) <=> x \in {p} \cup ReliesAll(index, n + 1, p, Ins(p))
  <2>1. x \in Passed(index, n, <<m, c>>)
           <=> x = p \/ \E i \in others : x \in Passed(index, n + 1, <<i, p>>)
    BY <1>5
  <2>2. x \in ReliesAll(index, n + 1, p, Ins(p)) <=> \E i \in origins \cup others : x \in Relies(index, n + 1, p, i)
    BY <1>4 DEF ReliesAll
  <2>3. QED
    BY <1>3, <2>1, <2>2
<1>8. QED
  BY <1>6, <1>7

-----------------------------------------------------------------------------
(* Steps that leave what is followed *)

LEMMA SameLookups ==
    ASSUME log' = log, \A p : Away(p)' = Away(p)
    PROVE  /\ \A index, pair : Sole(index, pair)' = Sole(index, pair)
           /\ \A index, m, c : NoProducer(index, m, c)' = NoProducer(index, m, c)
           /\ \A index, m : Boundary(index, m)' = Boundary(index, m)
           /\ \A index, m, p : Ready(index, m, p)' = Ready(index, m, p)
<1>1. /\ \A index, m : Writers(index, m)' = Writers(index, m) /\ Owners(index, m)' = Owners(index, m)
      /\ \A index, m, c : Producers(index, m, c)' = Producers(index, m, c)
  <2>1. \A index, m : Writers(index, m)' = Writers(index, m) /\ Owners(index, m)' = Owners(index, m)
    BY SameLog DEF Writers, Owners
  <2>2. QED
    BY <2>1 DEF Producers
<1>2. \A index, pair : Sole(index, pair)' = Sole(index, pair)
  BY <1>1 DEF Sole
<1>3. ASSUME NEW index, NEW m, NEW c
      PROVE  NoProducer(index, m, c)' = NoProducer(index, m, c)
  <2> DEFINE found == Producers(index, m, c)
             sharers == {p \in found \cap Writers(index, m) : Home(p) \cap Above[m] # {}}
  <2>1. found' = found
    BY <1>1
  <2>2. sharers' = sharers
    BY <1>1, SameLog
  <2> HIDE DEF found, sharers
  <2>3. /\ NoProducer(index, m, c) =
              IF found = {} THEN Finding("missing", m, {c})
              ELSE IF sharers # {} THEN Finding("shared", CHOOSE d \in Home(Min(sharers)) : TRUE, found)
              ELSE Finding(IF c = None THEN "producer" ELSE "lineage", m, found)
        /\ NoProducer(index, m, c)' =
              IF found' = {} THEN Finding("missing", m, {c})
              ELSE IF sharers' # {} THEN Finding("shared", CHOOSE d \in Home(Min(sharers))' : TRUE, found')
              ELSE Finding(IF c = None THEN "producer" ELSE "lineage", m, found')
    BY DEF NoProducer, found, sharers, Finding
  <2>4. Home(Min(sharers))' = Home(Min(sharers))
    BY <2>2 DEF Home, Outs
  <2>5. QED
    BY <2>1, <2>2, <2>3, <2>4
<1>4. ASSUME NEW index, NEW m
      PROVE  Boundary(index, m)' = Boundary(index, m)
  <2> DEFINE confirmed == {p \in Writers(index, m) : log.support[At(p)] = "current"}
  <2>1. confirmed' = confirmed
    BY <1>1, SameLog
  <2>2. /\ Boundary(index, m) = IF confirmed = {} THEN {}
              ELSE {Finding(IF Cardinality(confirmed) = 1 THEN "origin" ELSE "lineage", m, confirmed)}
        /\ Boundary(index, m)' = IF confirmed' = {} THEN {}
              ELSE {Finding(IF Cardinality(confirmed') = 1 THEN "origin" ELSE "lineage", m, confirmed')}
    BY DEF Boundary, Finding
  <2> HIDE DEF confirmed
  <2>3. QED
    BY <2>1, <2>2
<1>5. ASSUME NEW index, NEW m, NEW p
      PROVE  Ready(index, m, p)' = Ready(index, m, p)
  <2>1. Sharing(index, p)' = Sharing(index, p)
    <3> DEFINE sharers(d) == {q \in index \ {p} : ~ Apart({d}, Scalars(q) \cup Home(q))}
    <3>1. \A q : Scalars(q)' = Scalars(q) /\ Home(q)' = Home(q)
      BY SameLog
    <3>2. \A d : sharers(d)' = sharers(d)
      BY <3>1 DEF Apart, Near
    <3>3. /\ Sharing(index, p) =
                {Finding("shared", d, {p} \cup sharers(d)) : d \in {d \in Home(p) : sharers(d) # {}}}
          /\ Sharing(index, p)' =
                {Finding("shared", d, {p} \cup sharers(d)') : d \in {d \in Home(p)' : sharers(d)' # {}}}
      BY DEF Sharing, Finding
    <3> HIDE DEF sharers
    <3>4. QED
      BY <3>1, <3>2, <3>3
  <2>2. Withheld(p)' = Withheld(p)
    BY SameLog DEF Withheld, PyrunId, Ids
  <2>3. Support(p, m)' = Support(p, m)
    <3> DEFINE output == IF Home(p) \cap Above[m] = {} THEN m ELSE CHOOSE d \in Home(p) : TRUE
               absent == FirstAbsent(log.commands[p].ins)
    <3>1. Home(p)' = Home(p) /\ At(p)' = At(p)
      BY SameLog
    <3>2. output' = output
      BY <3>1
    <3>3. absent' = absent
      BY DEF FirstAbsent, Here
    <3>4. /\ Support(p, m) =
                IF Withheld(p) # {} THEN {}
                ELSE IF absent # {}
                THEN {Finding(IF log.state[i] = "away" THEN "unavailable" ELSE "unobserved", i, {}) : i \in absent}
                ELSE {f \in {Finding("unsupported", output, {p})} : log.support[At(p)] = "none"}
          /\ Support(p, m)' =
                IF Withheld(p)' # {} THEN {}
                ELSE IF absent' # {}
                THEN {Finding(IF log'.state[i] = "away" THEN "unavailable" ELSE "unobserved", i, {}) : i \in absent'}
                ELSE {f \in {Finding("unsupported", output', {p})} : log'.support[At(p)'] = "none"}
      BY DEF Support, Finding
    <3> HIDE DEF output, absent
    <3>5. QED
      BY <2>2, <3>1, <3>2, <3>3, <3>4
  <2>4. QED
    BY <2>1, <2>3, SameLog DEF Ready, Finding
<1>6. QED
  BY <1>2, <1>3, <1>4, <1>5

LEMMA SameWalk ==
    ASSUME log' = log, Invocations' = Invocations, \A p : Away(p)' = Away(p)
    PROVE  /\ \A limit : Index(limit)' = Index(limit)
           /\ \A index, n, pair : /\ Told(index, n, pair)' = Told(index, n, pair)
                                  /\ Passed(index, n, pair)' = Passed(index, n, pair)
           /\ \A index, n, c, done : /\ FindsAll(index, n, c, done)' = FindsAll(index, n, c, done)
                                     /\ ReliesAll(index, n, c, done)' = ReliesAll(index, n, c, done)
<1>1. \A limit : Index(limit)' = Index(limit)
  BY DEF Index
<1>2. /\ \A index, pair : Sole(index, pair)' = Sole(index, pair)
      /\ \A index, m, c : NoProducer(index, m, c)' = NoProducer(index, m, c)
      /\ \A index, m : Boundary(index, m)' = Boundary(index, m)
      /\ \A index, m, p : Ready(index, m, p)' = Ready(index, m, p)
  BY SameLookups
<1>3. ASSUME NEW index, NEW pair
      PROVE  FoundAt(index, pair)' = FoundAt(index, pair)
  <2> DEFINE origins(p) == {i \in Ins(p) : Origin(At(p), i)}
             bounds(p) == UNION {Boundary(index, i) : i \in origins(p)}
  <2>1. \A p : origins(p)' = origins(p)
    BY SameLog
  <2>2. \A p : bounds(p)' = bounds(p)
    BY <1>2, <2>1
  <2>3. /\ FoundAt(index, pair) =
              IF Sole(index, pair) = {} THEN {NoProducer(index, pair[1], pair[2])}
              ELSE UNION {Ready(index, pair[1], p) \cup bounds(p) : p \in Sole(index, pair)}
        /\ FoundAt(index, pair)' =
              IF Sole(index, pair)' = {} THEN {NoProducer(index, pair[1], pair[2])'}
              ELSE UNION {Ready(index, pair[1], p)' \cup bounds(p)' : p \in Sole(index, pair)'}
    BY DEF FoundAt
  <2> HIDE DEF origins, bounds
  <2>4. QED
    BY <1>2, <2>2, <2>3
<1>4. \A index : Further(index)' = Further(index)
  BY <1>2, SameLog DEF Further, Pairs
<1>5. \A index, pair : Levels(Further(index), pair)' = Levels(Further(index), pair)
  BY <1>4
<1>6. \A index, n, pair : Within(index, n, pair)' = Within(index, n, pair)
  BY <1>5 DEF Within
<1>7. \A index, n, pair : /\ Told(index, n, pair)' = Told(index, n, pair)
                          /\ Passed(index, n, pair)' = Passed(index, n, pair)
  BY <1>2, <1>3, <1>5, <1>6 DEF Told, Passed, Finding
<1>8. \A index, n, c, m : /\ Finds(index, n, c, m)' = Finds(index, n, c, m)
                          /\ Relies(index, n, c, m)' = Relies(index, n, c, m)
  BY <1>2, <1>7, SameLog DEF Finds, Relies, AtOrigin
<1>9. \A index, n, c, done : /\ FindsAll(index, n, c, done)' = FindsAll(index, n, c, done)
                             /\ ReliesAll(index, n, c, done)' = ReliesAll(index, n, c, done)
  BY <1>8 DEF FindsAll, ReliesAll
<1>10. QED
  BY <1>1, <1>7, <1>9

-----------------------------------------------------------------------------
(* The walk *)

LEMMA OneMore ==
    ASSUME NEW index, NEW n, NEW c, NEW done, NEW m
    PROVE  /\ FindsAll(index, n, c, done \cup {m}) = FindsAll(index, n, c, done) \cup Finds(index, n, c, m)
           /\ ReliesAll(index, n, c, done \cup {m}) = ReliesAll(index, n, c, done) \cup Relies(index, n, c, m)
           /\ FindsAll(index, n, c, {}) = {} /\ ReliesAll(index, n, c, {}) = {}
           /\ FindsAll(index, n, c, {m}) = Finds(index, n, c, m)
           /\ ReliesAll(index, n, c, {m}) = Relies(index, n, c, m)
  BY DEF FindsAll, ReliesAll

LEMMA HeadAndTail ==
    ASSUME NEW s \in Seq(File), s # <<>>
    PROVE  Head(s) \in File /\ Tail(s) \in Seq(File) /\ ToSet(s) = {Head(s)} \cup ToSet(Tail(s))
<1>1. Head(s) \in File /\ Tail(s) \in Seq(File)
  OBVIOUS
<1>2. Len(s) \in Nat /\ Len(s) > 0 /\ Len(Tail(s)) = Len(s) - 1 /\ Head(s) = s[1]
      /\ \A i \in 1..Len(Tail(s)) : Tail(s)[i] = s[i + 1]
  OBVIOUS
<1>3. DOMAIN s = 1..Len(s) /\ DOMAIN Tail(s) = 1..Len(Tail(s))
  OBVIOUS
<1>4. \A x : (\E i \in 1..Len(s) : s[i] = x) <=> (x = s[1] \/ \E i \in 1..Len(Tail(s)) : Tail(s)[i] = x)
  <2> TAKE x
  <2>1. ASSUME NEW i \in 1..Len(s), s[i] = x, x # s[1]
        PROVE  \E j \in 1..Len(Tail(s)) : Tail(s)[j] = x
    <3>1. i - 1 \in 1..Len(Tail(s)) /\ Tail(s)[i - 1] = x
      BY <1>2, <2>1
    <3>2. QED
      BY <3>1
  <2>2. ASSUME NEW i \in 1..Len(Tail(s)), Tail(s)[i] = x
        PROVE  \E j \in 1..Len(s) : s[j] = x
    <3>1. i + 1 \in 1..Len(s) /\ s[i + 1] = x
      BY <1>2, <2>2
    <3>2. QED
      BY <3>1
  <2>3. 1 \in 1..Len(s)
    BY <1>2
  <2>4. QED
    BY <2>1, <2>2, <2>3
<1>5. QED
  BY <1>1, <1>2, <1>3, <1>4 DEF ToSet

\* What the topmost producer has of its first input.
LEMMA TopFollows ==
    ASSUME EvaluationInv, StackExact(stack), stack # <<>>
    PROVE  /\ Len(stack) \in Nat /\ Len(stack) > 0 /\ Len(stack) - 1 \in 0..MaxDepth + 1
           /\ stack \in Seq(Frames) /\ Top \in Frames
           /\ Depth = Len(stack) - 1 /\ Top = stack[Len(stack)]
           /\ Top.command \in Commands \cup {None}
           /\ Following(Index(Context), Depth, Top)
<1>1. Trail(stack) /\ Len(stack) \in Nat /\ Len(stack) > 0 /\ Top \in Frames
  BY InWalk
<1>2. Len(stack) - 1 \in 0..MaxDepth + 1
  BY <1>1, DepthAssumption DEF Trail
<1>3. QED
  BY <1>1, <1>2 DEF Trail, Depth, Top, StackExact, Frames

LEMMA ThroughFollows ==
    ASSUME EvaluationInv, StackExact(stack), NEW m \in File, Facing(m),
           NEW found, NEW relied, Adds(found, relied),
           found = Finds(Index(Context), Depth, Top.command, m),
           relied = Relies(Index(Context), Depth, Top.command, m)
    PROVE  StackExact(Through(found, relied))
<1> DEFINE next == [Top EXCEPT !.left = Tail(@), !.found = @ \cup found, !.relied = @ \cup relied]
           after == Through(found, relied)
           index == Index(Context)
<1>1. stack # <<>> /\ Top.left # <<>> /\ m = Head(Top.left)
  BY DEF Facing
<1>2. /\ Len(stack) \in Nat /\ Len(stack) > 0 /\ stack \in Seq(Frames) /\ Top \in Frames
      /\ Depth = Len(stack) - 1 /\ Top = stack[Len(stack)]
      /\ Following(index, Depth, Top)
  BY <1>1, TopFollows
<1>3. /\ next.command = Top.command /\ next.left = Tail(Top.left)
      /\ next.found = Top.found \cup found /\ next.relied = Top.relied \cup relied
  BY <1>2 DEF Frames
<1>4. Top.left \in Seq(File)
  BY <1>2 DEF Frames
<1>5. Following(index, Depth, next)
  <2>1. PICK done \in SUBSET File :
           /\ done \cup ToSet(Top.left) = Named(Top.command)
           /\ Top.found = FindsAll(index, Depth, Top.command, done)
           /\ Top.relied = ReliesAll(index, Depth, Top.command, done)
    BY <1>2 DEF Following
  <2>2. ToSet(Top.left) = {m} \cup ToSet(next.left)
    BY <1>1, <1>3, <1>4, HeadAndTail
  <2>3. /\ done \cup {m} \in SUBSET File
        /\ (done \cup {m}) \cup ToSet(next.left) = Named(next.command)
    BY <1>3, <2>1, <2>2
  <2>4. /\ next.found = FindsAll(index, Depth, next.command, done \cup {m})
        /\ next.relied = ReliesAll(index, Depth, next.command, done \cup {m})
    <3> HIDE DEF next, index
    <3>1. /\ FindsAll(index, Depth, Top.command, done \cup {m})
                = FindsAll(index, Depth, Top.command, done) \cup Finds(index, Depth, Top.command, m)
          /\ ReliesAll(index, Depth, Top.command, done \cup {m})
                = ReliesAll(index, Depth, Top.command, done) \cup Relies(index, Depth, Top.command, m)
      <4>1. ASSUME NEW c, NEW n
            PROVE  /\ FindsAll(index, n, c, done \cup {m}) = FindsAll(index, n, c, done) \cup Finds(index, n, c, m)
                   /\ ReliesAll(index, n, c, done \cup {m})
                         = ReliesAll(index, n, c, done) \cup Relies(index, n, c, m)
        BY DEF FindsAll, ReliesAll
      <4>2. QED
        BY <4>1
    <3>2. found = Finds(index, Depth, Top.command, m) /\ relied = Relies(index, Depth, Top.command, m)
      BY DEF index
    <3>3. QED
      BY <1>3, <2>1, <3>1, <3>2
  <2>5. QED
    BY <2>3, <2>4 DEF Following
<1>6. next \in Frames
  <2>1. /\ Tail(Top.left) \in Seq(File) /\ Top.found \cup found \in SUBSET Findings
        /\ Top.relied \cup relied \in SUBSET Commands
    BY <1>1, <1>2, <1>4, HeadAndTail, Observed DEF Adds, Frames
  <2>2. QED
    BY <1>2, <2>1 DEF Frames
<1> HIDE DEF next
<1>7. /\ after \in Seq(Frames) /\ Len(after) = Len(stack)
      /\ \A j \in 1..Len(stack) : after[j] = IF j = Len(stack) THEN next ELSE stack[j]
  <2>1. after = [stack EXCEPT ![Len(stack)] = next]
    BY DEF Through, next
  <2> HIDE DEF after
  <2>2. QED
    BY <1>2, <1>6, <2>1, ExceptSeq
<1> HIDE DEF after
<1>8. after[1].command = None /\ after[Len(after)] = next
  BY <1>1, <1>2, <1>3, <1>7 DEF StackExact
<1>9. \A i \in 1..(Len(after) - 1) : Awaiting(index, i - 1, after[i], after[i + 1].command)
  <2> TAKE i \in 1..(Len(after) - 1)
  <2>1. after[i] = stack[i] /\ after[i + 1].command = stack[i + 1].command
    BY <1>2, <1>3, <1>7
  <2>2. QED
    BY <1>2, <1>7, <2>1 DEF StackExact
<1>10. QED
  BY <1>2, <1>5, <1>7, <1>8, <1>9 DEF StackExact, after

\* A step of the walk leaves what can be followed.
LEMMA ExactStep ==
    ASSUME EvaluationInv, Exactly,
           UNCHANGED <<request, surfaces, phase, checks, twice, job, results>>,
           StackExact(stack'),
           \A key \in DOMAIN traces' : TraceExact(key, traces'[key])
    PROVE  Exactly'
<1>1. UNCHANGED <<log, loaded, prerequisites, materialized, checks, job, results>>
  BY DEF request, surfaces
<1>2. Context' = Context /\ Invocations' = Invocations
  BY <1>1, SameContext
<1>3. \A p : Away(p)' = Away(p)
  BY <1>1, SameNeeds DEF EvaluationInv
<1>4. /\ \A limit : Index(limit)' = Index(limit)
      /\ \A index, n, pair : /\ Told(index, n, pair)' = Told(index, n, pair)
                             /\ Passed(index, n, pair)' = Passed(index, n, pair)
      /\ \A index, n, c, done : /\ FindsAll(index, n, c, done)' = FindsAll(index, n, c, done)
                                /\ ReliesAll(index, n, c, done)' = ReliesAll(index, n, c, done)
  BY <1>1, <1>2, <1>3, SameWalk
<1>5. /\ \A index, pair : Sole(index, pair)' = Sole(index, pair)
      /\ \A index, m, p : Ready(index, m, p)' = Ready(index, m, p)
  BY <1>1, <1>3, SameLookups
<1>6. \A c : Named(c)' = Named(c)
  BY <1>1, SameLog DEF Named, Source
<1>7. Index(Context)' = Index(Context)
  BY <1>2, <1>4
<1>8. \A index, n, frame : Following(index, n, frame)' <=> Following(index, n, frame)
  BY <1>4, <1>6 DEF Following, File
<1>9. \A index, n, frame, p : Awaiting(index, n, frame, p)' <=> Awaiting(index, n, frame, p)
  <2>1. \A c, m : AtOrigin(c, m)' = AtOrigin(c, m)
    BY <1>1, SameLog DEF AtOrigin
  <2> TAKE index, n, frame, p
  <2> DEFINE Waits(done, m) ==
                /\ done \cup {m} \cup ToSet(frame.left) = Named(frame.command)
                /\ ~ AtOrigin(frame.command, m)
                /\ Sole(index, <<m, frame.command>>) = {p}
                /\ frame.found = FindsAll(index, n, frame.command, done) \cup Ready(index, m, p)
                /\ frame.relied = ReliesAll(index, n, frame.command, done) \cup {p}
  <2>2. \A done, m : Waits(done, m)' <=> Waits(done, m)
    BY <1>4, <1>5, <1>6, <2>1
  <2>3. /\ Awaiting(index, n, frame, p) <=> n <= MaxDepth /\ \E done \in SUBSET File, m \in File : Waits(done, m)
        /\ Awaiting(index, n, frame, p)' <=> n <= MaxDepth /\ \E done \in SUBSET File, m \in File : Waits(done, m)'
    BY DEF Awaiting, File
  <2>4. (\E done \in SUBSET File, m \in File : Waits(done, m)')
           <=> (\E done \in SUBSET File, m \in File : Waits(done, m))
    <3> HIDE DEF Waits
    <3>1. QED
      BY <2>2
  <2> HIDE DEF Waits
  <2>5. QED
    BY <2>3, <2>4
<1>10. StackExact(stack)'
  BY <1>7, <1>8, <1>9 DEF StackExact
<1>11. (\A key \in DOMAIN traces : TraceExact(key, traces[key]))'
  BY <1>1, <1>4, SameLog DEF TraceExact
<1>12. (\A key \in DOMAIN results : ResultExact(key, results[key]))'
  BY <1>1, <1>4 DEF Exactly, ResultExact
<1>13. QED
  BY <1>10, <1>11, <1>12 DEF Exactly

LEMMA ExactThrough ==
    ASSUME EvaluationInv, Exactly, NEW m \in File, Facing(m),
           NEW found, NEW relied, Adds(found, relied),
           found = Finds(Index(Context), Depth, Top.command, m),
           relied = Relies(Index(Context), Depth, Top.command, m),
           stack' = Through(found, relied),
           UNCHANGED <<request, surfaces, phase, checks, twice, job, traces, results>>
    PROVE  Exactly'
<1>1. StackExact(stack')
  BY ThroughFollows DEF Exactly
<1>2. \A key \in DOMAIN traces' : TraceExact(key, traces'[key])
  BY DEF Exactly
<1>3. QED
  BY <1>1, <1>2, ExactStep

LEMMA MeetOriginExact ==
    ASSUME EvaluationInv, Exactly, MeetOrigin
    PROVE  Exactly'
<1>1. PICK m \in File :
         /\ Facing(m) /\ IsOrigin(m)
         /\ stack' = Through(Boundary(Index(Context), m), {})
         /\ UNCHANGED <<request, surfaces, phase, checks, twice, job, traces, results>>
  BY DEF MeetOrigin
<1>2. Adds(Boundary(Index(Context), m), {})
  <2>1. Index(Context) \in SUBSET Commands
    BY Observed
  <2>2. QED
    BY <2>1, Observed, BoundaryType, OtherAdds
<1>3. /\ Boundary(Index(Context), m) = Finds(Index(Context), Depth, Top.command, m)
      /\ {} = Relies(Index(Context), Depth, Top.command, m)
  BY <1>1 DEF IsOrigin, Finds, Relies, AtOrigin
<1>4. QED
  BY <1>1, <1>2, <1>3, ExactThrough

\* Where the walk is.
LEMMA MeetingFacts ==
    ASSUME EvaluationInv, Exactly, NEW m \in File, Facing(m), ~ IsOrigin(m)
    PROVE  /\ log \in Log /\ Index(Context) \in SUBSET Commands /\ stack # <<>>
           /\ Top.command \in Commands \cup {None} /\ Depth \in 0..MaxDepth + 1
           /\ ~ AtOrigin(Top.command, m)
           /\ Finds(Index(Context), Depth, Top.command, m) = Told(Index(Context), Depth, <<m, Top.command>>)
           /\ Relies(Index(Context), Depth, Top.command, m) = Passed(Index(Context), Depth, <<m, Top.command>>)
           /\ \A p : Suppliers(m) = {p} =>
                 p \in Commands /\ p # None /\ Sole(Index(Context), <<m, Top.command>>) = {p}
           /\ Cardinality(Suppliers(m)) # 1 => Sole(Index(Context), <<m, Top.command>>) = {}
<1>1. stack # <<>> /\ log \in Log /\ Index(Context) \in SUBSET Commands
  BY Observed DEF Facing
<1>2. Top.command \in Commands \cup {None} /\ Depth \in 0..MaxDepth + 1
  BY <1>1, TopFollows DEF Exactly
<1>3. ~ AtOrigin(Top.command, m)
  BY DEF IsOrigin, AtOrigin
<1>4. None \notin Commands
  BY <1>1, LogTypes, LogAssumption
<1>5. QED
  BY <1>1, <1>2, <1>3, <1>4, SoleProducer DEF Suppliers, Finds, Relies

LEMMA StopShortExact ==
    ASSUME EvaluationInv, Exactly, StopShort
    PROVE  Exactly'
<1>1. PICK m \in File :
         /\ Facing(m) /\ ~ IsOrigin(m)
         /\ \/ Depth > MaxDepth /\ stack' = Through({Finding("deep", m, {})}, {})
            \/ /\ Depth <= MaxDepth /\ Cardinality(Suppliers(m)) # 1
               /\ stack' = Through({NoProducer(Index(Context), m, Top.command)}, {})
         /\ UNCHANGED <<request, surfaces, phase, checks, twice, job, traces, results>>
  BY DEF StopShort
<1> DEFINE index == Index(Context)
           c == Top.command
<1>2. /\ stack # <<>> /\ Depth \in 0..MaxDepth + 1 /\ c \in Commands \cup {None}
      /\ Finds(index, Depth, c, m) = Told(index, Depth, <<m, c>>)
      /\ Relies(index, Depth, c, m) = Passed(index, Depth, <<m, c>>)
      /\ Cardinality(Suppliers(m)) # 1 => Sole(index, <<m, c>>) = {}
  BY <1>1, MeetingFacts
<1>3. CASE Depth > MaxDepth /\ stack' = Through({Finding("deep", m, {})}, {})
  <2>1. Depth = MaxDepth + 1
    BY <1>2, <1>3, DepthAssumption
  <2>2. Told(index, Depth, <<m, c>>) = {Finding("deep", m, {})} /\ Passed(index, Depth, <<m, c>>) = {}
    BY <2>1, ToldAtEnd
  <2>3. Adds({Finding("deep", m, {})}, {})
    <3>1. m \in Path
      BY DEF File
    <3>2. Other({Finding("deep", m, {})})
      BY <3>1, FindingType DEF Other
    <3>3. QED
      BY <3>2, OtherAdds
  <2>4. QED
    BY <1>1, <1>2, <1>3, <2>2, <2>3, ExactThrough
<1>4. CASE /\ Depth <= MaxDepth /\ Cardinality(Suppliers(m)) # 1
           /\ stack' = Through({NoProducer(Index(Context), m, Top.command)}, {})
  <2>1. Depth \in 0..MaxDepth
    BY <1>2, <1>4, DepthAssumption
  <2>2. Told(index, Depth, <<m, c>>) = {NoProducer(index, m, c)} /\ Passed(index, Depth, <<m, c>>) = {}
    BY <1>2, <1>4, <2>1, ToldNone
  <2>3. Adds({NoProducer(index, m, c)}, {})
    BY <1>2, LackingProducer
  <2>4. QED
    BY <1>1, <1>2, <1>4, <2>2, <2>3, ExactThrough
<1>5. QED
  BY <1>1, <1>3, <1>4

LEMMA ReplayExact ==
    ASSUME EvaluationInv, Exactly, Replay
    PROVE  Exactly'
<1>1. PICK m \in File, p \in Commands :
         LET key == TraceKey(p, Depth, Visiting \cup {p})
         IN  /\ Meeting(m, p)
             /\ key \in DOMAIN traces
             /\ stack' = Through(Ready(Index(Context), m, p) \cup traces[key].found,
                                 {p} \cup traces[key].relied)
             /\ UNCHANGED <<request, surfaces, phase, checks, twice, job, traces, results>>
  BY DEF Replay
<1> DEFINE index == Index(Context)
           c == Top.command
           key == TraceKey(p, Depth, Visiting \cup {p})
<1>2. Facing(m) /\ ~ IsOrigin(m) /\ Depth <= MaxDepth /\ Suppliers(m) = {p}
  BY <1>1 DEF Meeting
<1>3. /\ stack # <<>> /\ Depth \in 0..MaxDepth + 1 /\ c \in Commands \cup {None} /\ p # None
      /\ Finds(index, Depth, c, m) = Told(index, Depth, <<m, c>>)
      /\ Relies(index, Depth, c, m) = Passed(index, Depth, <<m, c>>)
      /\ Sole(index, <<m, c>>) = {p}
  BY <1>2, MeetingFacts
<1>4. Depth \in 0..MaxDepth
  BY <1>2, <1>3, DepthAssumption
<1>5. /\ Told(index, Depth, <<m, c>>) = Ready(index, m, p) \cup FindsAll(index, Depth + 1, p, Ins(p))
      /\ Passed(index, Depth, <<m, c>>) = {p} \cup ReliesAll(index, Depth + 1, p, Ins(p))
  <2> HIDE DEF index, c
  <2>1. QED
    BY <1>3, <1>4, ToldProducer
<1>6. /\ traces[key].found = FindsAll(index, Depth + 1, p, Ins(p))
      /\ traces[key].relied = ReliesAll(index, Depth + 1, p, Ins(p))
  <2>1. TraceExact(key, traces[key])
    BY <1>1 DEF Exactly
  <2>2. key[1] = Context /\ key[2] = p /\ key[3] = Depth
    BY DEF TraceKey
  <2> HIDE DEF key
  <2>3. QED
    BY <2>1, <2>2 DEF TraceExact
<1>7. Adds(Ready(index, m, p) \cup traces[key].found, {p} \cup traces[key].relied)
  <2>1. traces[key] \in Conclusions /\ Sound(traces[key])
    BY <1>1 DEF EvaluationInv, TypeOK, Walked
  <2>2. Adds(Ready(index, m, p), {p})
    BY <1>2, <1>3, ReadyAdds
  <2>3. QED
    BY <2>1, <2>2 DEF Adds, Sound, Conclusions
<1>8. /\ stack' = Through(Ready(index, m, p) \cup traces[key].found, {p} \cup traces[key].relied)
      /\ UNCHANGED <<request, surfaces, phase, checks, twice, job, traces, results>>
  BY <1>1
<1>9. /\ Ready(index, m, p) \cup traces[key].found = Finds(index, Depth, c, m)
      /\ {p} \cup traces[key].relied = Relies(index, Depth, c, m)
  BY <1>3, <1>5, <1>6
<1> HIDE DEF key
<1>10. QED
  BY <1>2, <1>7, <1>8, <1>9, ExactThrough

LEMMA ThroughAt ==
    ASSUME EvaluationInv, stack # <<>>, Top.left # <<>>,
           NEW found, NEW relied, Adds(found, relied)
    PROVE  LET after == Through(found, relied)
               last == after[Len(after)]
           IN  /\ after \in Seq(Frames) /\ Len(after) = Len(stack)
               /\ \A j \in 1..(Len(stack) - 1) : after[j] = stack[j]
               /\ last.command = Top.command /\ last.left = Tail(Top.left)
               /\ last.found = Top.found \cup found /\ last.relied = Top.relied \cup relied
<1> DEFINE next == [Top EXCEPT !.left = Tail(@), !.found = @ \cup found, !.relied = @ \cup relied]
           after == Through(found, relied)
<1>1. Trail(stack) /\ Len(stack) \in Nat /\ Len(stack) > 0 /\ Top \in Frames
  BY InWalk
<1>2. /\ next.command = Top.command /\ next.left = Tail(Top.left)
      /\ next.found = Top.found \cup found /\ next.relied = Top.relied \cup relied
  BY <1>1 DEF Frames
<1>3. next \in Frames
  <2>1. Top.left \in Seq(File)
    BY <1>1 DEF Frames
  <2>2. /\ Tail(Top.left) \in Seq(File) /\ Top.found \cup found \in SUBSET Findings
        /\ Top.relied \cup relied \in SUBSET Commands
    BY <1>1, <2>1, HeadAndTail, Observed DEF Adds, Frames
  <2>3. QED
    BY <1>1, <2>2 DEF Frames
<1> HIDE DEF next
<1>4. after = [stack EXCEPT ![Len(stack)] = next]
  BY DEF Through, next
<1> HIDE DEF after
<1>5. /\ after \in Seq(Frames) /\ Len(after) = Len(stack)
      /\ \A j \in 1..Len(stack) : after[j] = IF j = Len(stack) THEN next ELSE stack[j]
  BY <1>1, <1>3, <1>4, ExceptSeq DEF Trail
<1>6. after[Len(after)] = next /\ \A j \in 1..(Len(stack) - 1) : after[j] = stack[j]
  BY <1>1, <1>5
<1>7. QED
  BY <1>2, <1>5, <1>6 DEF after

LEMMA DescendExact ==
    ASSUME EvaluationInv, Exactly, Descend
    PROVE  Exactly'
<1>1. PICK m \in File, p \in Commands :
         /\ Meeting(m, p)
         /\ stack' = Append(Through(Ready(Index(Context), m, p), {p}), Frame(p, log.commands[p].ins))
         /\ UNCHANGED <<request, surfaces, phase, checks, twice, job, traces, results>>
  BY DEF Descend
<1> DEFINE index == Index(Context)
           c == Top.command
           below == Through(Ready(index, m, p), {p})
           last == below[Len(below)]
           frame == Frame(p, log.commands[p].ins)
           after == Append(below, frame)
           n == Len(stack)
<1>2. Facing(m) /\ ~ IsOrigin(m) /\ Depth <= MaxDepth /\ Suppliers(m) = {p}
  BY <1>1 DEF Meeting
<1>3. /\ stack # <<>> /\ Top.left # <<>> /\ m = Head(Top.left) /\ log \in Log
      /\ c \in Commands \cup {None} /\ p # None
      /\ Sole(index, <<m, c>>) = {p} /\ ~ AtOrigin(c, m)
  BY <1>2, MeetingFacts DEF Facing
<1>4. /\ n \in Nat /\ n > 0 /\ Top \in Frames /\ Depth = n - 1 /\ Following(index, n - 1, Top)
      /\ StackExact(stack)
  BY <1>3, TopFollows DEF Exactly
<1>5. Adds(Ready(index, m, p), {p})
  BY <1>2, <1>3, ReadyAdds
<1>6. /\ below \in Seq(Frames) /\ Len(below) = n
      /\ \A j \in 1..(n - 1) : below[j] = stack[j]
      /\ last.command = c /\ last.left = Tail(Top.left)
      /\ last.found = Top.found \cup Ready(index, m, p) /\ last.relied = Top.relied \cup {p}
  BY <1>3, <1>5, ThroughAt
<1>7. frame \in Frames /\ frame = Frame(p, log.commands[p].ins)
  <2>1. log.commands[p].ins \in Seq(File)
    BY <1>3, LogTypes
  <2>2. QED
    BY <2>1 DEF Frame, Frames
<1>8. frame.command = p /\ Following(index, n, frame)
  <2>1. /\ frame.command = p /\ frame.left = log.commands[p].ins
        /\ frame.found = {} /\ frame.relied = {}
    BY DEF Frame
  <2>2. Named(p) = ToSet(log.commands[p].ins)
    BY <1>3 DEF Named, Ins
  <2>3. /\ {} \cup ToSet(frame.left) = Named(frame.command)
        /\ frame.found = FindsAll(index, n, frame.command, {})
        /\ frame.relied = ReliesAll(index, n, frame.command, {})
    BY <2>1, <2>2 DEF FindsAll, ReliesAll
  <2>4. {} \in SUBSET File
    OBVIOUS
  <2> HIDE DEF frame, index
  <2>5. QED
    BY <2>1, <2>3, <2>4 DEF Following
<1>9. Awaiting(index, n - 1, last, p)
  <2>1. PICK done \in SUBSET File :
           /\ done \cup ToSet(Top.left) = Named(c)
           /\ Top.found = FindsAll(index, n - 1, c, done)
           /\ Top.relied = ReliesAll(index, n - 1, c, done)
    BY <1>4 DEF Following
  <2>2. ToSet(Top.left) = {m} \cup ToSet(last.left)
    <3>1. Top.left \in Seq(File)
      BY <1>4 DEF Frames
    <3>2. QED
      BY <1>3, <1>6, <3>1, HeadAndTail
  <2>3. n - 1 <= MaxDepth
    BY <1>2, <1>4
  <2> HIDE DEF last, c, index
  <2>4. /\ done \cup {m} \cup ToSet(last.left) = Named(last.command)
        /\ ~ AtOrigin(last.command, m)
        /\ Sole(index, <<m, last.command>>) = {p}
        /\ last.found = FindsAll(index, n - 1, last.command, done) \cup Ready(index, m, p)
        /\ last.relied = ReliesAll(index, n - 1, last.command, done) \cup {p}
    BY <1>3, <1>6, <2>1, <2>2
  <2>5. QED
    BY <2>3, <2>4 DEF Awaiting
<1> HIDE DEF below, frame
<1>10. /\ after \in Seq(Frames) /\ Len(after) = n + 1 /\ after[n + 1] = frame
       /\ \A j \in 1..n : after[j] = below[j]
  BY <1>4, <1>6, <1>7
<1> HIDE DEF after
<1>11. StackExact(after)
  <2>1. after[1].command = None
    <3>1. stack[1].command = None /\ Top = stack[n]
      BY <1>3, <1>4, TopFollows DEF StackExact
    <3>2. CASE n = 1
      BY <1>6, <1>10, <3>1, <3>2
    <3>3. CASE n # 1
      BY <1>4, <1>6, <1>10, <3>1, <3>3
    <3>4. QED
      BY <3>2, <3>3
  <2>2. ASSUME NEW i \in 1..n
        PROVE  Awaiting(index, i - 1, after[i], after[i + 1].command)
    <3>1. CASE i = n
      BY <1>4, <1>6, <1>8, <1>9, <1>10, <3>1
    <3>2. CASE i # n
      <4>1. i \in 1..(n - 1) /\ i + 1 \in 1..n /\ after[i] = stack[i]
        BY <1>4, <1>6, <1>10, <3>2
      <4>2. after[i + 1].command = stack[i + 1].command
        <5>1. Top = stack[n]
          BY <1>3, <1>4, TopFollows
        <5>2. i + 1 = n \/ i + 1 \in 1..(n - 1)
          BY <1>4, <4>1
        <5>3. QED
          BY <1>6, <1>10, <4>1, <5>1, <5>2
      <4>3. QED
        BY <1>4, <4>1, <4>2 DEF StackExact
    <3>3. QED
      BY <3>1, <3>2
  <2>3. Following(index, n, after[n + 1])
    BY <1>8, <1>10
  <2>4. n + 1 - 1 = n
    BY <1>4
  <2>5. QED
    BY <1>10, <2>1, <2>2, <2>3, <2>4 DEF StackExact
<1>12. StackExact(stack')
  BY <1>1, <1>11 DEF after, below, frame
<1>13. \A key \in DOMAIN traces' : TraceExact(key, traces'[key])
  BY <1>1 DEF Exactly
<1>14. QED
  BY <1>1, <1>12, <1>13, ExactStep

LEMMA AscendExact ==
    ASSUME EvaluationInv, Exactly, Ascend
    PROVE  Exactly'
<1> DEFINE n == Len(stack)
           p == Top.command
           index == Index(Context)
           below == stack[n - 1]
           joined == [below EXCEPT !.found = @ \cup Top.found, !.relied = @ \cup Top.relied]
           key == TraceKey(p, Depth - 1, Visiting)
<1>1. /\ n > 1 /\ Top.left = <<>>
      /\ traces' = Cached(traces, key, Conclusion(Top))
      /\ stack' = [Front(stack) EXCEPT ![n - 1] = joined]
      /\ UNCHANGED <<request, surfaces, phase, checks, twice, job, results>>
  BY DEF Ascend
<1>2. stack # <<>> /\ StackExact(stack)
  BY <1>1 DEF Exactly
<1>3. /\ n \in Nat /\ stack \in Seq(Frames) /\ Top \in Frames /\ Depth = n - 1 /\ Top = stack[n]
      /\ Following(index, n - 1, Top)
  BY <1>2, TopFollows
<1>4. /\ log \in Log /\ index \in SUBSET Commands /\ None \notin Commands
  <2>1. log \in Log /\ index \in SUBSET Commands
    BY Observed
  <2>2. QED
    BY <2>1, LogTypes, LogAssumption
<1>5. below \in Frames /\ Awaiting(index, n - 2, below, p)
  <2>1. n - 1 \in 1..Len(stack)
    BY <1>1, <1>3
  <2>2. below \in Frames
    BY <1>3, <2>1, ElementOfSeq
  <2>3. Awaiting(index, n - 1 - 1, stack[n - 1], stack[n - 1 + 1].command)
    <3>1. n - 1 \in 1..(Len(stack) - 1)
      BY <1>1, <1>3
    <3>2. \A i \in 1..(Len(stack) - 1) : Awaiting(index, i - 1, stack[i], stack[i + 1].command)
      BY <1>2 DEF StackExact
    <3> HIDE DEF n, index
    <3>3. QED
      BY <3>1, <3>2
  <2>4. n - 1 + 1 = n /\ n - 1 - 1 = n - 2
    BY <1>3
  <2>5. QED
    BY <1>3, <2>2, <2>3, <2>4
<1>6. PICK done \in SUBSET File, m \in File :
         /\ done \cup {m} \cup ToSet(below.left) = Named(below.command)
         /\ ~ AtOrigin(below.command, m)
         /\ Sole(index, <<m, below.command>>) = {p}
         /\ below.found = FindsAll(index, n - 2, below.command, done) \cup Ready(index, m, p)
         /\ below.relied = ReliesAll(index, n - 2, below.command, done) \cup {p}
         /\ n - 2 <= MaxDepth
  BY <1>5 DEF Awaiting
<1>7. below.command \in Commands \cup {None} /\ p \in Commands /\ p # None
  <2>1. below.command \in Commands \cup {None}
    BY <1>5 DEF Frames
  <2>2. p \in Commands
    <3> HIDE DEF below, p, index
    <3>1. QED
      BY <1>4, <1>6, <2>1, SoleProducer
  <2>3. QED
    BY <1>4, <2>1, <2>2
\* All inputs of the producer are followed.
<1>8. Top.found = FindsAll(index, n - 1, p, Ins(p)) /\ Top.relied = ReliesAll(index, n - 1, p, Ins(p))
  <2>1. PICK all \in SUBSET File :
           /\ all \cup ToSet(Top.left) = Named(p)
           /\ Top.found = FindsAll(index, n - 1, p, all)
           /\ Top.relied = ReliesAll(index, n - 1, p, all)
    BY <1>3 DEF Following
  <2>2. ToSet(Top.left) = {}
    BY <1>1 DEF ToSet
  <2>3. all = Ins(p)
    BY <1>7, <2>1, <2>2 DEF Named
  <2>4. QED
    BY <2>1, <2>3
<1>9. /\ Told(index, n - 2, <<m, below.command>>) = Ready(index, m, p) \cup Top.found
      /\ Passed(index, n - 2, <<m, below.command>>) = {p} \cup Top.relied
  <2>1. n - 2 \in 0..MaxDepth /\ n - 2 + 1 = n - 1
    BY <1>1, <1>3, <1>6, DepthAssumption
  <2> HIDE DEF below, p, index, n
  <2>2. /\ Told(index, n - 2, <<m, below.command>>) = Ready(index, m, p) \cup FindsAll(index, n - 2 + 1, p, Ins(p))
        /\ Passed(index, n - 2, <<m, below.command>>) = {p} \cup ReliesAll(index, n - 2 + 1, p, Ins(p))
    BY <1>6, <1>7, <2>1, ToldProducer
  <2>3. QED
    BY <1>8, <2>1, <2>2
<1>10. /\ joined.command = below.command /\ joined.left = below.left /\ joined \in Frames
       /\ joined.found = below.found \cup Top.found /\ joined.relied = below.relied \cup Top.relied
  BY <1>3, <1>5 DEF Frames
<1>11. Following(index, n - 2, joined)
  <2> HIDE DEF joined, below, p, index, n
  <2>1. /\ Finds(index, n - 2, below.command, m) = Told(index, n - 2, <<m, below.command>>)
        /\ Relies(index, n - 2, below.command, m) = Passed(index, n - 2, <<m, below.command>>)
    BY <1>6 DEF Finds, Relies
  <2>2. \A b, k : /\ FindsAll(index, k, b, done \cup {m}) = FindsAll(index, k, b, done) \cup Finds(index, k, b, m)
                  /\ ReliesAll(index, k, b, done \cup {m}) = ReliesAll(index, k, b, done) \cup Relies(index, k, b, m)
    BY DEF FindsAll, ReliesAll
  <2>3. /\ FindsAll(index, n - 2, below.command, done \cup {m}) = joined.found
        /\ ReliesAll(index, n - 2, below.command, done \cup {m}) = joined.relied
    <3> DEFINE b == below.command
               k == n - 2
    <3>1. /\ joined.found = (FindsAll(index, k, b, done) \cup Ready(index, m, p)) \cup Top.found
          /\ joined.relied = (ReliesAll(index, k, b, done) \cup {p}) \cup Top.relied
      BY <1>6, <1>10
    <3>2. /\ Finds(index, k, b, m) = Ready(index, m, p) \cup Top.found
          /\ Relies(index, k, b, m) = {p} \cup Top.relied
      BY <1>9, <2>1
    <3> HIDE DEF b, k
    <3>3. /\ FindsAll(index, k, b, done \cup {m}) = joined.found
          /\ ReliesAll(index, k, b, done \cup {m}) = joined.relied
      BY <2>2, <3>1, <3>2
    <3>4. QED
      BY <3>3 DEF b, k
  <2>4. done \cup {m} \in SUBSET File /\ (done \cup {m}) \cup ToSet(joined.left) = Named(joined.command)
    BY <1>6, <1>10
  <2>5. QED
    BY <1>10, <2>3, <2>4 DEF Following
<1> HIDE DEF joined, below
<1>12. /\ stack' \in Seq(Frames) /\ Len(stack') = n - 1
       /\ \A j \in 1..(n - 2) : stack'[j] = stack[j]
       /\ stack'[n - 1] = joined
  <2>1. Front(stack) \in Seq(Frames) /\ Len(Front(stack)) = n - 1
        /\ \A j \in 1..(n - 1) : Front(stack)[j] = stack[j]
    BY <1>1, <1>3 DEF Front
  <2>2. /\ stack' \in Seq(Frames) /\ Len(stack') = n - 1
        /\ \A j \in 1..(n - 1) : stack'[j] = IF j = n - 1 THEN joined ELSE Front(stack)[j]
    BY <1>1, <1>3, <1>10, <2>1, ExceptSeq
  <2>3. QED
    BY <1>1, <1>3, <2>1, <2>2
<1>13. StackExact(stack')
  <2>1. stack'[1].command = None
    <3>1. CASE n = 2
      BY <1>2, <1>10, <1>12, <3>1 DEF StackExact, below
    <3>2. CASE n # 2
      BY <1>1, <1>2, <1>3, <1>12, <3>2 DEF StackExact
    <3>3. QED
      BY <3>1, <3>2
  <2>2. Following(index, Len(stack') - 1, stack'[Len(stack')])
    <3>1. Len(stack') - 1 = n - 2
      BY <1>3, <1>12
    <3>2. QED
      BY <1>11, <1>12, <3>1
  <2>3. ASSUME NEW i \in 1..(Len(stack') - 1)
        PROVE  Awaiting(index, i - 1, stack'[i], stack'[i + 1].command)
    <3>1. i \in 1..(n - 2) /\ i \in 1..(n - 1) /\ stack'[i] = stack[i]
      BY <1>3, <1>12
    <3>2. stack'[i + 1].command = stack[i + 1].command
      <4>1. CASE i + 1 = n - 1
        BY <1>10, <1>12, <4>1 DEF below
      <4>2. CASE i + 1 # n - 1
        <5>1. i + 1 \in 1..(n - 2)
          BY <1>3, <3>1, <4>2
        <5>2. QED
          BY <1>12, <5>1
      <4>3. QED
        BY <4>1, <4>2
    <3>3. Awaiting(index, i - 1, stack[i], stack[i + 1].command)
      BY <1>2, <3>1 DEF StackExact
    <3>4. QED
      BY <3>1, <3>2, <3>3
  <2>4. QED
    BY <2>1, <2>2, <2>3 DEF StackExact
<1>14. \A k \in DOMAIN traces' : TraceExact(k, traces'[k])
  <2>1. \A k \in DOMAIN traces : TraceExact(k, traces[k])
    BY DEF Exactly
  <2>2. TraceExact(key, Conclusion(Top))
    <3>1. key[1] = Context /\ key[2] = p /\ key[3] = Depth - 1
      BY DEF TraceKey
    <3>2. Conclusion(Top).found = Top.found /\ Conclusion(Top).relied = Top.relied
      BY DEF Conclusion
    <3>3. key[3] + 1 = n - 1
      BY <1>3, <3>1
    <3> HIDE DEF key
    <3>4. QED
      BY <1>8, <3>1, <3>2, <3>3 DEF TraceExact
  <2> HIDE DEF key
  <2>3. \A k \in DOMAIN traces' : IF k = key THEN traces'[k] = Conclusion(Top)
                                  ELSE k \in DOMAIN traces /\ traces'[k] = traces[k]
    BY <1>1 DEF Cached
  <2>4. QED
    BY <2>1, <2>2, <2>3
<1>15. QED
  BY <1>1, <1>13, <1>14, ExactStep

LEMMA BeginWalkExact ==
    ASSUME EvaluationInv, Exactly, BeginWalk
    PROVE  Exactly'
<1> DEFINE frame == Frame(None, <<Source>>)
           index == Index(Context)
<1>1. /\ stack' = <<frame>> /\ job.left # <<>>
      /\ UNCHANGED <<request, surfaces, phase, checks, twice, job, traces, results>>
  BY DEF BeginWalk, Sourcing
<1>2. /\ frame.command = None /\ frame.left = <<Source>> /\ frame.found = {} /\ frame.relied = {}
  BY DEF Frame
<1>3. ToSet(<<Source>>) = {Source}
  BY DEF ToSet
<1>4. Following(index, 0, frame)
  <2>1. {} \cup ToSet(frame.left) = Named(frame.command)
    BY <1>2, <1>3 DEF Named
  <2>2. frame.found = FindsAll(index, 0, frame.command, {}) /\ frame.relied = ReliesAll(index, 0, frame.command, {})
    BY <1>2 DEF FindsAll, ReliesAll
  <2>3. {} \in SUBSET File
    OBVIOUS
  <2> HIDE DEF frame, index
  <2>4. QED
    BY <2>1, <2>2, <2>3 DEF Following
<1> HIDE DEF frame
<1>5. Len(<<frame>>) = 1 /\ <<frame>>[1] = frame /\ <<frame>> # <<>> /\ 1 - 1 = 0 /\ 1..0 = {}
  OBVIOUS
<1>6. StackExact(<<frame>>)
  BY <1>2, <1>4, <1>5 DEF StackExact
<1>7. \A key \in DOMAIN traces' : TraceExact(key, traces'[key])
  BY <1>1 DEF Exactly
<1>8. QED
  BY <1>1, <1>6, <1>7, ExactStep

\* Between walks there are the traces and the results.
LEMMA ExactBetween ==
    ASSUME EvaluationInv, Exactly,
           UNCHANGED <<log, prerequisites, materialized, traces>>, stack' = <<>>,
           checks \subseteq checks', \A c \in checks' \ checks : c.id[1] \notin {"input", "conflict"},
           \A key \in DOMAIN results' : ResultExact(key, results'[key])
    PROVE  Exactly'
<1>1. \A p : Needs(p)' = Needs(p) /\ Away(p)' = Away(p) /\ Valid(p)' = Valid(p)
  BY SameNeeds DEF EvaluationInv
<1>2. Invocations' = Invocations
  BY <1>1, SameSound
<1>3. /\ \A limit : Index(limit)' = Index(limit)
      /\ \A index, n, pair : /\ Told(index, n, pair)' = Told(index, n, pair)
                             /\ Passed(index, n, pair)' = Passed(index, n, pair)
      /\ \A index, n, c, done : /\ FindsAll(index, n, c, done)' = FindsAll(index, n, c, done)
                                /\ ReliesAll(index, n, c, done)' = ReliesAll(index, n, c, done)
  BY <1>1, <1>2, SameWalk
<1>4. StackExact(stack)'
  <2>1. Len(stack') = 0 /\ 1..(0 - 1) = {}
    OBVIOUS
  <2>2. QED
    BY <2>1 DEF StackExact
<1>5. (\A key \in DOMAIN traces : TraceExact(key, traces[key]))'
  BY <1>3, SameLog DEF Exactly, TraceExact
<1>6. (\A key \in DOMAIN results : ResultExact(key, results[key]))'
  BY <1>3 DEF ResultExact
<1>7. QED
  BY <1>4, <1>5, <1>6 DEF Exactly

\* The walk has concluded of the source.
LEMMA EndWalkExact ==
    ASSUME EvaluationInv, Exactly, EndWalk
    PROVE  Exactly'
<1> DEFINE index == Index(Context)
<1>1. /\ Len(stack) = 1 /\ Top.left = <<>> /\ stack # <<>> /\ stack' = <<>>
      /\ results' = Cached(results, Key, Conclusion(Top))
      /\ UNCHANGED <<request, surfaces, phase, checks, twice, traces>>
  BY DEF EndWalk
<1>2. UNCHANGED <<log, prerequisites, materialized, traces, checks>>
  BY <1>1 DEF request, surfaces
<1>3. /\ Depth = 0 /\ Top = stack[1] /\ Top.command = None
      /\ Following(index, 0, Top)
  BY <1>1, TopFollows DEF Exactly, StackExact
<1>4. ResultExact(Key, Conclusion(Top))
  <2>1. PICK done \in SUBSET File :
           /\ done \cup ToSet(Top.left) = Named(None)
           /\ Top.found = FindsAll(index, 0, None, done)
           /\ Top.relied = ReliesAll(index, 0, None, done)
    BY <1>3 DEF Following
  <2>2. done = {Source}
    BY <1>1, <2>1 DEF ToSet, Named
  <2>3. /\ Top.found = Told(index, 0, <<Source, None>>)
        /\ Top.relied = Passed(index, 0, <<Source, None>>)
    BY <2>1, <2>2 DEF FindsAll, ReliesAll, Finds, Relies, AtOrigin
  <2>4. Key[1] = Source /\ Key[2] = Context
    BY DEF Key
  <2>5. Conclusion(Top).found = Top.found /\ Conclusion(Top).relied = Top.relied
    BY DEF Conclusion
  <2>6. QED
    BY <2>3, <2>4, <2>5 DEF ResultExact
<1>5. \A key \in DOMAIN results' : IF key = Key THEN results'[key] = Conclusion(Top)
                                   ELSE key \in DOMAIN results /\ results'[key] = results[key]
  BY <1>1 DEF Cached
<1>6. \A key \in DOMAIN results' : ResultExact(key, results'[key])
  BY <1>4, <1>5 DEF Exactly
<1>7. QED
  BY <1>1, <1>2, <1>6, ExactBetween

\* Records say of the walks what is found, and nothing that inputs depend on.
LEMMA ExactRecords ==
    ASSUME EvaluationInv, Exactly,
           RecordBlocked \/ TakeOrigin \/ TakeResult \/ ConcludeRecord \/ ConcludeSummary
    PROVE  Exactly'
<1>1. stack = <<>> /\ UNCHANGED <<request, surfaces, walking>>
  BY DEF EvaluationInv, Staged, RecordBlocked, TakeOrigin, TakeResult, Sourcing, ConcludeRecord, ConcludeSummary,
         Evaluating
<1>2. UNCHANGED <<log, prerequisites, materialized, traces, results, stack>>
  BY <1>1 DEF request, surfaces, walking
<1>3. /\ checks \subseteq checks'
      /\ \A c \in checks' \ checks : c.id[1] \in {"finding", "evidence", "provenance", "summary"}
  <2>1. CASE RecordBlocked
    <3>1. \A id \in {EvidenceId(Record), ProvenanceId(Record)} :
             Blocked(id, {DataId(Of(Record))}).id[1] \in {"evidence", "provenance"}
      BY CheckFields, Kinds
    <3>2. QED
      BY <2>1, <3>1 DEF RecordBlocked
  <2>2. CASE TakeOrigin \/ TakeResult
    BY <2>2 DEF TakeOrigin, TakeResult
  <2>3. CASE ConcludeRecord
    <3> DEFINE e == Of(Record)
               named == {c \in checks : \E m \in ToSet(Sources(Record)) : <<e, m, c.id>> \in prerequisites}
               causes == {FindingId(f) : f \in job.found} \cup UNION {Withheld(p) : p \in job.relied}
               verdict(id, causing, otherwise) ==
                   IF causing = {} THEN Check(id, otherwise, {}) ELSE Blocked(id, causing)
               right == IF log.records[Record].right THEN "pass" ELSE "finding"
               first == verdict(EvidenceId(Record), Ids(named), right)
               second == verdict(ProvenanceId(Record), IF causes = {} THEN Ids(named) ELSE causes, "pass")
               found == {FindingCheck(f) : f \in job.found}
    <3>1. checks' = checks \cup found \cup {first, second}
      BY <2>3 DEF ConcludeRecord
    <3>2. \A id, causing, otherwise : verdict(id, causing, otherwise).id = id
      BY CheckFields
    <3>3. first.id[1] = "evidence" /\ second.id[1] = "provenance"
      <4> HIDE DEF verdict, named, causes, right
      <4>1. first.id = EvidenceId(Record) /\ second.id = ProvenanceId(Record)
        BY <3>2
      <4> HIDE DEF first, second
      <4>2. QED
        BY <4>1, Kinds
    <3>4. \A c \in found : c.id[1] = "finding"
      <4> TAKE c \in found
      <4>1. PICK f \in job.found : c = FindingCheck(f)
        OBVIOUS
      <4>2. c.id = FindingId(f)
        BY <4>1, FindingCheckFields
      <4>3. QED
        BY <4>2, Kinds
    <3> HIDE DEF found, first, second
    <3>5. QED
      BY <3>1, <3>3, <3>4
  <2>4. CASE ConcludeSummary
    <3> DEFINE ids == UNION {{EvidenceId(r), ProvenanceId(r)} : r \in {r \in log.cited : Full}}
               concluded(id) == IF OutcomeOf(id) = "pass" THEN Check(<<"summary", id>>, "pass", {})
                                ELSE Blocked(<<"summary", id>>, {id})
    <3>1. checks' = checks \cup {concluded(id) : id \in ids}
      BY <2>4 DEF ConcludeSummary
    <3>2. \A id : concluded(id).id[1] = "summary"
      BY CheckFields, Kinds
    <3> HIDE DEF concluded, ids
    <3>3. QED
      BY <3>1, <3>2
  <2>5. QED
    BY <2>1, <2>2, <2>3, <2>4
<1>4. \A key \in DOMAIN results' : ResultExact(key, results'[key])
  BY <1>2 DEF Exactly
<1>5. stack' = <<>> /\ \A c \in checks' \ checks : c.id[1] \notin {"input", "conflict"}
  BY <1>1, <1>2, <1>3
<1>6. QED
  BY <1>2, <1>3, <1>4, <1>5, ExactBetween

LEMMA NothingFollowed ==
    ASSUME stack = <<>>, traces = <<>>, results = <<>>
    PROVE  Exactly
<1>1. Len(stack) = 0 /\ 1..(0 - 1) = {} /\ DOMAIN traces = {} /\ DOMAIN results = {}
  OBVIOUS
<1>2. QED
  BY <1>1 DEF Exactly, StackExact

\* While entries are loaded nothing has been followed.
LEMMA ExactLoading ==
    ASSUME EvaluationInv, Open \/ Discover \/ Reach \/ LoadSupport \/ Finish
    PROVE  Exactly'
<1>1. stack' = <<>> /\ traces' = <<>> /\ results' = <<>>
  <2>1. CASE Open \/ Discover \/ Reach \/ LoadSupport
    <3>1. phase \in {"open", "discover", "close", "support"} /\ UNCHANGED walking
      BY <2>1 DEF Open, Discover, Reach, LoadSupport
    <3>2. QED
      BY <3>1 DEF EvaluationInv, Staged, walking
  <2>2. CASE Finish
    BY <2>2 DEF Finish
  <2>3. QED
    BY <2>1, <2>2
<1>2. Len(stack') = 0 /\ 1..(0 - 1) = {} /\ DOMAIN traces' = {} /\ DOMAIN results' = {}
  BY <1>1
<1>3. QED
  BY <1>1, <1>2 DEF Exactly, StackExact

LEMMA ExactStutter ==
    ASSUME EvaluationInv, Exactly, UNCHANGED vars
    PROVE  Exactly'
<1>1. UNCHANGED <<request, surfaces, phase, checks, twice, job, results, stack, traces>>
  BY DEF vars, walking
<1>2. StackExact(stack') /\ \A key \in DOMAIN traces' : TraceExact(key, traces'[key])
  BY <1>1 DEF Exactly
<1>3. QED
  BY <1>1, <1>2, ExactStep

LEMMA ExactNext ==
    ASSUME EvaluationInv, Exactly, [Next]_vars
    PROVE  Exactly'
<1>1. CASE MeetOrigin
  BY <1>1, MeetOriginExact
<1>2. CASE StopShort
  BY <1>2, StopShortExact
<1>3. CASE Replay
  BY <1>3, ReplayExact
<1>4. CASE Descend
  BY <1>4, DescendExact
<1>5. CASE Ascend
  BY <1>5, AscendExact
<1>6. CASE BeginWalk
  BY <1>6, BeginWalkExact
<1>7. CASE EndWalk
  BY <1>7, EndWalkExact
<1>8. CASE RecordBlocked \/ TakeOrigin \/ TakeResult \/ ConcludeRecord \/ ConcludeSummary
  BY <1>8, ExactRecords
<1>9. CASE Open \/ Discover \/ Reach \/ LoadSupport \/ Finish
  BY <1>9, ExactLoading
<1>10. CASE UNCHANGED vars
  BY <1>10, ExactStutter
<1>11. QED
  BY <1>1, <1>2, <1>3, <1>4, <1>5, <1>6, <1>7, <1>8, <1>9, <1>10 DEF Next

\* Whatever traces and results of other walks it used, each walk has concluded
\* what the levels of inputs above its evidence say, up to the bound, and has
\* relied on their producers (_walk_invocation, _record_provenance).
THEOREM WalksAlwaysExact == Spec => []WalksExact
<1>1. Init => Exactly
  BY NothingFollowed DEF Init
<1>2. EvaluationInv /\ Exactly /\ [Next]_vars => Exactly'
  BY ExactNext
<1>3. Exactly => WalksExact
  <2> SUFFICES ASSUME Exactly, NEW key \in DOMAIN results
               PROVE  LET index == Index(key[2])
                          level == Levels(Further(index), <<key[1], None>>)
                          faced == UNION {level[n] : n \in 0..MaxDepth}
                      IN  /\ results[key].found =
                                {Finding("deep", pair[1], {}) : pair \in level[MaxDepth + 1]}
                                \cup UNION {FoundAt(index, pair) : pair \in faced}
                          /\ results[key].relied = UNION {Sole(index, pair) : pair \in faced}
    BY DEF WalksExact
  <2>1. ResultExact(key, results[key])
    BY DEF Exactly
  <2>2. MaxDepth + 1 - 0 = MaxDepth + 1 /\ 0..MaxDepth - 0 = 0..MaxDepth
    BY DepthAssumption
  <2>3. QED
    BY <2>1, <2>2 DEF ResultExact, Told, Passed, Within
<1>4. QED
  BY <1>1, <1>2, <1>3, EvaluationAlways, PTL DEF Spec

=============================================================================
