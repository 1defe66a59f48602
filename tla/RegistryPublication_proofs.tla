--------------------- MODULE RegistryPublication_proofs ---------------------
(***************************************************************************)
(* Theorems about the publication of registries, for any commands, slots,  *)
(* files, entries, faults and kills:                                       *)
(*   - half-written registries carry a marker, and a marker is of a        *)
(*     publication that is not over (Inv, Ownership);                      *)
(*   - publications implement AtomicRegistries, lose no update and keep    *)
(*     every use resolved (AtomicInv, Sound).                              *)
(* The theorems exclude an interrupt from the keyboard of a data command,  *)
(* and the last two what a marker made while a lock is awaited would hide. *)
(***************************************************************************)
EXTENDS RegistryPublication, WellFoundedInduction, TLAPS

-----------------------------------------------------------------------------
(* Facts about the operators *)

\* Files, entries and markers are taken in their order, and there is a first.
LEMMA LeastIsMember ==
    ASSUME NEW S \in SUBSET Nat, S # {}
    PROVE  Least(S) \in S
<1>1. PICK x \in S : \A y \in S : ~ (<<y, x>> \in OpToRel(<, Nat))
  BY NatLessThanWellFounded, WFMin
<1>2. \A y \in S : ~ (y < x)
  BY <1>1 DEF OpToRel
<1>3. \A y \in S : x <= y
  BY <1>2
<1>4. QED
  BY <1>3 DEF Least

LEMMA FirstMarker ==
    ASSUME NEW S \in SUBSET Marker, S # {}
    PROVE  Least(S) \in S
<1>1. Marker \subseteq Nat
  BY RegistryAssumption DEF Marker, WholeLog
<1>2. QED
  BY <1>1, LeastIsMember

OwnFiles(c) == {FileOf[s] : s \in Owns(c)}

\* A command changes slots it owns only, to values a registry can hold.
LEMMA ApplyOwns ==
    ASSUME NEW c \in Command, NEW registry \in Registry
    PROVE  /\ Apply(c, registry) \in Registry
           /\ \A s \in Slot : Apply(c, registry)[s] # registry[s] => s \in Owns(c)
<1> DEFINE after == Apply(c, registry)
<1>0. IsOperation(Op[c])
  BY RegistryAssumption
<1>1. ASSUME NEW s \in Slot
      PROVE  /\ after[s] \in Value
             /\ after[s] # registry[s] => s \in Owns(c)
  <2>0. registry[s] \in Value /\ Absent \in Value
    BY DEF Registry, Value, Absent, Policy
  <2>1. CASE s \in DOMAIN Op[c].moves
    BY <1>0, <2>1 DEF IsOperation, Apply, Owns, Registry
  <2>2. CASE s \notin DOMAIN Op[c].moves /\ \E t \in DOMAIN Op[c].moves : Op[c].moves[t] = s
    BY <2>0, <2>2 DEF Apply, Owns
  <2>3. CASE /\ s \notin DOMAIN Op[c].moves
             /\ ~ \E t \in DOMAIN Op[c].moves : Op[c].moves[t] = s
             /\ s \in DOMAIN Op[c].sets
    <3>1. after[s] = IF Op[c].sets[s] = None THEN Absent
                     ELSE [registry[s] EXCEPT !.authority = Op[c].sets[s]]
      BY <2>3 DEF Apply
    <3>2. Op[c].sets[s] \in Authority \cup {None}
      BY <1>0, <2>3 DEF IsOperation
    <3>3. after[s] \in Value
      BY <2>0, <3>1, <3>2 DEF Value
    <3>4. QED
      BY <2>3, <3>3 DEF Owns
  <2>4. CASE /\ s \notin DOMAIN Op[c].moves
             /\ ~ \E t \in DOMAIN Op[c].moves : Op[c].moves[t] = s
             /\ s \notin DOMAIN Op[c].sets
    <3>1. after[s] = IF s \in DOMAIN Op[c].policy
                     THEN [registry[s] EXCEPT !.policy = Op[c].policy[s]]
                     ELSE registry[s]
      BY <2>4 DEF Apply
    <3>2. s \in DOMAIN Op[c].policy => Op[c].policy[s] \in Policy
      BY <1>0 DEF IsOperation
    <3>3. after[s] \in Value
      BY <2>0, <3>1, <3>2 DEF Value
    <3>4. QED
      BY <3>1, <3>3 DEF Owns
  <2>5. QED
    BY <2>1, <2>2, <2>3, <2>4
<1>2. after = [s \in Slot |-> after[s]]
  BY DEF Apply
<1>3. QED
  BY <1>1, <1>2 DEF Registry

\* One file of a registry replaced by that of another is a registry.
LEMMA InstallType ==
    ASSUME files \in Registry, NEW f, NEW image \in Registry
    PROVE  Install(f, image) \in Registry
BY DEF Install, Registry

-----------------------------------------------------------------------------
(* The inductive invariant *)

\* An entry is checked before its lock is taken, and files are left to replace
\* while a publication goes on.
Positions ==
    \A c \in Command :
        /\ pc[c] = "checked" => Missing(c) # {}
        /\ pc[c] \in {"marking", "writing"} => todo[c] # {}
        /\ todo[c] \subseteq OwnFiles(c)

\* A marker that a command made is there until the command removes it.
Markers ==
    /\ \A c \in Command : made[c] \subseteq marker
    /\ \A c, d \in Command : c # d => made[c] \cap made[d] = {}

\* A command that replaced some of its files only has all of its markers.
Publications ==
    \A c \in Command :
        /\ torn[c] \subseteq OwnFiles(c)
        /\ pc[c] \in {"writing", "undoing"} => Op[c].marks \subseteq made[c]
        /\ pc[c] = "undoing" => Op[c].kind # "run"
        /\ torn[c] # {} =>
            /\ pc[c] \in {"writing", "undoing", "repair", "dead"}
            /\ Op[c].kind # "run"
            /\ Op[c].marks \subseteq made[c]

Inv == TypeOK /\ Positions /\ Markers /\ Publications

LEMMA InitInv == Init => Inv
<1> SUFFICES ASSUME Init PROVE Inv
  OBVIOUS
<1>1. Initial \in Registry
  BY PublicationAssumption
<1>2. TypeOK
  BY <1>1 DEF Init, TypeOK, Ended
<1>3. Positions /\ Markers /\ Publications
  BY DEF Init, Positions, Markers, Publications
<1>4. QED
  BY <1>2, <1>3 DEF Inv

\* Leaving the locks with the publication as it is.
LEMMA LeaveKeepsInv ==
    ASSUME Inv, NEW c \in Command, NEW to \in Ended, Leave(c, to),
           UNCHANGED <<files, marker, phase, Image>>,
           torn[c] # {} => to \in {"repair", "dead"}
    PROVE  Inv'
<1>1. /\ pc' = [pc EXCEPT ![c] = to]
      /\ pc'[c] = to
      /\ \A d \in Command : d # c => pc'[d] = pc[d] /\ locked'[d] = locked[d]
      /\ UNCHANGED <<files, marker, phase, seen, before, todo, undo, torn, made>>
  BY DEF Leave, Image, Inv, TypeOK
<1>2. to \notin {"checked", "marking", "writing", "undoing"}
  BY DEF Ended
<1>3. TypeOK'
  BY <1>1 DEF Inv, TypeOK, Leave
<1>4. Positions'
  BY <1>1, <1>2 DEF Inv, Positions, Missing, Wanted
<1>5. Markers' /\ Publications'
  BY <1>1, <1>2 DEF Inv, Markers, Publications
<1>6. QED
  BY <1>3, <1>4, <1>5 DEF Inv

\* The end of a command whose publication is closed.
LEMMA EndKeepsInv ==
    ASSUME Inv, NEW c \in Command, NEW to \in Ended, End(c, to), torn[c] = {}
    PROVE  Inv'
<1>1. /\ pc' = [pc EXCEPT ![c] = to]
      /\ pc'[c] = to
      /\ \A d \in Command : d # c => pc'[d] = pc[d] /\ locked'[d] = locked[d] /\ todo'[d] = todo[d]
      /\ todo'[c] = {}
      /\ UNCHANGED <<files, marker, phase, undo, torn, made>>
  BY DEF End, Leave, Inv, TypeOK
<1>2. to \notin {"checked", "marking", "writing", "undoing"}
  BY DEF Ended
<1>3. Initial \in Registry
  BY PublicationAssumption
<1>4. TypeOK'
  BY <1>1, <1>3 DEF Inv, TypeOK, End, Leave
<1>5. Positions'
  BY <1>1, <1>2 DEF Inv, Positions, Missing, Wanted
<1>6. Markers' /\ Publications'
  BY <1>1, <1>2 DEF Inv, Markers, Publications
<1>7. QED
  BY <1>4, <1>5, <1>6 DEF Inv

LEMMA RefuseKeepsInv ==
    ASSUME Inv, NEW c \in Command, Refuse(c), pc[c] \in {"idle", "entering", "checked"}
    PROVE  Inv'
<1>1. torn[c] = {}
  BY DEF Inv, Publications
<1>2. QED
  BY <1>1, EndKeepsInv DEF Refuse, Ended

-----------------------------------------------------------------------------
(* Every step keeps the invariant *)

\* Locks and preparation.
LEMMA LockingKeepsInv ==
    ASSUME Inv, NEW c \in Command,
           TakeSharedLog(c) \/ CheckEntry(c) \/ TakeEntry(c)
               \/ TakeExclusiveLog(c) \/ Prepare(c) \/ GiveUp(c)
    PROVE  Inv'
<1>1. CASE GiveUp(c)
  BY <1>1, RefuseKeepsInv DEF GiveUp, Locked
<1>2. CASE CheckEntry(c) /\ ~ Refuse(c)
  <2>1. /\ pc[c] = "entering" /\ Missing(c) # {}
        /\ pc' = [pc EXCEPT ![c] = "checked"]
        /\ UNCHANGED <<files, marker, artifact, phase, log, locked, seen, before, todo, undo, torn, made>>
    BY <1>2 DEF CheckEntry, Image
  <2>2. TypeOK'
    BY <2>1 DEF Inv, TypeOK
  <2>3. Positions' /\ Markers' /\ Publications'
    BY <2>1 DEF Inv, TypeOK, Positions, Markers, Publications, Missing, Wanted
  <2>4. QED
    BY <2>2, <2>3 DEF Inv
<1>3. CASE TakeEntry(c)
  <2>1. Missing(c) # {} /\ Missing(c) \subseteq Entry
    BY <1>3, RegistryAssumption DEF TakeEntry, Inv, Positions, Missing, Wanted, IsOperation
  <2>2. Entry \subseteq Nat
    BY RegistryAssumption
  <2>3. NextLock(c) \in Entry
    BY <2>1, <2>2, LeastIsMember DEF NextLock
  <2>4. TypeOK'
    BY <1>3, <2>3 DEF TakeEntry, Image, Inv, TypeOK
  <2>5. Positions' /\ Markers' /\ Publications'
    BY <1>3 DEF TakeEntry, Image, Inv, TypeOK, Positions, Markers, Publications, Missing, Wanted
  <2>6. QED
    BY <2>4, <2>5 DEF Inv
<1>4. CASE (TakeSharedLog(c) \/ TakeExclusiveLog(c)) /\ ~ Refuse(c)
  <2>1. /\ pc[c] = "idle"
        /\ pc' = [pc EXCEPT ![c] = "entering"]
        /\ \/ log' = [log EXCEPT ![c] = "shared"] /\ UNCHANGED locked
           \/ /\ log' = [log EXCEPT ![c] = "exclusive"]
              /\ locked' = [locked EXCEPT ![c] = Op[c].locks]
        /\ UNCHANGED <<files, marker, artifact, phase, seen, before, todo, undo, torn, made>>
    BY <1>4 DEF TakeSharedLog, TakeExclusiveLog, Image
  <2>2. Op[c].locks \subseteq Entry
    BY RegistryAssumption DEF IsOperation
  <2>3. TypeOK'
    BY <2>1, <2>2 DEF Inv, TypeOK
  <2>4. Positions' /\ Markers' /\ Publications'
    BY <2>1 DEF Inv, TypeOK, Positions, Markers, Publications, Missing, Wanted
  <2>5. QED
    BY <2>3, <2>4 DEF Inv
<1>5. CASE Prepare(c) /\ ~ Refuse(c)
  <2>1. /\ pc[c] = "entering"
        /\ pc' = [pc EXCEPT ![c] = "idle"]
        /\ log' = [log EXCEPT ![c] = "none"]
        /\ locked' = [locked EXCEPT ![c] = {}]
        /\ artifact' \in {artifact, None}
        /\ phase' = [phase EXCEPT ![c] = "finish"]
        /\ seen' = [seen EXCEPT ![c] = files]
        /\ UNCHANGED <<files, marker, before, todo, undo, torn, made>>
    BY <1>5 DEF Prepare, Leave
  <2>2. TypeOK'
    BY <2>1 DEF Inv, TypeOK
  <2>3. Positions' /\ Markers' /\ Publications'
    BY <2>1 DEF Inv, TypeOK, Positions, Markers, Publications, Missing, Wanted
  <2>4. QED
    BY <2>2, <2>3 DEF Inv
<1>6. CASE Refuse(c)
  <2>1. pc[c] \in {"idle", "entering", "checked"}
    BY DEF TakeSharedLog, CheckEntry, TakeEntry, TakeExclusiveLog, Prepare, GiveUp, Locked
  <2>2. QED
    BY <1>6, <2>1, RefuseKeepsInv
<1>7. QED
  BY <1>1, <1>2, <1>3, <1>4, <1>5, <1>6

\* The merge decides which files the command replaces, all of them its own.
LEMMA MergeKeepsInv ==
    ASSUME Inv, NEW c \in Command, Merge(c)
    PROVE  Inv'
<1> DEFINE image == Merged(c, files)
<1>1. pc[c] = "entering"
  BY DEF Merge, Locked
<1>2. CASE Refuse(c) \/ End(c, "done")
  BY <1>1, <1>2, RefuseKeepsInv, EndKeepsInv DEF Inv, Publications, Ended
<1>3. CASE ~ Refuse(c) /\ ~ End(c, "done")
  <2>1. /\ image # files
        /\ artifact' = c
        /\ before' = [before EXCEPT ![c] = files]
        /\ todo' = [todo EXCEPT ![c] = {FileOf[s] : s \in {t \in Slot : files[t] # image[t]}}]
        /\ pc' = [pc EXCEPT ![c] = "marking"]
        /\ UNCHANGED <<files, marker, phase, log, locked, seen, undo, torn, made>>
    BY <1>3 DEF Merge
  <2>2. /\ files \in Registry /\ image \in Registry
        /\ \A s \in Slot : image[s] # files[s] => s \in Owns(c)
    BY ApplyOwns DEF Inv, TypeOK, Merged
  <2>3. \E t \in Slot : files[t] # image[t]
    BY <2>1, <2>2 DEF Registry
  <2>4. /\ todo'[c] = {FileOf[s] : s \in {t \in Slot : files[t] # image[t]}}
        /\ \A d \in Command : d # c => todo'[d] = todo[d]
    BY <2>1 DEF Inv, TypeOK
  <2>5. todo'[c] \subseteq OwnFiles(c) /\ todo'[c] # {}
    BY <2>2, <2>3, <2>4 DEF OwnFiles
  <2>6. todo'[c] \subseteq File
    BY <2>4, RegistryAssumption
  <2>7. TypeOK'
    BY <2>1, <2>2, <2>6 DEF Inv, TypeOK
  <2>8. Positions' /\ Markers' /\ Publications'
    BY <1>1, <2>1, <2>4, <2>5 DEF Inv, TypeOK, Positions, Markers, Publications, Missing, Wanted
  <2>9. QED
    BY <2>7, <2>8 DEF Inv
<1>4. QED
  BY <1>2, <1>3

\* Markers are made before the first file is replaced and removed only while no
\* file is torn.
LEMMA MarkingKeepsInv ==
    ASSUME Inv, NEW c \in Command,
           Mark(c) \/ MarkFails(c) \/ AllMarked(c) \/ Clear(c) \/ ClearFails(c)
    PROVE  Inv'
<1> DEFINE m == Least(Unmade(c))
           n == Least(made[c])
<1>1. torn[c] = {} /\ pc[c] \in {"marking", "clearing"}
  BY DEF Inv, Publications, Mark, MarkFails, AllMarked, Clear, ClearFails
<1>2. Unmade(c) # {} => m \in Unmade(c) /\ m \in Marker /\ m \notin made[c]
  <2>1. Unmade(c) \in SUBSET Marker
    BY RegistryAssumption DEF Unmade, IsOperation
  <2>2. QED
    BY <2>1, FirstMarker DEF Unmade
<1>3. made[c] # {} => n \in made[c]
  BY FirstMarker DEF Inv, TypeOK
<1>4. CASE Mark(c) /\ m \notin marker
  <2>1. /\ m \in Marker
        /\ marker' = marker \cup {m}
        /\ made' = [made EXCEPT ![c] = @ \cup {m}]
        /\ UNCHANGED <<files, artifact, pc, phase, log, locked, seen, before, todo, undo, torn>>
    BY <1>2, <1>4 DEF Mark
  <2>2. TypeOK'
    BY <2>1 DEF Inv, TypeOK
  <2>3. Positions' /\ Publications'
    BY <1>1, <2>1 DEF Inv, TypeOK, Positions, Publications, Missing, Wanted
  <2>4. Markers'
    BY <1>4, <2>1 DEF Inv, TypeOK, Markers
  <2>5. QED
    BY <2>2, <2>3, <2>4 DEF Inv
<1>5. CASE /\ Mark(c) \/ MarkFails(c) \/ AllMarked(c)
           /\ UNCHANGED <<marker, made>>
  <2>1. /\ pc[c] = "marking"
        /\ \/ pc' = [pc EXCEPT ![c] = "clearing"]
           \/ pc' = [pc EXCEPT ![c] = "writing"] /\ Unmade(c) = {}
        /\ UNCHANGED <<files, marker, artifact, phase, log, locked, seen, before, todo, undo, torn, made>>
    <3>1. CASE MarkFails(c)
      <4>1. made'[c] # {m} \/ m \in made[c]
        BY <1>5
      <4>2. ~ (made' = [made EXCEPT ![c] = {m}])
        BY <1>2, <3>1, <4>1 DEF MarkFails, Inv, TypeOK
      <4>3. QED
        BY <3>1, <4>2 DEF MarkFails, Image
    <3>2. CASE Mark(c)
      <4>1. m \in made'[c] => m \in made[c]
        BY <1>5
      <4>2. ~ (made' = [made EXCEPT ![c] = @ \cup {m}])
        BY <1>2, <3>2, <4>1 DEF Mark, Inv, TypeOK
      <4>3. QED
        BY <3>2, <4>2 DEF Mark, Image
    <3>3. CASE AllMarked(c)
      BY <3>3 DEF AllMarked, Image
    <3>4. QED
      BY <1>5, <3>1, <3>2, <3>3
  <2>2. TypeOK'
    BY <2>1 DEF Inv, TypeOK
  <2>3. Positions' /\ Markers' /\ Publications'
    BY <1>1, <2>1 DEF Inv, TypeOK, Positions, Markers, Publications, Missing, Wanted, Unmade
  <2>4. QED
    BY <2>2, <2>3 DEF Inv
<1>6. CASE MarkFails(c) /\ ~ UNCHANGED <<marker, made>>
  <2>1. /\ m \in Marker /\ m \notin marker /\ m \notin made[c]
        /\ marker' = (marker \cup {m}) \ made[c]
        /\ made' = [made EXCEPT ![c] = {m}]
        /\ Leave(c, "repair")
        /\ UNCHANGED <<files, phase, seen, before, todo, undo, torn>>
    BY <1>2, <1>6 DEF MarkFails, Image
  <2>2. pc' = [pc EXCEPT ![c] = "repair"] /\ locked' = [locked EXCEPT ![c] = {}]
    BY <2>1 DEF Leave
  <2>3. TypeOK'
    BY <2>1 DEF Inv, TypeOK, Leave, Ended
  <2>4. Positions' /\ Publications'
    BY <1>1, <2>1, <2>2 DEF Inv, TypeOK, Positions, Publications, Missing, Wanted
  <2>5. Markers'
    BY <2>1 DEF Inv, TypeOK, Markers
  <2>6. QED
    BY <2>3, <2>4, <2>5 DEF Inv
<1>7. CASE Clear(c) \/ ClearFails(c)
  <2>1. /\ \/ UNCHANGED <<marker, made>>
           \/ /\ marker' = marker \ {n}
              /\ made' = [made EXCEPT ![c] = @ \ {n}]
        /\ \/ UNCHANGED <<artifact, pc, log, locked>>
           \/ \E to \in {"failed", "repair"} : Leave(c, to)
        /\ made[c] # {}
        /\ UNCHANGED <<files, phase, seen, before, todo, undo, torn>>
    BY <1>7 DEF Clear, ClearFails
  <2>2. /\ \/ UNCHANGED pc
           \/ \E to \in {"failed", "repair"} : pc' = [pc EXCEPT ![c] = to]
        /\ \A d \in Command : d # c => locked'[d] = locked[d]
    BY <2>1 DEF Leave, Inv, TypeOK
  <2>3. TypeOK'
    BY <2>1 DEF Inv, TypeOK, Leave, Ended
  <2>4. Positions' /\ Publications'
    BY <1>1, <2>1, <2>2 DEF Inv, TypeOK, Positions, Publications, Missing, Wanted, Clear, ClearFails
  <2>5. Markers'
    BY <1>3, <2>1 DEF Inv, TypeOK, Markers
  <2>6. QED
    BY <2>3, <2>4, <2>5 DEF Inv
<1>8. CASE Mark(c) /\ m \in marker
  BY <1>5, <1>8 DEF Mark, Image
<1>9. QED
  BY <1>4, <1>5, <1>6, <1>7, <1>8 DEF AllMarked, Image

\* Files are replaced and restored while all the markers are there; a command
\* whose files are all replaced, or all restored, is not torn.
LEMMA WritingKeepsInv ==
    ASSUME Inv, NEW c \in Command, Write(c) \/ WriteFails(c) \/ Undo(c) \/ Undone(c)
    PROVE  Inv'
<1> DEFINE f == Least(todo[c])
           g == Greatest(undo[c])
<1>1. /\ Op[c].marks \subseteq made[c]
      /\ pc[c] \in {"writing", "undoing"}
  BY DEF Write, WriteFails, Undo, Undone, Inv, Publications
<1>2. pc[c] = "writing" => f \in todo[c] /\ f \in File /\ f \in OwnFiles(c)
  <2>1. todo[c] \in SUBSET Nat
    BY RegistryAssumption DEF Inv, TypeOK
  <2>2. QED
    BY <2>1, LeastIsMember DEF Inv, TypeOK, Positions
<1>3. After(c) \in Registry /\ before[c] \in Registry /\ files \in Registry
  BY ApplyOwns DEF After, Merged, Inv, TypeOK
<1>4. CASE Write(c)
  <2>1. Op[c].kind = "run" => todo[c] = {f}
    <3>1. Op[c].kind = "run" => \A x, y \in OwnFiles(c) : x = y
      BY RegistryAssumption DEF OwnFiles
    <3>2. QED
      BY <1>2, <1>4, <3>1 DEF Write, Inv, Positions
  <2>2. files' \in Registry
    BY <1>3, <1>4, InstallType DEF Write
  <2>3. /\ pc[c] = "writing"
        /\ todo' = [todo EXCEPT ![c] = @ \ {f}]
        /\ undo' = [undo EXCEPT ![c] = IF todo[c] = {f} THEN {} ELSE @ \cup {f}]
        /\ torn' = [torn EXCEPT ![c] = IF todo[c] = {f} THEN {} ELSE @ \cup {f}]
        /\ pc' = [pc EXCEPT ![c] = IF todo[c] = {f} THEN "clearing" ELSE @]
        /\ UNCHANGED <<marker, artifact, phase, log, locked, seen, before, made>>
    BY <1>4 DEF Write
  <2>4. TypeOK'
    BY <1>2, <2>2, <2>3 DEF Inv, TypeOK
  <2>5. Positions'
    BY <1>2, <2>3 DEF Inv, TypeOK, Positions, Missing, Wanted
  <2>6. Markers'
    BY <2>3 DEF Inv, Markers
  <2>7. Publications'
    BY <1>1, <1>2, <2>1, <2>3 DEF Inv, TypeOK, Publications
  <2>8. QED
    BY <2>4, <2>5, <2>6, <2>7 DEF Inv
<1>5. CASE WriteFails(c) /\ Op[c].kind # "run"
  <2>1. files' \in Registry
    BY <1>3, <1>5, InstallType DEF WriteFails
  <2>2. /\ pc[c] = "writing"
        /\ pc' = [pc EXCEPT ![c] = "undoing"]
        /\ undo' = [undo EXCEPT ![c] = @ \cup {f}]
        /\ torn' = [torn EXCEPT ![c] = @ \cup {f}]
        /\ UNCHANGED <<artifact, log, locked, marker, phase, seen, before, todo, made>>
    BY <1>5 DEF WriteFails
  <2>3. TypeOK'
    BY <1>2, <2>1, <2>2 DEF Inv, TypeOK
  <2>4. Positions' /\ Markers'
    BY <2>2 DEF Inv, TypeOK, Positions, Markers, Missing, Wanted
  <2>5. Publications'
    BY <1>1, <1>2, <1>5, <2>2 DEF Inv, TypeOK, Publications
  <2>6. QED
    BY <2>3, <2>4, <2>5 DEF Inv
<1>6. CASE WriteFails(c) /\ Op[c].kind = "run"
  <2>1. files' \in Registry
    BY <1>3, <1>6, InstallType DEF WriteFails
  <2>2. /\ pc' = [pc EXCEPT ![c] = "failed"]
        /\ locked' = [locked EXCEPT ![c] = {}]
        /\ Leave(c, "failed")
        /\ UNCHANGED <<marker, phase, seen, before, todo, undo, torn, made>>
    BY <1>6 DEF WriteFails, Leave
  <2>3. torn[c] = {}
    BY <1>6 DEF Inv, Publications
  <2>4. TypeOK'
    BY <2>1, <2>2 DEF Inv, TypeOK, Leave, Ended
  <2>5. Positions' /\ Markers' /\ Publications'
    BY <2>2, <2>3 DEF Inv, TypeOK, Positions, Markers, Publications, Missing, Wanted
  <2>6. QED
    BY <2>4, <2>5 DEF Inv
<1>7. CASE Undo(c)
  <2>1. files' \in Registry
    BY <1>3, <1>7, InstallType DEF Undo
  <2>2. /\ undo' = [undo EXCEPT ![c] = @ \ {g}]
        /\ torn' = [torn EXCEPT ![c] = @ \ {g}] \/ UNCHANGED torn
        /\ pc[c] = "undoing"
        /\ UNCHANGED <<marker, artifact, pc, phase, log, locked, seen, before, todo, made>>
    BY <1>7 DEF Undo
  <2>3. TypeOK'
    BY <2>1, <2>2 DEF Inv, TypeOK
  <2>4. Positions' /\ Markers' /\ Publications'
    BY <2>2 DEF Inv, TypeOK, Positions, Markers, Publications, Missing, Wanted
  <2>5. QED
    BY <2>3, <2>4 DEF Inv
<1>8. CASE Undone(c) /\ torn[c] # {}
  BY <1>8, LeaveKeepsInv DEF Undone, Ended
<1>9. CASE Undone(c) /\ torn[c] = {}
  <2>1. /\ pc' = [pc EXCEPT ![c] = "clearing"]
        /\ UNCHANGED <<artifact, log, locked, files, marker, phase, seen, before, todo, undo, torn, made>>
    BY <1>9 DEF Undone, Image
  <2>2. TypeOK'
    BY <2>1 DEF Inv, TypeOK
  <2>3. Positions' /\ Markers' /\ Publications'
    BY <1>9, <2>1 DEF Inv, TypeOK, Positions, Markers, Publications, Missing, Wanted
  <2>4. QED
    BY <2>2, <2>3 DEF Inv
<1>10. QED
  BY <1>4, <1>5, <1>6, <1>7, <1>8, <1>9

\* An interrupt that removes the markers of a data command is excluded.
NoDataInterrupt == \A c \in Interruptible : Op[c].kind # "data"

LEMMA EndingKeepsInv ==
    ASSUME Inv, NoDataInterrupt, NEW c \in Command, Finish(c) \/ Die(c) \/ Interrupt(c)
    PROVE  Inv'
<1>1. CASE Finish(c)
  BY <1>1, EndKeepsInv DEF Finish, Outcome, Ended, Inv, Publications
<1>2. CASE Die(c) \/ Interrupt(c)
  BY <1>2, LeaveKeepsInv DEF Die, Interrupt, NoDataInterrupt, Ended, Image
<1>3. QED
  BY <1>1, <1>2

LEMMA NextKeepsInv ==
    ASSUME NoDataInterrupt, Inv, [Next]_vars
    PROVE  Inv'
<1>1. ASSUME NEW c \in Command, Step(c) \/ GiveUp(c) \/ Fault(c)
      PROVE  Inv'
  BY <1>1, LockingKeepsInv, MergeKeepsInv, MarkingKeepsInv, WritingKeepsInv, EndingKeepsInv
     DEF Step, Fault
<1>2. CASE UNCHANGED vars
  BY <1>2 DEF vars, local, Inv, TypeOK, Positions, Markers, Publications, Missing, Wanted
<1>3. QED
  BY <1>1, <1>2 DEF Next

\* The marker of a torn file is one that its command made.
LEMMA InvMarksTorn ==
    ASSUME Inv
    PROVE  TornIsMarked
<1> SUFFICES ASSUME NEW s \in Slot, files[s] # Visible[s]
             PROVE  marker \cap {EntryOf[FileOf[s]], WholeLog} # {}
  BY DEF TornIsMarked
<1>1. ~ \A c \in Command : torn[c] = {}
  BY DEF Visible
<1>2. Visible[s] = IF \E c \in Command : FileOf[s] \in torn[c]
                   THEN before[CHOOSE c \in Command : FileOf[s] \in torn[c]][s]
                   ELSE files[s]
  BY <1>1 DEF Visible
<1>3. PICK c \in Command : FileOf[s] \in torn[c]
  BY <1>2
<1>4. Op[c].kind # "run" /\ Op[c].marks \subseteq marker
  BY <1>3 DEF Inv, Publications, Markers
<1>5. PICK t \in Owns(c) : FileOf[t] = FileOf[s]
  BY <1>3 DEF Inv, Publications, OwnFiles
<1>6. EntryOf[FileOf[t]] \in Op[c].marks \/ WholeLog \in Op[c].marks
  BY <1>4, RegistryAssumption DEF Marked
<1>7. QED
  BY <1>4, <1>5, <1>6

-----------------------------------------------------------------------------
(* Whose a marker is *)

\* Removal of the marker of a relocation that failed looks in the wrong place.
NoRelocation == \A c \in Command : Op[c].kind # "relocate"

Unfinished == {"marking", "writing", "undoing", "clearing", "repair", "dead"}

Ownership ==
    /\ \A m \in marker : \E c \in Command : m \in made[c]
    /\ \A c \in Command :
        /\ made[c] \subseteq Op[c].marks
        /\ made[c] # {} => pc[c] \in Unfinished

\* A step that makes and removes no marker and ends no unfinished publication.
LEMMA SameMarkersKeepOwnership ==
    ASSUME Ownership, UNCHANGED <<marker, made>>,
           \A c \in Command : made[c] # {} => pc'[c] \in Unfinished
    PROVE  Ownership'
BY DEF Ownership

LEMMA StepKeepsOwnership ==
    ASSUME Inv, Ownership, NoDataInterrupt, NoRelocation,
           NEW c \in Command, Step(c) \/ GiveUp(c) \/ Fault(c)
    PROVE  Ownership'
<1> DEFINE m == Least(Unmade(c))
           n == Least(made[c])
<1>1. CASE \/ TakeSharedLog(c) \/ CheckEntry(c) \/ TakeEntry(c) \/ TakeExclusiveLog(c)
           \/ Prepare(c) \/ Merge(c) \/ GiveUp(c)
  <2>1. /\ UNCHANGED <<marker, made>>
        /\ \A d \in Command : d # c => pc'[d] = pc[d]
        /\ pc[c] \in {"idle", "entering", "checked"}
    BY <1>1 DEF TakeSharedLog, CheckEntry, TakeEntry, TakeExclusiveLog, Prepare, Merge,
       GiveUp, Locked, Refuse, End, Leave, Image, Inv, TypeOK
  <2>2. made[c] = {}
    BY <2>1 DEF Ownership, Unfinished
  <2>3. QED
    BY <2>1, <2>2, SameMarkersKeepOwnership DEF Ownership
<1>2. CASE Mark(c) \/ AllMarked(c) \/ MarkFails(c)
  <2>1. \/ /\ UNCHANGED <<marker, made>>
           /\ \E to \in {"clearing", "writing"} : pc' = [pc EXCEPT ![c] = to]
        \/ /\ marker' = marker \cup {m} /\ made' = [made EXCEPT ![c] = @ \cup {m}]
           /\ UNCHANGED pc /\ pc[c] = "marking" /\ m \in Unmade(c)
        \/ /\ marker' = (marker \cup {m}) \ made[c] /\ made' = [made EXCEPT ![c] = {m}]
           /\ pc' = [pc EXCEPT ![c] = "repair"] /\ m \in Unmade(c)
    <3>1. Unmade(c) \in SUBSET Marker
      BY RegistryAssumption DEF Unmade, IsOperation
    <3>2. Unmade(c) # {} => m \in Unmade(c)
      BY <3>1, FirstMarker
    <3>3. QED
      BY <1>2, <3>2 DEF Mark, AllMarked, MarkFails, Leave, Image
  <2>2. /\ \A d \in Command : d # c => made'[d] = made[d] /\ pc'[d] = pc[d]
        /\ made'[c] \subseteq Op[c].marks
        /\ made'[c] # {} => pc'[c] \in Unfinished
    <3>1. m \in Unmade(c) => m \in Op[c].marks
      BY DEF Unmade
    <3>2. made[c] \subseteq Op[c].marks
      BY DEF Ownership
    <3>3. QED
      BY <2>1, <3>1, <3>2 DEF Inv, TypeOK, Unfinished
  <2>3. \A x \in marker' : \E d \in Command : x \in made'[d]
    <3>1. \A x \in marker : \E d \in Command : x \in made[d]
      BY DEF Ownership
    <3>2. CASE UNCHANGED <<marker, made>>
      BY <3>1, <3>2
    <3>3. CASE marker' = marker \cup {m} /\ made' = [made EXCEPT ![c] = @ \cup {m}]
      BY <3>1, <3>3 DEF Inv, TypeOK
    <3>4. CASE marker' = (marker \cup {m}) \ made[c] /\ made' = [made EXCEPT ![c] = {m}]
      BY <3>1, <3>4 DEF Inv, TypeOK
    <3>5. QED
      BY <2>1, <3>2, <3>3, <3>4
  <2>4. QED
    BY <2>2, <2>3 DEF Ownership
<1>3. CASE Write(c) \/ WriteFails(c) \/ Undo(c) \/ Undone(c)
  <2>1. /\ UNCHANGED <<marker, made>>
        /\ \A d \in Command : d # c => pc'[d] = pc[d]
        /\ pc'[c] \in Unfinished \/ Op[c].kind = "run"
    BY <1>3 DEF Write, WriteFails, Undo, Undone, Leave, Image, Inv, TypeOK, Unfinished
  <2>2. Op[c].kind = "run" => made[c] = {}
    BY RegistryAssumption DEF Ownership
  <2>3. QED
    BY <2>1, <2>2, SameMarkersKeepOwnership DEF Ownership
<1>4. CASE Clear(c) \/ ClearFails(c)
  <2>1. /\ pc[c] = "clearing" /\ made[c] # {}
        /\ \/ UNCHANGED <<marker, made>>
           \/ marker' = marker \ {n} /\ made' = [made EXCEPT ![c] = @ \ {n}]
        /\ UNCHANGED pc \/ pc' = [pc EXCEPT ![c] = "repair"]
    BY <1>4 DEF Clear, ClearFails, Leave, NoRelocation
  <2>2. n \in made[c]
    BY <2>1, FirstMarker DEF Inv, TypeOK
  <2>3. QED
    BY <2>1, <2>2 DEF Ownership, Inv, TypeOK, Unfinished
<1>5. CASE Finish(c) \/ Die(c) \/ Interrupt(c)
  <2>1. /\ UNCHANGED <<marker, made>>
        /\ \A d \in Command : d # c => pc'[d] = pc[d]
        /\ pc'[c] = "dead" \/ made[c] = {}
    BY <1>5 DEF Finish, Die, Interrupt, NoDataInterrupt, End, Leave, Image, Inv, TypeOK
  <2>2. QED
    BY <2>1, SameMarkersKeepOwnership DEF Ownership, Unfinished
<1>6. QED
  BY <1>1, <1>2, <1>3, <1>4, <1>5 DEF Step, Fault

-----------------------------------------------------------------------------
(* The theorems *)

\* The values of all variables stay within those the code writes.
THEOREM TypeAlways == ASSUME NoDataInterrupt PROVE Spec => []TypeOK
<1>1. Inv => TypeOK
  BY DEF Inv
<1>2. QED
  BY InitInv, NextKeepsInv, <1>1, PTL DEF Spec

\* Registry files that differ from what they held before an unfinished
\* publication carry a marker, over any kills, failed replacements and failed
\* rollbacks.
THEOREM TornAlwaysMarked == ASSUME NoDataInterrupt PROVE Spec => []TornIsMarked
<1>1. QED
  BY InitInv, NextKeepsInv, InvMarksTorn, PTL DEF Spec

\* Without relocations, a marker belongs to a publication in progress or to one
\* that was cut short: whatever was refused, completed or rolled back leaves none.
THEOREM MarkedAlwaysUnfinished ==
    ASSUME NoDataInterrupt, NoRelocation
    PROVE  Spec => []MarkedIsUnfinished
<1>1. Init => Ownership
  BY DEF Init, Ownership
<1>2. Inv /\ Ownership /\ [Next]_vars => Ownership'
  <2>1. ASSUME Inv, Ownership, NEW c \in Command, Step(c) \/ GiveUp(c) \/ Fault(c)
        PROVE  Ownership'
    BY <2>1, StepKeepsOwnership
  <2>2. ASSUME Ownership, UNCHANGED vars
        PROVE  Ownership'
    BY <2>2 DEF vars, local, Ownership
  <2>3. QED
    BY <2>1, <2>2 DEF Next
<1>3. Ownership => MarkedIsUnfinished
  BY DEF Ownership, Unfinished, MarkedIsUnfinished
<1>4. QED
  BY <1>1, <1>2, <1>3, InitInv, NextKeepsInv, PTL DEF Spec

-----------------------------------------------------------------------------
(* What a publication has for itself                                       *)

Active == {"marking", "writing", "undoing", "clearing"}

\* A position is held with the locks it needs: the exclusive log lock alone, or
\* the shared one with all entry locks, and artifact-reservations.lock.
Locks ==
    /\ \A c \in Command :
        /\ pc[c] \in {"idle"} \cup Ended => log[c] = "none" /\ locked[c] = {}
        /\ pc[c] \notin {"idle"} \cup Ended =>
            log[c] = IF Exclusive(c) THEN "exclusive" ELSE "shared"
        /\ pc[c] \in Active => artifact = c
        /\ pc[c] \in Active /\ ~ Exclusive(c) => Op[c].locks \subseteq locked[c]
    /\ \A c, d \in Command : c # d /\ log[c] = "exclusive" => log[d] = "none"

\* Whose markers there are. Those a relocation forgets are left by a failed one.
Makers ==
    \A c \in Command :
        /\ made[c] \subseteq Op[c].marks
        /\ made[c] # {} => pc[c] \in Active \cup {"repair", "dead", "failed"}
        /\ pc[c] \in {"undoing", "repair"} => c \in Faulty
        /\ pc[c] = "dead" => c \in Mortal \cup Interruptible
        /\ log[c] = "exclusive" => marker = made[c]

\* Entries that a command locked under the shared log lock, or is about to, have
\* no marker of a command that works alone.
Checked(c) == locked[c] \cup (IF pc[c] = "checked" THEN {NextLock(c)} ELSE {})

Vetted ==
    \A c, d \in Command : Exclusive(d) /\ ~ Exclusive(c) =>
        \A e \in Checked(c) : made[d] \cap {e, WholeLog} = {}

\* The files are as the command found them but for those it has replaced.
Contents ==
    \A c \in Command :
        /\ pc[c] \in {"marking", "writing", "undoing"} =>
            \A s \in Slot : FileOf[s] \notin torn[c] => files[s] = before[c][s]
        /\ pc[c] \in {"marking", "writing"} => \A s \in Slot :
            /\ FileOf[s] \in torn[c] => files[s] = After(c)[s]
            /\ FileOf[s] \notin torn[c] \cup todo[c] => After(c)[s] = before[c][s]
        /\ pc[c] \in {"marking", "writing"} /\ ~ Exclusive(c) =>
            \A s \in DOMAIN Op[c].sets :
                \/ before[c][s].authority = seen[c][s].authority
                \/ Op[c].kind = "sync" /\ before[c][s].authority = Op[c].sets[s]

Apart == \A c, d \in Command : c # d => torn[c] \cap torn[d] = {}

AtomicInv == Inv /\ Locks /\ Makers /\ Vetted /\ Contents /\ Apart
-----------------------------------------------------------------------------
(* Steps of one command                                                    *)

\* A step of a command leaves the position, locks and images of the others.
LEMMA Frame ==
    ASSUME TypeOK, NEW c \in Command, Step(c) \/ GiveUp(c) \/ Fault(c),
           NEW d \in Command, d # c
    PROVE  /\ pc'[d] = pc[d] /\ phase'[d] = phase[d]
           /\ log'[d] = log[d] /\ locked'[d] = locked[d]
           /\ seen'[d] = seen[d] /\ before'[d] = before[d] /\ todo'[d] = todo[d]
           /\ torn'[d] = torn[d] /\ made'[d] = made[d]
<1> DEFINE Same == /\ pc'[d] = pc[d] /\ phase'[d] = phase[d]
                   /\ log'[d] = log[d] /\ locked'[d] = locked[d]
                   /\ seen'[d] = seen[d] /\ before'[d] = before[d] /\ todo'[d] = todo[d]
                   /\ torn'[d] = torn[d] /\ made'[d] = made[d]
<1>1. ASSUME NEW to, Leave(c, to)
      PROVE  pc'[d] = pc[d] /\ log'[d] = log[d] /\ locked'[d] = locked[d]
  BY <1>1 DEF Leave, TypeOK
<1>2. CASE Refuse(c) \/ End(c, "done") \/ End(c, Outcome(c))
  BY <1>1, <1>2 DEF Refuse, End, TypeOK
<1>3. CASE TakeSharedLog(c) \/ CheckEntry(c) \/ TakeEntry(c) \/ TakeExclusiveLog(c) \/ GiveUp(c)
  BY <1>2, <1>3 DEF TakeSharedLog, CheckEntry, TakeEntry, TakeExclusiveLog, GiveUp, Image, TypeOK
<1>4. CASE Prepare(c)
  BY <1>1, <1>2, <1>4 DEF Prepare, TypeOK
<1>5. CASE Merge(c)
  BY <1>2, <1>5 DEF Merge, TypeOK
<1>6. CASE Mark(c) \/ MarkFails(c) \/ AllMarked(c)
  BY <1>1, <1>6 DEF Mark, MarkFails, AllMarked, Image, TypeOK
<1>7. CASE Write(c) \/ WriteFails(c)
  BY <1>1, <1>7 DEF Write, WriteFails, TypeOK
<1>8. CASE Undo(c) \/ Undone(c)
  BY <1>1, <1>8 DEF Undo, Undone, Image, TypeOK
<1>9. CASE Clear(c) \/ ClearFails(c) \/ Finish(c)
  BY <1>1, <1>2, <1>9 DEF Clear, ClearFails, Finish, TypeOK
<1>10. CASE Die(c) \/ Interrupt(c)
  BY <1>1, <1>10 DEF Die, Interrupt, Image, TypeOK
<1>11. QED
  BY <1>3, <1>4, <1>5, <1>6, <1>7, <1>8, <1>9, <1>10 DEF Step, Fault

\* The ways a step changes the locks of its command.
Leaves(c) ==
    /\ pc'[c] \in {"idle"} \cup Ended
    /\ log'[c] = "none" /\ locked'[c] = {}
    /\ artifact' = IF artifact = c THEN None ELSE artifact

Stays(c) ==
    /\ pc[c] \in Active /\ pc'[c] \in Active
    /\ UNCHANGED <<artifact, log, locked, phase>>

Starts(c) ==
    /\ pc[c] = "entering" /\ phase[c] = "finish" /\ Missing(c) = {}
    /\ pc'[c] = "marking"
    /\ artifact = None /\ artifact' = c
    /\ UNCHANGED <<log, locked, phase, marker, made>>

Opens(c) ==
    /\ pc[c] = "idle" /\ pc'[c] = "entering"
    /\ LogFree(c)
    /\ \/ ~ Exclusive(c) /\ log'[c] = "shared" /\ UNCHANGED locked
       \/ Exclusive(c) /\ log'[c] = "exclusive" /\ marker = {}
    /\ UNCHANGED <<artifact, phase, marker, made>>

Queues(c) ==
    /\ \/ /\ pc[c] = "entering" /\ pc'[c] = "checked"
          /\ Missing(c) # {} /\ Ready(NextLock(c))
          /\ UNCHANGED locked
       \/ /\ pc[c] = "checked" /\ pc'[c] = "entering"
          /\ locked' = [locked EXCEPT ![c] = @ \cup {NextLock(c)}]
    /\ UNCHANGED <<artifact, log, phase, marker, made>>

LEMMA LockSteps ==
    ASSUME TypeOK, NEW c \in Command, Step(c) \/ GiveUp(c) \/ Fault(c)
    PROVE  Leaves(c) \/ Stays(c) \/ Starts(c) \/ Opens(c) \/ Queues(c)
<1>1. ASSUME NEW to \in {"idle"} \cup Ended, Leave(c, to)
      PROVE  Leaves(c)
  BY <1>1 DEF Leave, Leaves, TypeOK
<1>2. ASSUME NEW to \in Ended, End(c, to)
      PROVE  Leaves(c)
  BY <1>1, <1>2 DEF End
<1>3. Refuse(c) => Leaves(c)
  BY <1>2 DEF Refuse, Ended
<1>4. CASE TakeSharedLog(c) \/ TakeExclusiveLog(c)
  BY <1>3, <1>4 DEF TakeSharedLog, TakeExclusiveLog, Opens, Image, TypeOK
<1>5. CASE CheckEntry(c) \/ TakeEntry(c)
  BY <1>3, <1>5 DEF CheckEntry, TakeEntry, Queues, Image, TypeOK
<1>6. CASE Prepare(c) \/ GiveUp(c)
  BY <1>1, <1>3, <1>6 DEF Prepare, GiveUp
<1>7. CASE Merge(c)
  BY <1>2, <1>3, <1>7 DEF Merge, Locked, Starts, Ended, TypeOK
<1>8. CASE Mark(c) \/ MarkFails(c) \/ AllMarked(c)
  BY <1>1, <1>8 DEF Mark, MarkFails, AllMarked, Stays, Active, Ended, Image, TypeOK
<1>9. CASE Write(c) \/ WriteFails(c) \/ Undo(c) \/ Undone(c)
  BY <1>1, <1>9 DEF Write, WriteFails, Undo, Undone, Stays, Active, Ended, Image, TypeOK
<1>10. CASE Clear(c) \/ ClearFails(c)
  BY <1>1, <1>10 DEF Clear, ClearFails, Stays, Active, Ended, TypeOK
<1>11. CASE Finish(c)
  BY <1>2, <1>11 DEF Finish, Outcome, Ended
<1>12. CASE Die(c) \/ Interrupt(c)
  BY <1>1, <1>12 DEF Die, Interrupt, Ended
<1>13. QED
  BY <1>4, <1>5, <1>6, <1>7, <1>8, <1>9, <1>10, <1>11, <1>12 DEF Step, Fault

\* A command alone has the exclusive log lock, and one at a time publishes.
LEMMA StepKeepsLocks ==
    ASSUME TypeOK, Locks, NEW c \in Command, Step(c) \/ GiveUp(c) \/ Fault(c)
    PROVE  Locks'
<1>1. \A d \in Command : d # c => pc'[d] = pc[d] /\ log'[d] = log[d] /\ locked'[d] = locked[d]
  BY Frame
<1>2. None \notin Command
  BY RegistryAssumption
<1>3. CASE Leaves(c)
  <2>1. \A d \in Command : d # c /\ artifact = d => artifact' = d
    BY <1>3 DEF Leaves
  <2>2. pc'[c] \notin Active
    BY <1>3 DEF Leaves, Active, Ended
  <2>3. QED
    BY <1>1, <1>3, <2>1, <2>2 DEF Leaves, Locks, Exclusive
<1>4. CASE Stays(c)
  <2>1. pc'[c] \notin {"idle"} \cup Ended /\ pc[c] \notin {"idle"} \cup Ended
    BY <1>4 DEF Stays, Active, Ended
  <2>2. QED
    BY <1>1, <1>4, <2>1 DEF Stays, Locks, Exclusive
<1>5. CASE Starts(c)
  <2>1. \A d \in Command : pc[d] \notin Active
    BY <1>2, <1>5 DEF Starts, Locks
  <2>2. Op[c].locks \subseteq locked[c]
    BY <1>5 DEF Starts, Missing, Wanted
  <2>3. pc'[c] \notin {"idle"} \cup Ended /\ pc[c] \notin {"idle"} \cup Ended
    BY <1>5 DEF Starts, Ended
  <2>4. QED
    BY <1>1, <1>5, <2>1, <2>2, <2>3 DEF Starts, Locks, Exclusive
<1>6. CASE Opens(c)
  <2>1. pc'[c] \notin {"idle"} \cup Ended \cup Active
    BY <1>6 DEF Opens, Active, Ended
  <2>2. \A d \in Command : d # c => (Exclusive(c) => log[d] = "none") /\ log[d] # "exclusive"
    BY <1>6 DEF Opens, LogFree
  <2>3. log'[c] = IF Exclusive(c) THEN "exclusive" ELSE "shared"
    BY <1>6 DEF Opens
  <2>4. QED
    BY <1>1, <1>6, <2>1, <2>2, <2>3 DEF Opens, Locks, Exclusive
<1>7. CASE Queues(c)
  <2>1. pc'[c] \notin {"idle"} \cup Ended \cup Active /\ pc[c] \notin {"idle"} \cup Ended
    BY <1>7 DEF Queues, Active, Ended
  <2>2. QED
    BY <1>1, <1>7, <2>1 DEF Queues, Locks, Exclusive
<1>8. QED
  BY <1>3, <1>4, <1>5, <1>6, <1>7, LockSteps

-----------------------------------------------------------------------------
(* Whose the markers are *)

\* The ways a step changes markers.
Keeps(c) == UNCHANGED <<marker, made>>

Adds(c) ==
    /\ pc[c] = "marking" /\ pc'[c] = "marking"
    /\ \E m \in Unmade(c) :
        marker' = marker \cup {m} /\ made' = [made EXCEPT ![c] = @ \cup {m}]

Spoils(c) ==
    /\ pc[c] = "marking" /\ pc'[c] = "repair" /\ c \in Faulty
    /\ \E m \in Unmade(c) :
        marker' = (marker \cup {m}) \ made[c] /\ made' = [made EXCEPT ![c] = {m}]

Removes(c) ==
    /\ pc[c] = "clearing" /\ pc'[c] \in {"clearing", "repair"}
    /\ pc'[c] = "repair" => c \in Faulty
    /\ \E m \in made[c] :
        marker' = marker \ {m} /\ made' = [made EXCEPT ![c] = @ \ {m}]

LEMMA MarkerSteps ==
    ASSUME Inv, NoDataInterrupt, NEW c \in Command, Step(c) \/ GiveUp(c) \/ Fault(c)
    PROVE  Keeps(c) \/ Adds(c) \/ Spoils(c) \/ Removes(c)
<1> DEFINE m == Least(Unmade(c))
           n == Least(made[c])
<1>1. Unmade(c) # {} => m \in Unmade(c)
  BY RegistryAssumption, FirstMarker DEF Unmade, IsOperation
<1>2. made[c] # {} => n \in made[c]
  BY FirstMarker DEF Inv, TypeOK
<1>3. CASE \/ TakeSharedLog(c) \/ CheckEntry(c) \/ TakeEntry(c) \/ TakeExclusiveLog(c)
           \/ Prepare(c) \/ Merge(c) \/ GiveUp(c)
  BY <1>3 DEF TakeSharedLog, CheckEntry, TakeEntry, TakeExclusiveLog, Prepare, Merge,
     GiveUp, Refuse, End, Image, Keeps
<1>4. CASE Mark(c) \/ MarkFails(c) \/ AllMarked(c)
  BY <1>1, <1>4 DEF Mark, MarkFails, AllMarked, Leave, Image, Keeps, Adds, Spoils, Inv, TypeOK
<1>5. CASE Write(c) \/ WriteFails(c) \/ Undo(c) \/ Undone(c) \/ Finish(c) \/ Die(c) \/ Interrupt(c)
  BY <1>5 DEF Write, WriteFails, Undo, Undone, Finish, End, Die, Interrupt, NoDataInterrupt,
     Image, Keeps
<1>6. CASE Clear(c) \/ ClearFails(c)
  BY <1>2, <1>6 DEF Clear, ClearFails, Leave, Keeps, Removes, Inv, TypeOK
<1>7. QED
  BY <1>3, <1>4, <1>5, <1>6 DEF Step, Fault

\* The position of a command after a step that may end its publication.
LEMMA EndSteps ==
    ASSUME Inv, Makers, NoDataInterrupt, NEW c \in Command, Step(c) \/ GiveUp(c) \/ Fault(c)
    PROVE  /\ made'[c] # {} => pc'[c] \in Active \cup {"repair", "dead", "failed"}
           /\ pc'[c] \in {"undoing", "repair"} => c \in Faulty
           /\ pc'[c] = "dead" => c \in Mortal \cup Interruptible
<1>1. CASE \/ TakeSharedLog(c) \/ CheckEntry(c) \/ TakeEntry(c) \/ TakeExclusiveLog(c)
           \/ Prepare(c) \/ Merge(c) \/ GiveUp(c)
  <2>1. /\ UNCHANGED <<marker, made>>
        /\ pc[c] \in {"idle", "entering", "checked"}
        /\ pc'[c] \notin {"undoing", "repair", "dead"}
    BY <1>1 DEF TakeSharedLog, CheckEntry, TakeEntry, TakeExclusiveLog, Prepare, Merge,
       GiveUp, Locked, Refuse, End, Leave, Image, Inv, TypeOK
  <2>2. made[c] = {}
    BY <2>1 DEF Makers, Active
  <2>3. QED
    BY <2>1, <2>2
<1>2. CASE Mark(c) \/ MarkFails(c) \/ AllMarked(c)
  BY <1>2 DEF Mark, MarkFails, AllMarked, Leave, Image, Inv, TypeOK, Active
<1>3. CASE Write(c) \/ WriteFails(c) \/ Undo(c) \/ Undone(c)
  BY <1>3 DEF Write, WriteFails, Undo, Undone, Leave, Image, Inv, TypeOK, Active, Makers
<1>4. CASE Clear(c) \/ ClearFails(c)
  BY <1>4 DEF Clear, ClearFails, Leave, Inv, TypeOK, Active
<1>5. CASE Finish(c)
  BY <1>5 DEF Finish, End, Leave, Outcome, Inv, TypeOK
<1>6. CASE Die(c) \/ Interrupt(c)
  BY <1>6 DEF Die, Interrupt, NoDataInterrupt, Leave, Inv, TypeOK
<1>7. QED
  BY <1>1, <1>2, <1>3, <1>4, <1>5, <1>6 DEF Step, Fault

\* Under the exclusive log lock all markers are of the command that holds it.
LEMMA StepKeepsMakers ==
    ASSUME Inv, Locks, Makers, NoDataInterrupt,
           NEW c \in Command, Step(c) \/ GiveUp(c) \/ Fault(c)
    PROVE  Makers'
<1>0. TypeOK
  BY DEF Inv
<1>1. \A d \in Command : d # c => pc'[d] = pc[d] /\ log'[d] = log[d] /\ made'[d] = made[d]
  BY <1>0, Frame
<1>2. /\ made'[c] # {} => pc'[c] \in Active \cup {"repair", "dead", "failed"}
      /\ pc'[c] \in {"undoing", "repair"} => c \in Faulty
      /\ pc'[c] = "dead" => c \in Mortal \cup Interruptible
  BY EndSteps
<1>3. made'[c] \subseteq Op[c].marks
  BY <1>0, MarkerSteps DEF Keeps, Adds, Spoils, Removes, Unmade, Makers, TypeOK
<1>4. log'[c] = "exclusive" => marker' = made'[c]
  <2>1. SUFFICES ASSUME log'[c] = "exclusive" PROVE marker' = made'[c]
    OBVIOUS
  <2>2. CASE log[c] = "exclusive"
    <3>1. marker = made[c] /\ made[c] \in SUBSET Marker
      BY <1>0, <2>2 DEF Makers, TypeOK
    <3>2. CASE Keeps(c)
      BY <3>1, <3>2 DEF Keeps
    <3>3. CASE Adds(c)
      BY <1>0, <3>1, <3>3 DEF Adds, TypeOK
    <3>4. CASE Spoils(c)
      BY <1>0, <3>1, <3>4 DEF Spoils, TypeOK, Unmade
    <3>5. CASE Removes(c)
      BY <1>0, <3>1, <3>5 DEF Removes, TypeOK
    <3>6. QED
      BY <3>2, <3>3, <3>4, <3>5, MarkerSteps
  <2>3. CASE log[c] # "exclusive"
    <3>1. Opens(c)
      BY <1>0, <2>1, <2>3, LockSteps DEF Leaves, Stays, Starts, Queues
    <3>2. marker = {} /\ UNCHANGED <<marker, made>>
      BY <2>1, <3>1 DEF Opens
    <3>3. QED
      BY <3>2 DEF Inv, Markers
  <2>4. QED
    BY <2>2, <2>3
<1>5. ASSUME NEW d \in Command, d # c, log'[d] = "exclusive"
      PROVE  marker' = made'[d]
  <2>1. log[d] = "exclusive" /\ log[c] = "none"
    BY <1>1, <1>5 DEF Locks
  <2>2. pc[c] \in {"idle"} \cup Ended
    BY <2>1 DEF Locks
  <2>3. ~ Adds(c) /\ ~ Spoils(c) /\ ~ Removes(c)
    BY <2>2 DEF Adds, Spoils, Removes, Ended
  <2>4. QED
    BY <2>1, <2>3, MarkerSteps DEF Keeps, Makers
<1>6. QED
  BY <1>1, <1>2, <1>3, <1>4, <1>5 DEF Makers

\* An entry checked under the shared log lock gets no marker of a command that
\* works alone while it is locked.
LEMMA StepKeepsVetted ==
    ASSUME Inv, Locks, Makers, Vetted, NoDataInterrupt,
           NEW a \in Command, Step(a) \/ GiveUp(a) \/ Fault(a)
    PROVE  Vetted'
<1>0. TypeOK
  BY DEF Inv
<1> SUFFICES ASSUME NEW c \in Command, NEW d \in Command, Exclusive(d), ~ Exclusive(c),
                    NEW e \in Checked(c)'
             PROVE  made'[d] \cap {e, WholeLog} = {}
  BY DEF Vetted, Exclusive
<1>1. CASE a = d
  <2>0. c # a
    BY <1>1
  <2>1. /\ pc'[c] = pc[c] /\ locked'[c] = locked[c] /\ phase'[c] = phase[c]
    BY <1>0, <2>0, Frame
  <2>2. Checked(c)' = Checked(c)
    BY <2>1 DEF Checked, NextLock, Missing, Wanted
  <2>3. made[d] \cap {e, WholeLog} = {}
    BY <2>2 DEF Vetted
  <2>4. pc[c] \notin {"idle"} \cup Ended
    <3>1. CASE pc[c] = "checked"
      BY <3>1 DEF Ended
    <3>2. CASE pc[c] # "checked"
      BY <2>2, <3>2 DEF Checked, Locks
    <3>3. QED
      BY <3>1, <3>2
  <2>5. log[c] = "shared"
    BY <2>4 DEF Locks
  <2>6. log[d] # "exclusive"
    BY <1>1, <2>0, <2>5 DEF Locks
  <2>7. pc[d] \in {"idle"} \cup Ended
    BY <2>6 DEF Locks
  <2>8. ~ Adds(d) /\ ~ Spoils(d) /\ ~ Removes(d)
    BY <2>7 DEF Adds, Spoils, Removes, Ended
  <2>9. QED
    BY <1>1, <2>3, <2>8, MarkerSteps DEF Keeps
<1>2. CASE a # d /\ a # c
  <2>1. /\ pc'[c] = pc[c] /\ locked'[c] = locked[c] /\ phase'[c] = phase[c]
        /\ made'[d] = made[d]
    BY <1>0, <1>2, Frame
  <2>2. Checked(c)' = Checked(c)
    BY <2>1 DEF Checked, NextLock, Missing, Wanted
  <2>3. QED
    BY <2>1, <2>2 DEF Vetted
<1>3. CASE a = c
  <2>0. c # d
    OBVIOUS
  <2>1. made'[d] = made[d]
    BY <1>0, <1>3, <2>0, Frame
  <2>2. CASE e \in Checked(c)
    BY <2>1, <2>2 DEF Vetted
  <2>3. CASE e \notin Checked(c)
    <3>1. CASE Leaves(c)
      BY <2>3, <3>1 DEF Leaves, Checked, Ended
    <3>2. CASE Stays(c) \/ Starts(c) \/ Opens(c)
      <4>1. locked'[c] = locked[c] /\ pc'[c] # "checked"
        BY <3>2 DEF Stays, Starts, Opens, Active
      <4>2. QED
        BY <2>3, <4>1 DEF Checked
    <3>3. CASE Queues(c) /\ pc[c] = "checked"
      <4>1. locked'[c] = locked[c] \cup {NextLock(c)} /\ pc'[c] = "entering"
        BY <1>0, <3>3 DEF Queues, TypeOK
      <4>2. QED
        BY <2>3, <3>3, <4>1 DEF Checked
    <3>4. CASE Queues(c) /\ pc[c] # "checked"
      <4>1. /\ UNCHANGED <<locked, phase, marker>> /\ Ready(NextLock(c))
            /\ pc[c] = "entering" /\ pc'[c] = "checked"
        BY <3>4 DEF Queues
      <4>2. NextLock(c)' = NextLock(c)
        BY <4>1 DEF NextLock, Missing, Wanted
      <4>3. e = NextLock(c)
        BY <2>3, <4>1, <4>2 DEF Checked
      <4>4. marker \cap {e, WholeLog} = {} /\ made[d] \subseteq marker
        BY <4>1, <4>3 DEF Ready, Inv, Markers
      <4>5. QED
        BY <2>1, <4>4
    <3>5. QED
      BY <1>0, <1>3, <3>1, <3>2, <3>3, <3>4, LockSteps
  <2>4. QED
    BY <2>2, <2>3
<1>4. QED
  BY <1>1, <1>2, <1>3

-----------------------------------------------------------------------------
(* What is torn, and what the files hold                                   *)

\* The entry of a file that pyrun replaces is checked before its lock is
\* awaited: a sync of the same entry that is cut short meanwhile is not seen.
NoLateRun ==
    \A c, d \in Command :
        Op[c].kind = "run" /\ ~ Exclusive(d) /\ d \in Mortal \cup Faulty \cup Interruptible =>
            Op[d].marks \cap {EntryOf[FileOf[s]] : s \in Owns(c)} = {}

\* One command at a time publishes.
LEMMA Alone ==
    ASSUME Locks, NEW c \in Command, NEW d \in Command, c # d, pc[c] \in Active
    PROVE  pc[d] \notin Active
BY DEF Locks

\* A command replaces no file of an entry that a publication cut short has left.
LEMMA EntriesAreWhole ==
    ASSUME Inv, Locks, Makers, Vetted, NEW c \in Command, pc[c] = "writing",
           Op[c].kind # "run" \/ NoLateRun,
           NEW d \in Command, pc[d] \in {"repair", "dead"}
    PROVE  made[d] \cap ({EntryOf[FileOf[s]] : s \in Owns(c)} \cup {WholeLog}) = {}
<1>0. c # d /\ pc[c] \in Active
  BY DEF Active
<1>1. Op[c].marks \subseteq made[c] /\ todo[c] # {} /\ todo[c] \subseteq OwnFiles(c)
  BY DEF Inv, Publications, Positions
<1>2. made[c] \cap made[d] = {} /\ made[d] \subseteq marker
  BY <1>0 DEF Inv, Markers
<1>3. CASE Exclusive(c)
  <2>1. log[c] = "exclusive"
    BY <1>0, <1>3 DEF Locks, Active, Ended
  <2>2. marker = made[c]
    BY <2>1 DEF Makers
  <2>3. QED
    BY <1>2, <2>2
<1>4. CASE ~ Exclusive(c)
  <2>1. Op[c].kind \in {"sync", "run"}
    BY <1>4, RegistryAssumption DEF Exclusive, IsOperation
  <2>2. Op[c].locks \subseteq locked[c]
    BY <1>0, <1>4 DEF Locks
  <2>3. \A s \in Owns(c) : EntryOf[FileOf[s]] \in locked[c]
    BY <2>1, <2>2, SharedAssumption
  <2>4. CASE Exclusive(d)
    <3>1. \A e \in locked[c] : made[d] \cap {e, WholeLog} = {}
      BY <1>4, <2>4 DEF Vetted, Checked
    <3>2. \E s \in Owns(c) : TRUE
      BY <1>1 DEF OwnFiles
    <3>3. QED
      BY <2>3, <3>1, <3>2
  <2>5. CASE ~ Exclusive(d)
    <3>1. Op[d].kind \in {"sync", "run"}
      BY <2>5, RegistryAssumption DEF Exclusive, IsOperation
    <3>2. WholeLog \notin made[d]
      BY <3>1, SharedAssumption DEF Makers
    <3>3. CASE Op[c].kind = "run"
      <4>1. d \in Mortal \cup Faulty \cup Interruptible
        BY DEF Makers
      <4>2. Op[d].marks \cap {EntryOf[FileOf[s]] : s \in Owns(c)} = {}
        BY <2>5, <3>3, <4>1 DEF NoLateRun
      <4>3. made[d] \subseteq Op[d].marks
        BY DEF Makers
      <4>4. QED
        BY <3>2, <4>2, <4>3
    <3>4. CASE Op[c].kind # "run"
      <4>1. Marked(c) /\ WholeLog \notin Op[c].marks
        BY <2>1, <3>4, RegistryAssumption, SharedAssumption
      <4>2. \A s \in Owns(c) : EntryOf[FileOf[s]] \in made[c]
        BY <1>1, <4>1 DEF Marked
      <4>3. QED
        BY <1>2, <3>2, <4>2
    <3>5. QED
      BY <3>3, <3>4
  <2>6. QED
    BY <2>4, <2>5
<1>5. QED
  BY <1>3, <1>4

\* The files a command replaces are torn by nobody else.
LEMMA FilesAreWhole ==
    ASSUME Inv, Locks, Makers, Vetted, NEW c \in Command, pc[c] = "writing",
           Op[c].kind # "run" \/ NoLateRun,
           NEW d \in Command, c # d
    PROVE  torn[d] \cap OwnFiles(c) = {}
<1> SUFFICES ASSUME NEW s \in Owns(c), FileOf[s] \in torn[d]
             PROVE  FALSE
  BY DEF OwnFiles
<1>1. pc[d] \notin Active
  BY Alone DEF Active
<1>2. /\ pc[d] \in {"repair", "dead"}
      /\ Op[d].kind # "run"
      /\ Op[d].marks \subseteq made[d]
      /\ torn[d] \subseteq OwnFiles(d)
  BY <1>1 DEF Inv, Publications, Active
<1>3. PICK t \in Owns(d) : FileOf[t] = FileOf[s]
  BY <1>2 DEF OwnFiles
<1>4. EntryOf[FileOf[s]] \in made[d] \/ WholeLog \in made[d]
  BY <1>2, <1>3, RegistryAssumption DEF Marked
<1>5. QED
  BY <1>2, <1>4, EntriesAreWhole

\* A step tears files of its command only.
LEMMA TornSteps ==
    ASSUME Inv, NEW c \in Command, Step(c) \/ GiveUp(c) \/ Fault(c)
    PROVE  \/ torn'[c] \subseteq torn[c]
           \/ /\ pc[c] = "writing" /\ Op[c].kind # "run"
              /\ torn'[c] \subseteq torn[c] \cup OwnFiles(c)
<1> DEFINE f == Least(todo[c])
<1>1. CASE \/ TakeSharedLog(c) \/ CheckEntry(c) \/ TakeEntry(c) \/ TakeExclusiveLog(c)
           \/ Prepare(c) \/ Merge(c) \/ GiveUp(c)
  BY <1>1 DEF TakeSharedLog, CheckEntry, TakeEntry, TakeExclusiveLog, Prepare, Merge,
     GiveUp, Refuse, End, Image
<1>2. CASE \/ Mark(c) \/ MarkFails(c) \/ AllMarked(c) \/ Clear(c) \/ ClearFails(c)
           \/ Finish(c) \/ Die(c) \/ Interrupt(c) \/ Undone(c)
  BY <1>2 DEF Mark, MarkFails, AllMarked, Clear, ClearFails, Finish, End, Die, Interrupt,
     Undone, Image
<1>3. pc[c] = "writing" => f \in OwnFiles(c) /\ f \in todo[c]
  <2>1. todo[c] \in SUBSET Nat
    BY RegistryAssumption DEF Inv, TypeOK
  <2>2. QED
    BY <2>1, LeastIsMember DEF Inv, Positions
<1>4. CASE Write(c)
  <2>1. /\ pc[c] = "writing"
        /\ torn'[c] = IF todo[c] = {f} THEN {} ELSE torn[c] \cup {f}
    BY <1>4 DEF Write, Inv, TypeOK
  <2>2. Op[c].kind = "run" => todo[c] = {f}
    <3>1. Op[c].kind = "run" => \A x, y \in OwnFiles(c) : x = y
      BY RegistryAssumption DEF OwnFiles
    <3>2. QED
      BY <1>3, <2>1, <3>1 DEF Inv, Positions
  <2>3. QED
    BY <1>3, <2>1, <2>2
<1>5. CASE WriteFails(c)
  BY <1>3, <1>5 DEF WriteFails, Inv, TypeOK
<1>6. CASE Undo(c)
  BY <1>6 DEF Undo, Inv, TypeOK
<1>7. QED
  BY <1>1, <1>2, <1>4, <1>5, <1>6 DEF Step, Fault

LEMMA StepKeepsApart ==
    ASSUME Inv, Locks, Makers, Vetted, Apart,
           NEW c \in Command, Step(c) \/ GiveUp(c) \/ Fault(c)
    PROVE  Apart'
<1>1. \A d \in Command : d # c => torn'[d] = torn[d]
  BY Frame DEF Inv
<1>2. ASSUME NEW d \in Command, d # c
      PROVE  torn'[c] \cap torn'[d] = {}
  <2>1. torn[c] \cap torn[d] = {}
    BY <1>2 DEF Apart
  <2>2. CASE torn'[c] \subseteq torn[c]
    BY <1>1, <1>2, <2>1, <2>2
  <2>3. CASE /\ pc[c] = "writing" /\ Op[c].kind # "run"
             /\ torn'[c] \subseteq torn[c] \cup OwnFiles(c)
    <3>1. torn[d] \cap OwnFiles(c) = {}
      BY <1>2, <2>3, FilesAreWhole
    <3>2. QED
      BY <1>1, <1>2, <2>1, <2>3, <3>1
  <2>4. QED
    BY <2>2, <2>3, TornSteps
<1>3. QED
  BY <1>1, <1>2 DEF Apart

\* The files are as the publication in progress has left them.
LEMMA StepKeepsContents ==
    ASSUME Inv, Locks, Contents, NEW a \in Command, Step(a) \/ GiveUp(a) \/ Fault(a)
    PROVE  Contents'
<1>0. TypeOK
  BY DEF Inv
<1> DEFINE f == Least(todo[a])
           g == Greatest(undo[a])
           Good(c) ==
             /\ pc[c] \in {"marking", "writing", "undoing"} =>
                 \A s \in Slot : FileOf[s] \notin torn[c] => files[s] = before[c][s]
             /\ pc[c] \in {"marking", "writing"} => \A s \in Slot :
                 /\ FileOf[s] \in torn[c] => files[s] = After(c)[s]
                 /\ FileOf[s] \notin torn[c] \cup todo[c] => After(c)[s] = before[c][s]
             /\ pc[c] \in {"marking", "writing"} /\ ~ Exclusive(c) =>
                 \A s \in DOMAIN Op[c].sets :
                     \/ before[c][s].authority = seen[c][s].authority
                     \/ Op[c].kind = "sync" /\ before[c][s].authority = Op[c].sets[s]
<1>1. \A c \in Command : Good(c)
  BY DEF Contents
<1>2. /\ a \in DOMAIN pc /\ a \in DOMAIN torn /\ a \in DOMAIN todo /\ a \in DOMAIN before
      /\ files \in Registry /\ before[a] \in Registry
  BY <1>0 DEF TypeOK
<1>3. ASSUME NEW c \in Command, c # a
      PROVE  Good(c)'
  <2>1. /\ pc'[c] = pc[c] /\ before'[c] = before[c] /\ todo'[c] = todo[c]
        /\ torn'[c] = torn[c] /\ seen'[c] = seen[c]
    BY <1>0, <1>3, Frame
  <2>2. After(c)' = After(c)
    BY <2>1 DEF After, Merged
  <2>3. CASE pc[c] \notin {"marking", "writing", "undoing"}
    BY <2>1, <2>3
  <2>4. CASE pc[c] \in {"marking", "writing", "undoing"}
    <3>1. pc[a] \notin Active
      BY <1>3, <2>4, Alone DEF Active
    <3>2. UNCHANGED files
      BY <3>1 DEF Step, Fault, TakeSharedLog, CheckEntry, TakeEntry, TakeExclusiveLog, Prepare,
         Merge, GiveUp, Refuse, End, Mark, MarkFails, AllMarked, Write, WriteFails, Undo, Undone,
         Clear, ClearFails, Finish, Die, Interrupt, Active
    <3>3. Good(c)
      BY <1>1
    <3>4. QED
      BY <2>1, <2>2, <3>2, <3>3
  <2>5. QED
    BY <2>3, <2>4
<1>4. ASSUME pc'[a] \notin {"marking", "writing", "undoing"}
      PROVE  Good(a)'
  BY <1>4
<1>5. ASSUME Merge(a) /\ pc'[a] = "marking"
      PROVE  Good(a)'
  <2>1. /\ before' = [before EXCEPT ![a] = files]
        /\ todo' = [todo EXCEPT ![a] =
                      {FileOf[s] : s \in {t \in Slot : files[t] # Merged(a, files)[t]}}]
        /\ UNCHANGED <<files, torn, seen>>
        /\ Fits(a)
    BY <1>2, <1>5 DEF Merge, Refuse, End, Leave
  <2>2. before'[a] = files /\ After(a)' = Merged(a, files)
    BY <1>2, <2>1 DEF After, Merged
  <2>3. torn[a] = {}
    BY <1>5 DEF Merge, Locked, Inv, Publications
  <2>4. todo'[a] = {FileOf[s] : s \in {t \in Slot : files[t] # Merged(a, files)[t]}}
    BY <1>2, <2>1
  <2>5. ~ Exclusive(a) => \A s \in DOMAIN Op[a].sets : Unchanged(a, s)
    BY <2>1 DEF Fits
  <2>6. QED
    BY <2>1, <2>2, <2>3, <2>4, <2>5 DEF Unchanged
<1>6. ASSUME Mark(a) \/ AllMarked(a)
      PROVE  Good(a)'
  <2>1. /\ UNCHANGED <<files, seen, before, todo, torn>>
        /\ pc[a] = "marking"
    BY <1>6 DEF Mark, AllMarked, Image
  <2>2. After(a)' = After(a)
    BY <2>1 DEF After, Merged
  <2>3. Good(a)
    BY <1>1
  <2>4. QED
    BY <2>1, <2>2, <2>3
<1>7. ASSUME Write(a) /\ pc'[a] \in {"marking", "writing", "undoing"}
      PROVE  Good(a)'
  <2>1. /\ pc[a] = "writing" /\ pc'[a] = "writing"
        /\ files' = Install(f, After(a))
        /\ todo'[a] = todo[a] \ {f}
        /\ torn'[a] = torn[a] \cup {f}
        /\ UNCHANGED <<seen, before>>
    BY <1>2, <1>7 DEF Write
  <2>2. After(a)' = After(a)
    BY <2>1 DEF After, Merged
  <2>3. \A s \in Slot : files'[s] = IF FileOf[s] = f THEN After(a)[s] ELSE files[s]
    BY <2>1 DEF Install
  <2>4. Good(a)
    BY <1>1
  <2>5. QED
    BY <2>1, <2>2, <2>3, <2>4
<1>8. ASSUME WriteFails(a) /\ pc'[a] \in {"marking", "writing", "undoing"}
      PROVE  Good(a)'
  <2>1. /\ pc[a] = "writing" /\ pc'[a] = "undoing"
        /\ files' = Install(f, After(a)) \/ UNCHANGED files
        /\ torn'[a] = torn[a] \cup {f}
        /\ UNCHANGED <<before>>
    BY <1>2, <1>8 DEF WriteFails, Leave
  <2>2. \A s \in Slot : FileOf[s] # f => files'[s] = files[s]
    BY <2>1 DEF Install
  <2>3. Good(a)
    BY <1>1
  <2>4. QED
    BY <2>1, <2>2, <2>3
<1>9. ASSUME Undo(a)
      PROVE  Good(a)'
  <2>1. /\ pc[a] = "undoing" /\ pc'[a] = "undoing"
        /\ \/ files' = Install(g, before[a]) /\ torn'[a] = torn[a] \ {g}
           \/ UNCHANGED <<files, torn>>
        /\ UNCHANGED <<before>>
    BY <1>2, <1>9 DEF Undo
  <2>2. CASE UNCHANGED <<files, torn>>
    BY <1>1, <2>1, <2>2
  <2>3. CASE files' = Install(g, before[a]) /\ torn'[a] = torn[a] \ {g}
    <3>1. \A s \in Slot : files'[s] = IF FileOf[s] = g THEN before[a][s] ELSE files[s]
      BY <2>3 DEF Install
    <3>2. QED
      BY <1>1, <2>1, <2>3, <3>1
  <2>4. QED
    BY <2>1, <2>2, <2>3
<1>10. \/ pc'[a] \notin {"marking", "writing", "undoing"}
       \/ Merge(a) /\ pc'[a] = "marking"
       \/ Mark(a) \/ AllMarked(a)
       \/ Write(a) /\ pc'[a] \in {"marking", "writing", "undoing"}
       \/ WriteFails(a) /\ pc'[a] \in {"marking", "writing", "undoing"}
       \/ Undo(a)
  <2>1. \A to : Leave(a, to) => pc'[a] = to
    BY <1>2 DEF Leave
  <2>2. \A to \in {"done", "refused", "failed"} : End(a, to) => pc'[a] = to
    BY <2>1 DEF End
  <2>3. Refuse(a) => pc'[a] = "refused"
    BY <2>2 DEF Refuse
  <2>4. CASE TakeSharedLog(a) \/ CheckEntry(a) \/ TakeEntry(a) \/ TakeExclusiveLog(a)
    BY <1>2, <2>3, <2>4 DEF TakeSharedLog, CheckEntry, TakeEntry, TakeExclusiveLog
  <2>5. CASE Prepare(a) \/ GiveUp(a)
    BY <2>1, <2>3, <2>5 DEF Prepare, GiveUp
  <2>6. CASE Merge(a)
    BY <1>2, <2>2, <2>3, <2>6 DEF Merge
  <2>7. CASE MarkFails(a) \/ Clear(a) \/ ClearFails(a) \/ Undone(a)
    BY <1>2, <2>1, <2>7 DEF MarkFails, Clear, ClearFails, Undone
  <2>8. CASE Finish(a) \/ Die(a) \/ Interrupt(a)
    BY <2>1, <2>2, <2>8 DEF Finish, Outcome, Die, Interrupt
  <2>9. QED
    BY <2>4, <2>5, <2>6, <2>7, <2>8 DEF Step, Fault
<1>11. Good(a)'
  BY <1>4, <1>5, <1>6, <1>7, <1>8, <1>9, <1>10
<1>12. QED
  BY <1>3, <1>11 DEF Contents

LEMMA InitAtomicInv == Init => AtomicInv
<1> SUFFICES ASSUME Init PROVE AtomicInv
  OBVIOUS
<1>1. Inv
  BY InitInv
<1>2. Locks /\ Makers /\ Vetted /\ Contents /\ Apart
  BY DEF Init, Locks, Makers, Vetted, Contents, Apart, Checked, Active
<1>3. QED
  BY <1>1, <1>2 DEF AtomicInv

LEMMA NextKeepsAtomicInv ==
    ASSUME NoDataInterrupt, AtomicInv, [Next]_vars
    PROVE  AtomicInv'
<1>1. Inv'
  BY NextKeepsInv DEF AtomicInv
<1>2. ASSUME NEW c \in Command, Step(c) \/ GiveUp(c) \/ Fault(c)
      PROVE  Locks' /\ Makers' /\ Vetted' /\ Contents' /\ Apart'
  <2>1. Inv /\ TypeOK /\ Locks /\ Makers /\ Vetted /\ Contents /\ Apart
    BY DEF AtomicInv, Inv
  <2>2. QED
    BY <1>2, <2>1, StepKeepsLocks, StepKeepsMakers, StepKeepsVetted, StepKeepsContents, StepKeepsApart
<1>3. CASE UNCHANGED vars
  <2>1. UNCHANGED <<files, marker, artifact, pc, phase, log, locked, seen, before, todo, undo, torn, made>>
    BY <1>3 DEF vars, local
  <2>2. Locks' /\ Makers' /\ Apart'
    BY <2>1 DEF AtomicInv, Locks, Makers, Apart, Exclusive
  <2>3. Vetted'
    BY <2>1 DEF AtomicInv, Vetted, Exclusive, Checked, NextLock, Missing, Wanted
  <2>4. Contents'
    BY <2>1 DEF AtomicInv, Contents, Exclusive, After, Merged
  <2>5. QED
    BY <1>1, <2>2, <2>3, <2>4 DEF AtomicInv
<1>4. QED
  BY <1>1, <1>2, <1>3 DEF Next, AtomicInv

-----------------------------------------------------------------------------
(* What readers are promised                                               *)

TornByOther(c, s) == \E d \in Command : d # c /\ FileOf[s] \in torn[d]

VisibleIs ==
    /\ Visible = [s \in Slot |-> Visible[s]]
    /\ \A s \in Slot :
        /\ \A c \in Command : FileOf[s] \in torn[c] => Visible[s] = before[c][s]
        /\ (\A c \in Command : FileOf[s] \notin torn[c]) => Visible[s] = files[s]

LEMMA VisibleValue == AtomicInv => VisibleIs
<1> SUFFICES ASSUME AtomicInv PROVE VisibleIs
  OBVIOUS
<1>0. files \in Registry /\ Apart
  BY DEF AtomicInv, Inv, TypeOK
<1>1. CASE \A c \in Command : torn[c] = {}
  BY <1>0, <1>1 DEF Visible, VisibleIs, Registry
<1>2. CASE ~ \A c \in Command : torn[c] = {}
  <2>1. Visible = [s \in Slot |->
            IF \E c \in Command : FileOf[s] \in torn[c]
            THEN before[CHOOSE c \in Command : FileOf[s] \in torn[c]][s]
            ELSE files[s]]
    BY <1>2 DEF Visible
  <2>2. ASSUME NEW s \in Slot, NEW c \in Command, FileOf[s] \in torn[c]
        PROVE  (CHOOSE d \in Command : FileOf[s] \in torn[d]) = c
    <3>1. \A d \in Command : FileOf[s] \in torn[d] => d = c
      BY <1>0, <2>2 DEF Apart
    <3>2. QED
      BY <2>2, <3>1
  <2>3. QED
    BY <2>1, <2>2 DEF VisibleIs
<1>3. QED
  BY <1>1, <1>2

LEMMA VisibleValueNext == AtomicInv' => VisibleIs'
BY VisibleValue, PTL

\* A step that replaces no file leaves what readers see.
LEMMA QuietStep ==
    ASSUME AtomicInv, AtomicInv', NEW c \in Command, Step(c) \/ GiveUp(c) \/ Fault(c),
           UNCHANGED <<files, torn>>,
           torn[c] # {} => before'[c] = before[c]
    PROVE  Visible' = Visible
<1>1. VisibleIs /\ VisibleIs'
  BY VisibleValue, VisibleValueNext
<1>2. \A d \in Command : torn[d] # {} => before'[d] = before[d]
  BY Frame DEF AtomicInv, Inv
<1>3. ASSUME NEW s \in Slot
      PROVE  Visible'[s] = Visible[s]
  <2>1. CASE \E d \in Command : FileOf[s] \in torn[d]
    <3>1. PICK d \in Command : FileOf[s] \in torn[d]
      BY <2>1
    <3>2. Visible[s] = before[d][s]
      BY <1>1, <3>1 DEF VisibleIs
    <3>3. FileOf[s] \in torn'[d] /\ before'[d] = before[d]
      BY <1>2, <3>1
    <3>4. Visible'[s] = before'[d][s]
      BY <1>1, <3>3 DEF VisibleIs
    <3>5. QED
      BY <3>2, <3>3, <3>4
  <2>2. CASE \A d \in Command : FileOf[s] \notin torn[d]
    <3>1. Visible[s] = files[s]
      BY <1>1, <2>2 DEF VisibleIs
    <3>2. \A d \in Command : FileOf[s] \notin torn'[d]
      BY <2>2
    <3>3. Visible'[s] = files'[s]
      BY <1>1, <3>2 DEF VisibleIs
    <3>4. QED
      BY <3>1, <3>3
  <2>3. QED
    BY <2>1, <2>2
<1>4. Visible = [s \in Slot |-> Visible[s]] /\ Visible' = [s \in Slot |-> Visible'[s]]
  BY <1>1 DEF VisibleIs
<1>5. QED
  BY <1>3, <1>4

\* What a step does to a slot is decided by its command alone, unless the file
\* of the slot is torn by another command.
LEMMA SlotStep ==
    ASSUME AtomicInv, AtomicInv', NEW c \in Command, Step(c) \/ GiveUp(c) \/ Fault(c),
           NEW s \in Slot
    PROVE  /\ TornByOther(c, s) => Visible'[s] = Visible[s]
           /\ ~ TornByOther(c, s) =>
                /\ Visible[s] = IF FileOf[s] \in torn[c] THEN before[c][s] ELSE files[s]
                /\ Visible'[s] = IF FileOf[s] \in torn'[c] THEN before'[c][s] ELSE files'[s]
<1>1. VisibleIs /\ VisibleIs'
  BY VisibleValue, VisibleValueNext
<1>2. \A d \in Command : d # c => torn'[d] = torn[d] /\ before'[d] = before[d]
  BY Frame DEF AtomicInv, Inv
<1>3. ASSUME TornByOther(c, s)
      PROVE  Visible'[s] = Visible[s]
  <2>1. PICK d \in Command : d # c /\ FileOf[s] \in torn[d]
    BY <1>3 DEF TornByOther
  <2>2. Visible[s] = before[d][s]
    BY <1>1, <2>1 DEF VisibleIs
  <2>3. FileOf[s] \in torn'[d] /\ before'[d] = before[d]
    BY <1>2, <2>1
  <2>4. Visible'[s] = before'[d][s]
    BY <1>1, <2>3 DEF VisibleIs
  <2>5. QED
    BY <2>2, <2>3, <2>4
<1>4. ASSUME ~ TornByOther(c, s)
      PROVE  /\ Visible[s] = IF FileOf[s] \in torn[c] THEN before[c][s] ELSE files[s]
             /\ Visible'[s] = IF FileOf[s] \in torn'[c] THEN before'[c][s] ELSE files'[s]
  <2>1. \A d \in Command : d # c => FileOf[s] \notin torn[d] /\ FileOf[s] \notin torn'[d]
    BY <1>2, <1>4 DEF TornByOther
  <2>2. Visible[s] = IF FileOf[s] \in torn[c] THEN before[c][s] ELSE files[s]
    BY <1>1, <2>1 DEF VisibleIs
  <2>3. Visible'[s] = IF FileOf[s] \in torn'[c] THEN before'[c][s] ELSE files'[s]
    BY <1>1, <2>1 DEF VisibleIs
  <2>4. QED
    BY <2>2, <2>3
<1>5. QED
  BY <1>3, <1>4

\* The replacement that completes a publication.
Publishes(c) ==
    /\ pc[c] = "writing" /\ pc'[c] \in {"clearing", "failed"}
    /\ todo[c] = {Least(todo[c])}
    /\ files' = Install(Least(todo[c]), After(c))
    /\ torn'[c] = {}
    /\ UNCHANGED <<seen, before, made>>

\* Every step but the last replacement of a publication leaves what readers see.
LEMMA VisibleSteps ==
    ASSUME AtomicInv, AtomicInv', NEW c \in Command, Step(c) \/ GiveUp(c) \/ Fault(c)
    PROVE  Publishes(c) \/ Visible' = Visible
<1> DEFINE f == Least(todo[c])
           g == Greatest(undo[c])
<1>0. TypeOK /\ Inv /\ Contents
  BY DEF AtomicInv, Inv
<1>1. \A to : Refuse(c) \/ End(c, to) =>
        UNCHANGED <<files, torn>>
  BY DEF Refuse, End
<1>2. CASE \/ TakeSharedLog(c) \/ CheckEntry(c) \/ TakeEntry(c) \/ TakeExclusiveLog(c)
           \/ Prepare(c) \/ GiveUp(c) \/ Merge(c)
  <2>1. UNCHANGED <<files, torn>>
    BY <1>1, <1>2 DEF TakeSharedLog, CheckEntry, TakeEntry, TakeExclusiveLog, Prepare, GiveUp,
       Merge, Image
  <2>2. torn[c] = {}
    BY <1>0, <1>2 DEF TakeSharedLog, CheckEntry, TakeEntry, TakeExclusiveLog, Prepare, GiveUp,
       Merge, Locked, Inv, Publications
  <2>3. QED
    BY <2>1, <2>2, QuietStep
<1>3. CASE \/ Mark(c) \/ MarkFails(c) \/ AllMarked(c) \/ Clear(c) \/ ClearFails(c)
           \/ Die(c) \/ Interrupt(c) \/ Undone(c)
  <2>1. UNCHANGED <<files, torn, before>>
    BY <1>3 DEF Mark, MarkFails, AllMarked, Clear, ClearFails, Die, Interrupt, Undone, Image
  <2>2. QED
    BY <2>1, QuietStep
<1>4. CASE Finish(c)
  <2>1. UNCHANGED <<files, torn>> /\ torn[c] = {}
    BY <1>0, <1>1, <1>4 DEF Finish, Inv, Publications
  <2>2. QED
    BY <2>1, QuietStep
<1>5. ASSUME \A s \in Slot : Visible'[s] = Visible[s]
      PROVE  Visible' = Visible
  BY <1>5, VisibleValue, VisibleValueNext DEF VisibleIs
<1>6. CASE Write(c) \/ WriteFails(c)
  <2>1. /\ pc[c] = "writing"
        /\ files' = Install(f, After(c)) \/ UNCHANGED files
        /\ UNCHANGED <<seen, before, made>>
    BY <1>6 DEF Write, WriteFails
  <2>2. \A s \in Slot : FileOf[s] # f => files'[s] = files[s]
    BY <2>1 DEF Install
  <2>3. \A s \in Slot : FileOf[s] \notin torn[c] => files[s] = before[c][s]
    BY <1>0, <2>1 DEF Contents
  <2>4. CASE torn'[c] = torn[c] \cup {f}
    <3>1. ASSUME NEW s \in Slot
          PROVE  Visible'[s] = Visible[s]
      BY <2>1, <2>2, <2>3, <2>4, SlotStep
    <3>2. QED
      BY <1>5, <3>1
  <2>5. CASE torn'[c] # torn[c] \cup {f} /\ Write(c)
    BY <1>0, <2>1, <2>5 DEF Write, TypeOK, Publishes
  <2>6. CASE torn'[c] # torn[c] \cup {f} /\ WriteFails(c)
    <3>1. /\ Op[c].kind = "run" /\ UNCHANGED torn
          /\ pc'[c] = "failed"
      BY <1>0, <2>6 DEF WriteFails, Leave, TypeOK
    <3>2. torn[c] = {}
      BY <1>0, <3>1 DEF Inv, Publications
    <3>3. todo[c] = {f}
      <4>1. todo[c] \in SUBSET Nat /\ todo[c] # {}
        BY <1>0, <2>1, RegistryAssumption DEF Inv, TypeOK, Positions
      <4>2. f \in todo[c]
        BY <4>1, LeastIsMember
      <4>3. \A x, y \in OwnFiles(c) : x = y
        BY <3>1, RegistryAssumption DEF OwnFiles
      <4>4. QED
        BY <1>0, <4>2, <4>3 DEF Inv, Positions
    <3>4. CASE UNCHANGED files
      BY <2>1, <3>1, <3>4, QuietStep
    <3>5. CASE files' = Install(f, After(c))
      BY <2>1, <3>1, <3>2, <3>3, <3>5 DEF Publishes
    <3>6. QED
      BY <2>1, <3>4, <3>5
  <2>7. QED
    BY <1>6, <2>4, <2>5, <2>6
<1>7. CASE Undo(c)
  <2>1. /\ pc[c] = "undoing"
        /\ \/ files' = Install(g, before[c]) /\ torn'[c] = torn[c] \ {g}
           \/ UNCHANGED <<files, torn>>
        /\ UNCHANGED before
    BY <1>0, <1>7 DEF Undo, TypeOK
  <2>2. CASE UNCHANGED <<files, torn>>
    BY <2>1, <2>2, QuietStep
  <2>3. CASE files' = Install(g, before[c]) /\ torn'[c] = torn[c] \ {g}
    <3>1. \A s \in Slot : files'[s] = IF FileOf[s] = g THEN before[c][s] ELSE files[s]
      BY <2>3 DEF Install
    <3>2. \A s \in Slot : FileOf[s] \notin torn[c] => files[s] = before[c][s]
      BY <1>0, <2>1 DEF Contents
    <3>3. ASSUME NEW s \in Slot
          PROVE  Visible'[s] = Visible[s]
      BY <2>1, <2>3, <3>1, <3>2, SlotStep
    <3>4. QED
      BY <1>5, <3>3
  <2>4. QED
    BY <2>1, <2>2, <2>3
<1>8. QED
  BY <1>2, <1>3, <1>4, <1>6, <1>7 DEF Step, Fault

-----------------------------------------------------------------------------
(* The publication implements AtomicRegistries                             *)

\* What a command makes of a registry depends on the slots it owns.
LEMMA ApplyLocal ==
    ASSUME NEW c \in Command, NEW one, NEW two, NEW s \in Slot,
           \A t \in Owns(c) : one[t] = two[t]
    PROVE  /\ s \in Owns(c) => Apply(c, one)[s] = Apply(c, two)[s]
           /\ s \notin Owns(c) => Apply(c, one)[s] = one[s]
<1>0. IsOperation(Op[c])
  BY RegistryAssumption
<1>1. CASE s \in DOMAIN Op[c].moves
  <2>1. Op[c].moves[s] \in Owns(c) /\ s \in Owns(c)
    BY <1>0, <1>1 DEF IsOperation, Owns
  <2>2. QED
    BY <1>1, <2>1 DEF Apply
<1>2. CASE s \notin DOMAIN Op[c].moves
  BY <1>2 DEF Apply, Owns
<1>3. QED
  BY <1>1, <1>2

\* The last replacement shows the registry that the command made of the one it
\* found, but for files that another command has torn.
LEMMA PublishedValues ==
    ASSUME AtomicInv, AtomicInv', NEW c \in Command, Step(c) \/ GiveUp(c) \/ Fault(c),
           Publishes(c), NEW s \in Slot, ~ TornByOther(c, s)
    PROVE  Visible[s] = before[c][s] /\ Visible'[s] = After(c)[s]
<1> DEFINE f == Least(todo[c])
<1>1. /\ FileOf[s] \notin torn[c] => files[s] = before[c][s]
      /\ FileOf[s] \in torn[c] => files[s] = After(c)[s]
      /\ FileOf[s] \notin torn[c] \cup todo[c] => After(c)[s] = before[c][s]
  BY DEF AtomicInv, Contents, Publishes
<1>2. files'[s] = IF FileOf[s] = f THEN After(c)[s] ELSE files[s]
  BY DEF Publishes, Install
<1>3. todo[c] = {f} /\ torn'[c] = {}
  BY DEF Publishes
<1>4. Visible[s] = before[c][s]
  BY <1>1, SlotStep
<1>5. Visible'[s] = files'[s]
  BY <1>3, SlotStep
<1>6. files'[s] = After(c)[s]
  BY <1>1, <1>2, <1>3
<1>7. QED
  BY <1>4, <1>5, <1>6

\* A publication changes what readers see by what its command does, at once.
LEMMA PublishCommits ==
    ASSUME AtomicInv, AtomicInv', NoLateRun,
           NEW c \in Command, Step(c) \/ GiveUp(c) \/ Fault(c), Publishes(c)
    PROVE  Visible' = Apply(c, Visible)
<1>0. pc[c] = "writing" /\ Inv /\ Locks /\ Makers /\ Vetted
  BY DEF Publishes, AtomicInv
<1>1. \A s \in Owns(c) : ~ TornByOther(c, s)
  <2>1. \A d \in Command : d # c => torn[d] \cap OwnFiles(c) = {}
    BY <1>0, FilesAreWhole
  <2>2. QED
    BY <2>1 DEF TornByOther, OwnFiles
<1>2. Owns(c) \subseteq Slot
  BY RegistryAssumption DEF Owns, IsOperation
<1>3. \A s \in Owns(c) : Visible[s] = before[c][s] /\ Visible'[s] = After(c)[s]
  BY <1>1, <1>2, PublishedValues
<1>4. ASSUME NEW s \in Slot
      PROVE  Visible'[s] = Apply(c, Visible)[s]
  <2>1. CASE s \in Owns(c)
    <3>1. Apply(c, before[c])[s] = Apply(c, Visible)[s]
      BY <1>3, <2>1, ApplyLocal
    <3>2. QED
      BY <1>3, <2>1, <3>1 DEF After, Merged
  <2>2. CASE s \notin Owns(c)
    <3>1. /\ Apply(c, Visible)[s] = Visible[s]
          /\ Apply(c, before[c])[s] = before[c][s]
      BY <2>2, ApplyLocal
    <3>2. CASE TornByOther(c, s)
      BY <3>1, <3>2, SlotStep
    <3>3. CASE ~ TornByOther(c, s)
      BY <3>1, <3>3, PublishedValues DEF After, Merged
    <3>4. QED
      BY <3>2, <3>3
  <2>3. QED
    BY <2>1, <2>2
<1>5. Visible' = [s \in Slot |-> Visible'[s]]
  BY VisibleValueNext DEF VisibleIs
<1>6. Apply(c, Visible) = [s \in Slot |-> Apply(c, Visible)[s]]
  BY DEF Apply
<1>7. QED
  BY <1>4, <1>5, <1>6

\* Damage is the markers of a command that is cut short.
LEMMA DamageSteps ==
    ASSUME AtomicInv, AtomicInv', NEW c \in Command, Step(c) \/ GiveUp(c) \/ Fault(c)
    PROVE  /\ \E M \in SUBSET Op[c].marks : Damaged' = Damaged \cup M
           /\ pc'[c] \notin {"repair", "dead"} => Damaged' = Damaged
<1> DEFINE M == IF pc'[c] \in {"repair", "dead"} THEN made'[c] ELSE {}
<1>1. \A d \in Command : d # c => pc'[d] = pc[d] /\ made'[d] = made[d]
  BY Frame DEF AtomicInv, Inv
<1>2. pc[c] \notin {"repair", "dead"}
  BY DEF Step, Fault, TakeSharedLog, CheckEntry, TakeEntry, TakeExclusiveLog, Prepare, Merge,
     Locked, GiveUp, Mark, AllMarked, Write, Undo, Undone, Clear, Finish,
     MarkFails, WriteFails, ClearFails, Die, Interrupt, Ended
<1>3. Damaged' = Damaged \cup M
  BY <1>1, <1>2 DEF Damaged
<1>4. M \in SUBSET Op[c].marks
  BY DEF AtomicInv, Makers
<1>5. QED
  BY <1>3, <1>4

LEMMA StepImplements ==
    ASSUME AtomicInv, AtomicInv', NoLateRun,
           NEW c \in Command, Step(c) \/ GiveUp(c) \/ Fault(c)
    PROVE  Atomic!Commit(c) \/ Atomic!Damage(c)
<1>1. CASE Visible' = Visible
  BY <1>1, DamageSteps DEF Atomic!Damage
<1>2. CASE Publishes(c)
  <2>1. Visible' = Apply(c, Visible)
    BY <1>2, PublishCommits
  <2>2. UNCHANGED Damaged
    BY <1>2, DamageSteps DEF Publishes
  <2>3. pc[c] = "writing" /\ Inv /\ Locks /\ Makers /\ Vetted
    BY <1>2 DEF Publishes, AtomicInv
  <2>4. \A d \in Command : pc[d] \in {"repair", "dead"} =>
          made[d] \cap ({EntryOf[FileOf[s]] : s \in Owns(c)} \cup {WholeLog}) = {}
    BY <2>3, EntriesAreWhole
  <2>5. Atomic!Untouched(c)
    <3>1. Atomic!Owns(c) = Owns(c) /\ Atomic!WholeLog = WholeLog
      BY DEF Atomic!Owns, Owns, Atomic!WholeLog, WholeLog
    <3>2. Damaged \cap ({EntryOf[FileOf[s]] : s \in Owns(c)} \cup {WholeLog}) = {}
      BY <2>4 DEF Damaged
    <3>3. QED
      BY <3>1, <3>2 DEF Atomic!Untouched
  <2>6. QED
    <3>1. Atomic!Apply(c, Visible) = Apply(c, Visible)
      BY DEF Atomic!Apply, Apply, Atomic!Absent, Absent
    <3>2. QED
      BY <2>1, <2>2, <2>5, <3>1 DEF Atomic!Commit
<1>3. QED
  BY <1>1, <1>2, VisibleSteps

\* The changes of a command appear all at once, on top of what others changed,
\* and never in an entry that waits for repair.
THEOREM PublicationsAreAtomic ==
    ASSUME NoDataInterrupt, NoLateRun
    PROVE  Spec => ImplementsAtomic
<1>1. Init => Atomic!Init
  <2>1. Init => Visible = Initial /\ Damaged = {}
    BY DEF Init, Visible, Damaged
  <2>2. QED
    <3>1. Atomic!Registry = Registry
      BY DEF Atomic!Registry, Registry, Atomic!Value, Value, Atomic!Policy, Policy
    <3>2. QED
      BY <2>1, <3>1, PublicationAssumption DEF Atomic!Init
<1>2. AtomicInv /\ AtomicInv' /\ [Next]_vars => [Atomic!Next]_<<Visible, Damaged>>
  <2>1. ASSUME AtomicInv, AtomicInv', NEW c \in Command, Step(c) \/ GiveUp(c) \/ Fault(c)
        PROVE  Atomic!Next
    BY <2>1, StepImplements DEF Atomic!Next
  <2>2. ASSUME UNCHANGED vars
        PROVE  UNCHANGED <<Visible, Damaged>>
    BY <2>2 DEF vars, local, Visible, Damaged
  <2>3. QED
    BY <2>1, <2>2 DEF Next
<1>3. QED
  BY <1>1, <1>2, InitAtomicInv, NextKeepsAtomicInv, PTL DEF Spec, ImplementsAtomic, Atomic!Spec

\* A sync changes a slot only if the slot is as the sync saw it when it
\* prepared, whatever was published in between.
THEOREM UpdatesNeverLost ==
    ASSUME NoDataInterrupt
    PROVE  Spec => NoLostUpdate
<1>1. ASSUME AtomicInv, AtomicInv', NEW c \in Command, Step(c) \/ GiveUp(c) \/ Fault(c),
             NEW s \in Slot, Visible'[s].authority # Visible[s].authority
      PROVE  /\ pc[c] = "writing" /\ pc'[c] # "writing"
             /\ s \in Owns(c)
             /\ Exclusive(c) \/ Visible[s].authority = seen[c][s].authority
  <2>1. Publishes(c)
    BY <1>1, VisibleSteps
  <2>2. ~ TornByOther(c, s)
    BY <1>1, SlotStep
  <2>3. Visible[s] = before[c][s] /\ Visible'[s] = Apply(c, before[c])[s]
    BY <1>1, <2>1, <2>2, PublishedValues DEF After, Merged
  <2>4. s \in Owns(c)
    BY <1>1, <2>3, ApplyLocal
  <2>5. ASSUME ~ Exclusive(c)
        PROVE  Visible[s].authority = seen[c][s].authority
    <3>1. Op[c].kind \in {"sync", "run"} /\ IsOperation(Op[c])
      BY <2>5, RegistryAssumption DEF Exclusive, IsOperation
    <3>2. DOMAIN Op[c].moves = {} /\ DOMAIN Op[c].policy = {}
      BY <3>1, SharedAssumption
    <3>3. s \in DOMAIN Op[c].sets
      BY <2>4, <3>2 DEF Owns
    <3>4. \/ before[c][s].authority = seen[c][s].authority
          \/ before[c][s].authority = Op[c].sets[s]
      BY <1>1, <2>1, <2>5, <3>3 DEF AtomicInv, Contents, Publishes
    <3>5. before[c][s] \in Value
      BY <1>1 DEF AtomicInv, Inv, TypeOK, Registry
    <3>6. Apply(c, before[c])[s].authority = Op[c].sets[s]
      <4>1. Apply(c, before[c])[s] =
              IF Op[c].sets[s] = None THEN Absent
              ELSE [before[c][s] EXCEPT !.authority = Op[c].sets[s]]
        BY <3>2, <3>3 DEF Apply
      <4>2. QED
        BY <3>5, <4>1 DEF Absent, Value
    <3>7. QED
      BY <1>1, <2>3, <3>4, <3>6
  <2>6. QED
    BY <2>1, <2>4, <2>5 DEF Publishes
<1>2. AtomicInv /\ AtomicInv' /\ [Next]_vars =>
        [\A s \in Slot :
            Visible'[s].authority # Visible[s].authority =>
                \E c \in Command :
                    /\ pc[c] = "writing" /\ pc'[c] # "writing"
                    /\ s \in Owns(c)
                    /\ Exclusive(c) \/ Visible[s].authority = seen[c][s].authority]_vars
  BY <1>1 DEF Next
<1>3. QED
  BY <1>2, InitAtomicInv, NextKeepsAtomicInv, PTL DEF Spec, NoLostUpdate

-----------------------------------------------------------------------------
(* Uses are resolved                                                       *)

\* What a command makes present uses a slot it makes itself, or one it states;
\* what an execution uses was there when it started.
UsesStated ==
    /\ Resolved(Initial)
    /\ \A c \in Command :
        /\ Op[c].kind = "run" => \A u \in Op[c].uses : Present(Initial, u)
        /\ \A s \in Slot :
            /\ s \in DOMAIN Op[c].moves \/ (s \in DOMAIN Op[c].sets /\ Op[c].sets[s] # None)
            /\ Requires[s] \notin Owns(c) \cup {None}
            => ~ Exclusive(c) /\ Requires[s] \in Op[c].uses

\* The slots whose content decides what a command publishes besides its own: what
\* it uses, and what uses the declarations it deletes.
ReadsOf(c) ==
    Op[c].uses \cup
        {s \in Slot : Requires[s] \in DOMAIN Op[c].sets /\ Op[c].sets[Requires[s]] = None}

\* A command under the shared lock that may leave some of its files replaced.
MayTear(d) ==
    /\ Op[d].kind = "sync"
    /\ \/ d \in Faulty
       \/ d \in Mortal \cup Interruptible /\ \E f, g \in OwnFiles(d) : f # g

\* A registry is read while the lock of its entry is held, and no sync that is
\* waited for leaves it torn: an entry is checked before its lock is awaited.
WholeReads ==
    \A c \in Command : ~ Exclusive(c) =>
        \A s \in ReadsOf(c) :
            /\ EntryOf[FileOf[s]] \in Op[c].locks
            /\ \A d \in Command \ {c} : MayTear(d) => EntryOf[FileOf[s]] \notin Op[d].marks

\* What a command uses was there when it prepared and is there when it merges.
Sound ==
    \A c \in Command :
        /\ ~ Exclusive(c) /\ phase[c] = "finish" /\ pc[c] \notin Ended =>
            \A u \in Op[c].uses : Present(seen[c], u)
        /\ pc[c] \in {"marking", "writing"} =>
            /\ NothingLost(c, before[c])
            /\ ~ Exclusive(c) => \A u \in Op[c].uses \ Owns(c) : Present(before[c], u)
        /\ torn[c] # {} /\ c \notin Faulty => todo[c] # {} /\ todo[c] \cap torn[c] = {}

LEMMA StepKeepsSound ==
    ASSUME Inv, Makers, Sound, NEW a \in Command, Step(a) \/ GiveUp(a) \/ Fault(a)
    PROVE  Sound'
<1>0. /\ TypeOK
      /\ a \in DOMAIN pc /\ a \in DOMAIN torn /\ a \in DOMAIN todo /\ a \in DOMAIN before
      /\ a \in DOMAIN seen /\ a \in DOMAIN phase
  BY DEF Inv, TypeOK
<1> DEFINE f == Least(todo[a])
           Uses(c) ==
             ~ Exclusive(c) /\ phase[c] = "finish" /\ pc[c] \notin Ended =>
                \A u \in Op[c].uses : Present(seen[c], u)
           Image2(c) ==
             pc[c] \in {"marking", "writing"} =>
                /\ NothingLost(c, before[c])
                /\ ~ Exclusive(c) => \A u \in Op[c].uses \ Owns(c) : Present(before[c], u)
           Half(c) ==
             torn[c] # {} /\ c \notin Faulty => todo[c] # {} /\ todo[c] \cap torn[c] = {}
           Good(c) == Uses(c) /\ Image2(c) /\ Half(c)
<1>1. \A c \in Command : Good(c)
  BY DEF Sound
<1>2. ASSUME NEW c \in Command, c # a
      PROVE  Good(c)'
  <2>1. /\ pc'[c] = pc[c] /\ before'[c] = before[c] /\ todo'[c] = todo[c]
        /\ torn'[c] = torn[c] /\ seen'[c] = seen[c] /\ phase'[c] = phase[c]
    BY <1>0, <1>2, Frame
  <2>2. Good(c)
    BY <1>1
  <2>3. QED
    BY <2>1, <2>2 DEF Present, NothingLost
<1>3. \A to : Leave(a, to) => pc'[a] = to
  BY <1>0 DEF Leave
<1>4. ASSUME pc'[a] \in Ended, torn[a] = {}, UNCHANGED torn
      PROVE  Good(a)'
  BY <1>4 DEF Ended
<1>5. ASSUME NEW to \in Ended, End(a, to), torn[a] = {}
      PROVE  Good(a)'
  BY <1>3, <1>4, <1>5 DEF End
<1>6. ASSUME Refuse(a), pc[a] \in {"idle", "entering", "checked"}
      PROVE  Good(a)'
  BY <1>5, <1>6 DEF Refuse, Ended, Inv, Publications
<1>7. ASSUME UNCHANGED <<phase, seen, before, todo, torn>>,
             pc'[a] \notin Ended => pc[a] \notin Ended,
             pc'[a] \in {"marking", "writing"} => pc[a] \in {"marking", "writing"}
      PROVE  Good(a)'
  <2>1. Good(a)
    BY <1>1
  <2>2. Uses(a)' /\ Half(a)'
    BY <1>7, <2>1 DEF Present
  <2>3. Image2(a)'
    BY <1>7, <2>1 DEF Present, NothingLost
  <2>4. QED
    BY <2>2, <2>3
<1>8. ASSUME TakeSharedLog(a) \/ CheckEntry(a) \/ TakeEntry(a) \/ TakeExclusiveLog(a) \/ GiveUp(a)
      PROVE  Good(a)'
  <2>1. pc[a] \in {"idle", "entering", "checked"}
    BY <1>8 DEF TakeSharedLog, CheckEntry, TakeEntry, TakeExclusiveLog, GiveUp, Locked
  <2>2. CASE Refuse(a)
    BY <1>6, <2>1, <2>2
  <2>3. CASE ~ Refuse(a)
    <3>1. /\ UNCHANGED <<phase, seen, before, todo, torn>>
          /\ pc'[a] \in {"entering", "checked"}
      BY <1>0, <1>8, <2>3 DEF TakeSharedLog, CheckEntry, TakeEntry, TakeExclusiveLog, GiveUp, Image
    <3>2. QED
      BY <1>7, <2>1, <3>1 DEF Ended
  <2>4. QED
    BY <2>2, <2>3
<1>9. ASSUME Prepare(a)
      PROVE  Good(a)'
  <2>1. CASE Refuse(a)
    BY <1>6, <1>9, <2>1 DEF Prepare
  <2>2. CASE ~ Refuse(a)
    <3>1. /\ \A u \in Op[a].uses : Present(files, u)
          /\ seen'[a] = files /\ pc'[a] = "idle"
          /\ UNCHANGED <<before, todo, torn>>
      BY <1>0, <1>3, <1>9, <2>2 DEF Prepare
    <3>2. torn[a] = {}
      BY <1>9 DEF Prepare, Inv, Publications
    <3>3. QED
      BY <3>1, <3>2 DEF Present
  <2>3. QED
    BY <2>1, <2>2
<1>10. ASSUME Merge(a)
       PROVE  Good(a)'
  <2>0. pc[a] = "entering" /\ phase[a] = "finish" /\ torn[a] = {}
    BY <1>10 DEF Merge, Locked, Inv, Publications
  <2>1. CASE Refuse(a) \/ End(a, "done")
    BY <1>5, <1>6, <2>0, <2>1 DEF Ended
  <2>2. CASE ~ Refuse(a) /\ ~ End(a, "done")
    <3>1. /\ before'[a] = files /\ Fits(a) /\ pc'[a] = "marking"
          /\ UNCHANGED <<phase, seen, torn>>
      BY <1>0, <1>10, <2>2 DEF Merge
    <3>2. Uses(a)
      BY <1>1
    <3>3. ~ Exclusive(a) => \A u \in Op[a].uses : Present(seen[a], u)
      BY <2>0, <3>2 DEF Ended
    <3>4. NothingLost(a, files)
      BY <3>1 DEF Fits
    <3>5. ASSUME ~ Exclusive(a), NEW u \in Op[a].uses \ Owns(a)
          PROVE  Present(files, u)
      <4>1. Unchanged(a, u) /\ u \notin DOMAIN Op[a].sets
        BY <3>1, <3>5 DEF Fits, Owns
      <4>2. files[u].authority = seen[a][u].authority
        BY <4>1 DEF Unchanged
      <4>3. QED
        BY <3>3, <3>5, <4>2 DEF Present
    <3>6. Uses(a)'
      BY <3>1, <3>3 DEF Present
    <3>7. Image2(a)'
      <4>1. NothingLost(a, before[a])'
        BY <3>1, <3>4 DEF NothingLost, Present
      <4>2. (~ Exclusive(a) => \A u \in Op[a].uses \ Owns(a) : Present(before[a], u))'
        BY <3>1, <3>5 DEF Present
      <4>3. QED
        BY <4>1, <4>2
    <3>8. Half(a)'
      BY <2>0, <3>1
    <3>9. QED
      BY <3>6, <3>7, <3>8
  <2>3. QED
    BY <2>1, <2>2
<1>11. ASSUME \/ Mark(a) \/ MarkFails(a) \/ AllMarked(a) \/ Clear(a) \/ ClearFails(a)
              \/ Die(a) \/ Interrupt(a) \/ Undone(a)
       PROVE  Good(a)'
  <2>1. UNCHANGED <<phase, seen, before, todo, torn>>
    BY <1>11 DEF Mark, MarkFails, AllMarked, Clear, ClearFails, Die, Interrupt, Undone, Image
  <2>2. /\ pc'[a] \in {"marking", "writing"} => pc[a] = "marking"
        /\ pc'[a] \notin Ended => pc[a] \notin Ended
    BY <1>0, <1>3, <1>11 DEF Mark, MarkFails, AllMarked, Clear, ClearFails, Die, Interrupt, Undone, Ended
  <2>3. QED
    BY <1>7, <2>1, <2>2
<1>12. ASSUME Finish(a)
       PROVE  Good(a)'
  BY <1>5, <1>12 DEF Finish, Outcome, Ended, Inv, Publications
<1>13. ASSUME Write(a)
       PROVE  Good(a)'
  <2>1. /\ pc[a] = "writing" /\ pc'[a] \in {"writing", "clearing"}
        /\ todo'[a] = todo[a] \ {f}
        /\ torn'[a] = IF todo[a] = {f} THEN {} ELSE torn[a] \cup {f}
        /\ UNCHANGED <<phase, seen, before>>
    BY <1>0, <1>13 DEF Write
  <2>2. Good(a)
    BY <1>1
  <2>3. todo[a] # {}
    BY <2>1 DEF Inv, Positions
  <2>4. Half(a)'
    BY <2>1, <2>2, <2>3
  <2>5. Uses(a)'
    BY <2>1, <2>2 DEF Present, Ended
  <2>6. Image2(a)'
    BY <2>1, <2>2 DEF Present, NothingLost
  <2>7. QED
    BY <2>4, <2>5, <2>6
<1>14. ASSUME WriteFails(a)
       PROVE  Good(a)'
  <2>1. /\ pc[a] = "writing" /\ pc'[a] \in {"undoing", "failed"} /\ a \in Faulty
        /\ UNCHANGED <<phase, seen, before>>
    BY <1>0, <1>3, <1>14 DEF WriteFails
  <2>2. Good(a)
    BY <1>1
  <2>3. QED
    BY <2>1, <2>2 DEF Present, Ended
<1>15. ASSUME Undo(a)
       PROVE  Good(a)'
  <2>1. /\ pc[a] = "undoing" /\ pc'[a] = "undoing"
        /\ UNCHANGED <<phase, seen, before>>
    BY <1>0, <1>15 DEF Undo
  <2>2. Good(a) /\ a \in Faulty
    BY <1>1, <2>1 DEF Makers
  <2>3. QED
    BY <2>1, <2>2 DEF Present, Ended
<1>16. Good(a)'
  BY <1>8, <1>9, <1>10, <1>11, <1>12, <1>13, <1>14, <1>15 DEF Step, Fault
<1>17. QED
  BY <1>2, <1>16 DEF Sound

\* What a command reads to decide is torn by nobody when it publishes.
LEMMA ReadsAreWhole ==
    ASSUME AtomicInv, Sound, WholeReads, NEW c \in Command, pc[c] = "writing", ~ Exclusive(c),
           NEW s \in ReadsOf(c)
    PROVE  ~ TornByOther(c, s)
<1> SUFFICES ASSUME NEW d \in Command, d # c, FileOf[s] \in torn[d]
             PROVE  FALSE
  BY DEF TornByOther
<1>0. Inv /\ Locks /\ Makers /\ Vetted /\ pc[c] \in Active
  BY DEF AtomicInv, Active
<1>1. pc[d] \notin Active
  BY <1>0, Alone
<1>2. /\ pc[d] \in {"repair", "dead"}
      /\ Op[d].kind # "run"
      /\ Op[d].marks \subseteq made[d]
      /\ torn[d] \subseteq OwnFiles(d)
      /\ todo[d] \subseteq OwnFiles(d)
  BY <1>0, <1>1 DEF Inv, Publications, Positions, Active
<1>3. PICK t \in Owns(d) : FileOf[t] = FileOf[s]
  BY <1>2 DEF OwnFiles
<1>4. EntryOf[FileOf[s]] \in Op[d].marks \/ WholeLog \in Op[d].marks
  BY <1>2, <1>3, RegistryAssumption DEF Marked
<1>5. EntryOf[FileOf[s]] \in Checked(c)
  <2>1. Op[c].locks \subseteq locked[c]
    BY <1>0 DEF Locks
  <2>2. QED
    BY <2>1 DEF WholeReads, Checked
<1>6. CASE Exclusive(d)
  <2>1. made[d] \cap {EntryOf[FileOf[s]], WholeLog} = {}
    BY <1>0, <1>5, <1>6 DEF Vetted
  <2>2. QED
    BY <1>2, <1>4, <2>1
<1>7. CASE ~ Exclusive(d)
  <2>1. Op[d].kind = "sync"
    BY <1>2, <1>7, RegistryAssumption DEF Exclusive, IsOperation
  <2>2. WholeLog \notin Op[d].marks
    BY <2>1, SharedAssumption
  <2>3. d \notin Faulty => d \in Mortal \cup Interruptible /\ \E f, g \in OwnFiles(d) : f # g
    <3>1. ASSUME d \notin Faulty
          PROVE  todo[d] # {} /\ todo[d] \cap torn[d] = {}
      BY <3>1 DEF Sound
    <3>2. d \notin Faulty => d \in Mortal \cup Interruptible
      BY <1>0, <1>2 DEF Makers
    <3>3. QED
      BY <1>2, <3>1, <3>2
  <2>4. MayTear(d)
    BY <2>1, <2>3 DEF MayTear
  <2>5. EntryOf[FileOf[s]] \notin Op[d].marks
    BY <2>4 DEF WholeReads
  <2>6. QED
    BY <1>4, <2>2, <2>5
<1>8. QED
  BY <1>6, <1>7

\* A command that works alone finds nothing torn.
LEMMA NothingTornAlone ==
    ASSUME AtomicInv, NEW c \in Command, pc[c] = "writing", Exclusive(c), NEW s \in Slot
    PROVE  ~ TornByOther(c, s)
<1> SUFFICES ASSUME NEW d \in Command, d # c, FileOf[s] \in torn[d]
             PROVE  FALSE
  BY DEF TornByOther
<1>0. Inv /\ Locks /\ Makers
  BY DEF AtomicInv
<1>1. log[c] = "exclusive"
  BY <1>0 DEF Locks, Ended
<1>2. made[d] = {}
  BY <1>0, <1>1 DEF Makers, Inv, Markers
<1>3. Op[d].marks = {} /\ Op[d].kind # "run" /\ torn[d] \subseteq OwnFiles(d)
  BY <1>0, <1>2 DEF Inv, Publications
<1>4. PICK t \in Owns(d) : FileOf[t] = FileOf[s]
  BY <1>3 DEF OwnFiles
<1>5. QED
  BY <1>3, <1>4, RegistryAssumption DEF Marked

\* A publication leaves every use resolved.
LEMMA PublishResolves ==
    ASSUME AtomicInv, AtomicInv', Sound, UsesResolve, NoLateRun, UsesStated, WholeReads,
           NEW c \in Command, Step(c) \/ GiveUp(c) \/ Fault(c), Publishes(c)
    PROVE  UsesResolve'
<1> DEFINE old == before[c]
           after == Apply(c, Visible)
<1>0. /\ pc[c] = "writing" /\ Inv /\ Locks /\ Makers /\ Vetted /\ IsOperation(Op[c])
      /\ Owns(c) \subseteq Slot
  BY RegistryAssumption DEF Publishes, AtomicInv, Owns, IsOperation
<1>1. Visible' = after
  BY PublishCommits
<1>2. NothingLost(c, old) /\ (~ Exclusive(c) => \A u \in Op[c].uses \ Owns(c) : Present(old, u))
  BY <1>0 DEF Sound
<1>3. \A s \in Slot : ~ TornByOther(c, s) => Visible[s] = old[s]
  BY PublishedValues
<1>4. \A s \in Owns(c) : ~ TornByOther(c, s)
  <2>1. \A d \in Command : d # c => torn[d] \cap OwnFiles(c) = {}
    BY <1>0, FilesAreWhole
  <2>2. QED
    BY <2>1 DEF TornByOther, OwnFiles
<1>5. \A s \in Owns(c) : Visible[s] = old[s]
  BY <1>0, <1>3, <1>4
<1>6. \A s \in Slot :
        /\ s \in Owns(c) => after[s] = Apply(c, old)[s]
        /\ s \notin Owns(c) => after[s] = Visible[s] /\ Apply(c, old)[s] = old[s]
  BY <1>5, ApplyLocal
<1> SUFFICES ASSUME NEW s \in Slot, Requires[s] # None, Present(after, s)
             PROVE  Present(after, Requires[s])
  BY <1>1 DEF UsesResolve, Resolved, Present
<1> DEFINE u == Requires[s]
<1>7. u \in Slot
  BY RegistryAssumption
<1>8. Present(Visible, s) => Present(Visible, u)
  BY DEF UsesResolve, Resolved
<1>9. CASE u \in Owns(c)
  <2>1. CASE ~ TornByOther(c, s)
    <3>1. Present(Apply(c, old), s)
      BY <1>3, <1>6, <2>1 DEF Present
    <3>2. Present(Apply(c, old), u)
      BY <1>2, <1>9, <3>1 DEF NothingLost
    <3>3. QED
      BY <1>6, <1>7, <1>9, <3>2 DEF Present
  <2>2. CASE TornByOther(c, s)
    <3>1. ~ Exclusive(c)
      BY <1>0, <2>2, NothingTornAlone
    <3>2. s \notin ReadsOf(c)
      BY <1>0, <2>2, <3>1, ReadsAreWhole
    <3>3. DOMAIN Op[c].moves = {} /\ DOMAIN Op[c].policy = {}
      BY <1>0, <3>1, SharedAssumption DEF Exclusive, IsOperation
    <3>4. u \in DOMAIN Op[c].sets
      BY <1>9, <3>3 DEF Owns
    <3>5. Op[c].sets[u] # None
      BY <3>2, <3>4 DEF ReadsOf
    <3>6. after[u] = [Visible[u] EXCEPT !.authority = Op[c].sets[u]]
      BY <1>7, <3>3, <3>4, <3>5 DEF Apply
    <3>7. old[u] \in Value
      BY <1>0, <1>7 DEF Inv, TypeOK, Registry
    <3>8. Visible[u] \in Value
      BY <1>5, <1>9, <3>7
    <3>9. after[u].authority = Op[c].sets[u]
      BY <3>6, <3>8 DEF Value
    <3>10. QED
      BY <3>5, <3>9 DEF Present
  <2>3. QED
    BY <2>1, <2>2
<1>10. CASE u \notin Owns(c)
  <2>1. after[u] = Visible[u]
    BY <1>6, <1>7, <1>10
  <2>2. CASE s \notin Owns(c)
    BY <1>6, <1>8, <2>1, <2>2 DEF Present
  <2>3. CASE s \in DOMAIN Op[c].moves \/ (s \in DOMAIN Op[c].sets /\ Op[c].sets[s] # None)
    <3>1. ~ Exclusive(c) /\ u \in Op[c].uses
      BY <1>10, <2>3 DEF UsesStated
    <3>2. Present(old, u)
      BY <1>2, <1>10, <3>1
    <3>3. ~ TornByOther(c, u)
      BY <1>0, <3>1, ReadsAreWhole DEF ReadsOf
    <3>4. QED
      BY <1>3, <1>7, <2>1, <3>2, <3>3 DEF Present
  <2>4. CASE /\ s \in Owns(c)
             /\ s \notin DOMAIN Op[c].moves
             /\ ~ (s \in DOMAIN Op[c].sets /\ Op[c].sets[s] # None)
    <3>1. after[s] # Absent
      BY DEF Present, Absent
    <3>2. /\ ~ \E t \in DOMAIN Op[c].moves : Op[c].moves[t] = s
          /\ s \notin DOMAIN Op[c].sets
      BY <2>4, <3>1 DEF Apply
    <3>3. after[s] = IF s \in DOMAIN Op[c].policy
                     THEN [Visible[s] EXCEPT !.policy = Op[c].policy[s]]
                     ELSE Visible[s]
      BY <2>4, <3>2 DEF Apply
    <3>4. Visible[s] \in Value
      BY <1>0, <1>5, <2>4 DEF Inv, TypeOK, Registry
    <3>5. after[s].authority = Visible[s].authority
      BY <3>3, <3>4 DEF Value
    <3>6. QED
      BY <1>8, <2>1, <3>5 DEF Present
  <2>5. QED
    BY <2>2, <2>3, <2>4
<1>11. QED
  BY <1>9, <1>10

\* A reference, record or execution always finds the declaration it uses.
THEOREM UsesAlwaysResolve ==
    ASSUME NoDataInterrupt, NoLateRun, UsesStated, WholeReads
    PROVE  Spec => []UsesResolve
<1>1. Init => UsesResolve /\ Sound
  <2>1. SUFFICES ASSUME Init PROVE UsesResolve /\ Sound
    OBVIOUS
  <2>2. Visible = Initial
    BY <2>1 DEF Init, Visible
  <2>3. UsesResolve
    BY <2>2 DEF UsesResolve, UsesStated
  <2>4. \A c \in Command : ~ Exclusive(c) /\ phase[c] = "finish" => Op[c].kind = "run"
    BY <2>1, RegistryAssumption DEF Init, Exclusive, IsOperation
  <2>5. Sound
    BY <2>1, <2>4 DEF Init, Sound, UsesStated
  <2>6. QED
    BY <2>3, <2>5
<1>2. AtomicInv /\ AtomicInv' /\ Sound /\ UsesResolve /\ [Next]_vars => Sound' /\ UsesResolve'
  <2>1. ASSUME AtomicInv, AtomicInv', Sound, UsesResolve,
               NEW c \in Command, Step(c) \/ GiveUp(c) \/ Fault(c)
        PROVE  Sound' /\ UsesResolve'
    <3>1. Sound'
      BY <2>1, StepKeepsSound DEF AtomicInv
    <3>2. Visible' = Visible => UsesResolve'
      BY <2>1 DEF UsesResolve, Resolved, Present
    <3>3. Publishes(c) => UsesResolve'
      BY <2>1, PublishResolves
    <3>4. QED
      BY <2>1, <3>1, <3>2, <3>3, VisibleSteps
  <2>2. ASSUME Sound, UsesResolve, UNCHANGED vars
        PROVE  Sound' /\ UsesResolve'
    BY <2>2 DEF vars, local, Sound, UsesResolve, Resolved, Visible, Present, NothingLost
  <2>3. QED
    BY <2>1, <2>2 DEF Next
<1>3. QED
  BY <1>1, <1>2, InitAtomicInv, NextKeepsAtomicInv, PTL DEF Spec
=============================================================================
