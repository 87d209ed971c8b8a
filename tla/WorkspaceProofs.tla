--------------------------- MODULE WorkspaceProofs ---------------------------
(* What is proved of the snapshot workspace and of the reference runner that   *)
(* uses it, for any project, any number of edits and any cancellation.         *)
EXTENDS ReferenceExecution, FiniteSetTheorems, TLAPS

-----------------------------------------------------------------------------
(* The inductive invariant. A project only grows older: Later(t, u) says that  *)
(* u can follow t. A walk that began after moment t finds nothing older than t *)
(* (FutureOf), one that ended before t nothing younger (PastOf); what it did   *)
(* not list was gone by then, or not made yet.                                 *)

Later(t, u) == \A f \in File :
    /\ t[f].text <= u[f].text /\ t[f].node <= u[f].node
    /\ t[f].state # "Unmade" => u[f].state # "Unmade"
    /\ t[f].state = "Gone" => u[f].state = "Gone"

\* A file that was there at first is never unmade, one that was not is never gone.
Lawful(t) == \A f \in File :
    /\ t[f].state = "Unmade" => f \notin Original
    /\ t[f].state = "Gone" => f \in Original

PastOf(m, t) == \A f \in DOMAIN m :
    /\ t[f].state # "Unmade"
    /\ m[f].node <= t[f].node /\ m[f].text <= t[f].text

FutureOf(t, m) == \A f \in DOMAIN m :
    /\ t[f].state # "Gone"
    /\ t[f].node <= m[f].node /\ t[f].text <= m[f].text

Missed == {f \in File : DirectoryOf[f] \notin unread /\ f \notin unvisited /\ f \notin DOMAIN found}

PlaceInv ==
    /\ place \in {"Capture", "MakeRoot"} => root # "Present"
    /\ place \in {"Copy", "Verify", "Discard", "Recheck", "Remove"} => root = "Present"
    /\ place # "Idle" => answer = "None"

TreeInv ==
    /\ Lawful(tree) /\ Lawful(atCapture) /\ Lawful(atVerify)
    /\ \A f \in File : tree[f].text <= edits /\ tree[f].node <= edits
    /\ Later(atCapture, tree) /\ Later(atVerify, tree)
    /\ place \in {"Verify", "Recheck"} => Later(atCapture, atVerify)

OpenedInv ==
    \A o \in opened :
        /\ o.file \in unvisited /\ o.node <= tree[o.file].node
        /\ place \in {"Verify", "Recheck"} => atVerify[o.file].node <= o.node

CaptureInv ==
    place = "Capture" =>
        /\ PastOf(found, tree)
        /\ \A f \in unvisited : tree[f].state # "Unmade"
        /\ \A f \in Missed \cap Original : tree[f].state = "Gone"

VerifyInv ==
    place \in {"Verify", "Recheck"} =>
        /\ FutureOf(atVerify, found)
        /\ \A f \in Missed \ Original : atVerify[f].state = "Unmade"

ManifestInv ==
    place \in {"MakeRoot", "Copy", "Verify"} \/ root = "Present" =>
        /\ PastOf(manifest, atCapture)
        /\ \A f \in Original \ DOMAIN manifest : atCapture[f].state = "Gone"

CopyInv ==
    /\ place \in {"Capture", "MakeRoot"} => DOMAIN copy = {}
    /\ place \in {"Copy", "Verify"} \/ HasSnapshot =>
          \A f \in DOMAIN copy : f \in DOMAIN manifest /\ copy[f] = manifest[f].text
    /\ place = "Verify" \/ HasSnapshot => DOMAIN copy = DOMAIN manifest
    /\ HasSnapshot => Identities(atCapture) = manifest

IInv ==
    /\ WorkspaceTypeOK
    /\ PlaceInv /\ TreeInv /\ OpenedInv /\ CaptureInv /\ VerifyInv /\ ManifestInv /\ CopyInv
    /\ ChangesAreNoticed
-----------------------------------------------------------------------------
(* Lemmas about maps and manifests. *)

(* A partial map of the files is a function on some of them.                   *)
LEMMA PartialMap ==
  ASSUME NEW S, NEW m
  PROVE  m \in Partial(S) <=>
           m = [f \in DOMAIN m |-> m[f]] /\ DOMAIN m \subseteq File /\ \A f \in DOMAIN m : m[f] \in S
  BY DEF Partial

(* Where SameManifest holds, the two walks found the same files with the same  *)
(* identities: the count and one inclusion are enough (VerifyOriginal).         *)
LEMMA SameManifestIsEquality ==
  ASSUME NEW a \in Partial(Identity), NEW b \in Partial(Identity), SameManifest(a, b)
  PROVE  a = b
<1>1. IsFiniteSet(DOMAIN a)
  BY PartialMap, FS_Subset, WorkspaceAssumption
<1>2. DOMAIN b \in SUBSET DOMAIN a
  BY DEF SameManifest
<1>3. DOMAIN a = DOMAIN b
  BY <1>1, <1>2, FS_Subset DEF SameManifest
<1> QED
  BY <1>3, PartialMap DEF SameManifest

(* Two walks that agree, one over before the other began, agree with every     *)
(* moment between them: an edit never brings back what a path was before.      *)
LEMMA Agreement ==
  ASSUME NEW m \in Partial(Identity), NEW c \in [File -> Entry], NEW t \in [File -> Entry],
         NEW v \in [File -> Entry], Lawful(c), Lawful(v),
         Later(c, t), Later(t, v), PastOf(m, c), FutureOf(v, m),
         \A f \in Original \ DOMAIN m : c[f].state = "Gone",
         \A f \in (File \ DOMAIN m) \ Original : v[f].state = "Unmade"
  PROVE  Identities(t) = m
<1>1. DOMAIN m \subseteq File /\ m = [f \in DOMAIN m |-> m[f]] /\ \A f \in DOMAIN m : m[f] \in Identity
  BY PartialMap
<1>2. \A f \in DOMAIN m : /\ t[f].state # "Unmade" /\ t[f].state # "Gone"
                          /\ t[f].node = m[f].node /\ t[f].text = m[f].text
  <2> SUFFICES ASSUME NEW f \in DOMAIN m
               PROVE  /\ t[f].state # "Unmade" /\ t[f].state # "Gone"
                      /\ t[f].node = m[f].node /\ t[f].text = m[f].text
    OBVIOUS
  <2>1. /\ c[f].node \in Nat /\ t[f].node \in Nat /\ v[f].node \in Nat /\ m[f].node \in Nat
        /\ c[f].text \in Nat /\ t[f].text \in Nat /\ v[f].text \in Nat /\ m[f].text \in Nat
    BY <1>1, WorkspaceAssumption DEF Entry, Identity, Version
  <2>2. m[f].node <= c[f].node /\ c[f].node <= t[f].node /\ t[f].node <= v[f].node /\ v[f].node <= m[f].node
    BY <1>1 DEF Later, PastOf, FutureOf
  <2>3. m[f].text <= c[f].text /\ c[f].text <= t[f].text /\ t[f].text <= v[f].text /\ v[f].text <= m[f].text
    BY <1>1 DEF Later, PastOf, FutureOf
  <2>4. t[f].state # "Unmade" /\ t[f].state # "Gone"
    BY <1>1 DEF Later, PastOf, FutureOf
  <2> QED
    BY <2>1, <2>2, <2>3, <2>4
<1>3. \A f \in File \ DOMAIN m : t[f].state \in {"Unmade", "Gone"}
  <2> SUFFICES ASSUME NEW f \in File \ DOMAIN m
               PROVE  t[f].state \in {"Unmade", "Gone"}
    OBVIOUS
  <2>1. CASE f \in Original
    BY <2>1 DEF Later
  <2>2. CASE f \notin Original
    BY <2>2 DEF Later
  <2> QED
    BY <2>1, <2>2
<1>4. \A f \in File : t[f].state \in {"Unmade", "Regular", "Odd", "Gone"}
  BY DEF Entry
<1>5. Visible(t) = DOMAIN m
  BY <1>1, <1>2, <1>3, <1>4 DEF Visible
<1>6. \A f \in DOMAIN m : m[f] = [node |-> t[f].node, text |-> t[f].text]
  <2> SUFFICES ASSUME NEW f \in DOMAIN m
               PROVE  m[f] = [node |-> t[f].node, text |-> t[f].text]
    OBVIOUS
  <2>1. m[f] = [node |-> m[f].node, text |-> m[f].text]
    BY <1>1 DEF Identity
  <2> QED
    BY <2>1, <1>2
<1> QED
  BY <1>1, <1>5, <1>6 DEF Identities

\* A project is later than itself.
LEMMA LaterReflexive ==
  ASSUME NEW t \in [File -> Entry]
  PROVE  Later(t, t)
  BY WorkspaceAssumption DEF Later, Entry, Version

\* A project later than a later one is later.
LEMMA LaterTransitive ==
  ASSUME NEW t \in [File -> Entry], NEW u \in [File -> Entry], NEW w \in [File -> Entry],
         Later(t, u), Later(u, w)
  PROVE  Later(t, w)
<1> SUFFICES ASSUME NEW f \in File
             PROVE  /\ t[f].text <= w[f].text /\ t[f].node <= w[f].node
                    /\ t[f].state # "Unmade" => w[f].state # "Unmade"
                    /\ t[f].state = "Gone" => w[f].state = "Gone"
  BY DEF Later
<1>1. /\ t[f].node \in Nat /\ u[f].node \in Nat /\ w[f].node \in Nat
      /\ t[f].text \in Nat /\ u[f].text \in Nat /\ w[f].text \in Nat
  BY WorkspaceAssumption DEF Entry, Version
<1> QED
  BY <1>1 DEF Later

-----------------------------------------------------------------------------
(* Edits. *)

(* What every edit has in common: the file was not gone, will not be unmade,   *)
(* and gets no number that was given out before.                                *)
LEMMA EditShape ==
  ASSUME tree \in [File -> Entry], edits \in Version, EditStep
  PROVE  \E f \in File, e \in Entry :
           /\ Edit(f, e)
           /\ tree[f].state # "Gone" /\ e.state # "Unmade"
           /\ e.state = "Gone" => f \in Original
           /\ e.text \in {tree[f].text, edits + 1} /\ e.node \in {tree[f].node, edits + 1}
<1>1. PICK f \in File : Rewrite(f) \/ Replace(f) \/ Make(f) \/ Delete(f) \/ Twist(f)
  BY DEF EditStep
<1>2. edits \in Nat /\ edits < MaxEdits /\ edits + 1 \in Version
  <2>1. edits < MaxEdits
    BY <1>1 DEF Rewrite, Replace, Make, Delete, Twist, Edit
  <2> QED
    BY <2>1, WorkspaceAssumption DEF Version
<1>3. tree[f] \in Entry
  OBVIOUS
<1>4. CASE Rewrite(f)
  <2>1. [tree[f] EXCEPT !.text = edits + 1] \in Entry
    BY <1>2, <1>3 DEF Entry
  <2> QED
    BY <1>3, <1>4, <2>1 DEF Rewrite, Entry
<1>5. CASE Replace(f)
  <2>1. PICK t \in Fresh(f) : Edit(f, [state |-> "Regular", text |-> t, node |-> edits + 1])
    BY <1>5 DEF Replace
  <2>2. t \in Version /\ t \in {tree[f].text, edits + 1}
    BY <1>2, <1>3 DEF Fresh, Entry
  <2>3. [state |-> "Regular", text |-> t, node |-> edits + 1] \in Entry
    BY <1>2, <2>2 DEF Entry
  <2> QED
    BY <1>5, <2>1, <2>2, <2>3 DEF Replace
<1>6. CASE Make(f)
  <2>1. [state |-> "Regular", text |-> edits + 1, node |-> edits + 1] \in Entry
    BY <1>2 DEF Entry
  <2> QED
    BY <1>6, <2>1 DEF Make
<1>7. CASE Delete(f)
  <2>1. [tree[f] EXCEPT !.state = "Gone"] \in Entry
    BY <1>3 DEF Entry
  <2> QED
    BY <1>3, <1>7, <2>1 DEF Delete, Entry
<1>8. CASE Twist(f)
  <2>1. PICK t \in Fresh(f) : Edit(f, [tree[f] EXCEPT !.state = "Odd", !.text = t])
    BY <1>8 DEF Twist
  <2>2. t \in Version /\ t \in {tree[f].text, edits + 1}
    BY <1>2, <1>3 DEF Fresh, Entry
  <2>3. [tree[f] EXCEPT !.state = "Odd", !.text = t] \in Entry
    BY <1>3, <2>2 DEF Entry
  <2> QED
    BY <1>3, <1>8, <2>1, <2>2, <2>3 DEF Twist, Entry
<1> QED
  BY <1>1, <1>4, <1>5, <1>6, <1>7, <1>8

(* The project grows older, and stays lawful and numbered, with every edit.    *)
LEMMA EditGrows ==
  ASSUME tree \in [File -> Entry], edits \in Version, Lawful(tree),
         \A f \in File : tree[f].text <= edits /\ tree[f].node <= edits,
         EditStep
  PROVE  /\ tree' \in [File -> Entry] /\ edits' \in Version
         /\ UNCHANGED <<place, walkVars, copyVars, answer, momentVars>>
         /\ Later(tree, tree') /\ Lawful(tree')
         /\ \A f \in File : tree'[f].text <= edits' /\ tree'[f].node <= edits'
<1>1. PICK f \in File, e \in Entry :
         /\ Edit(f, e)
         /\ tree[f].state # "Gone" /\ e.state # "Unmade"
         /\ e.state = "Gone" => f \in Original
         /\ e.text \in {tree[f].text, edits + 1} /\ e.node \in {tree[f].node, edits + 1}
  BY EditShape
<1>2. tree' = [tree EXCEPT ![f] = e] /\ edits' = edits + 1 /\ edits < MaxEdits
  BY <1>1 DEF Edit
<1>3. edits \in Nat /\ edits' \in Version
  BY <1>2, WorkspaceAssumption DEF Version
<1>4. \A g \in File : /\ tree[g].text \in Nat /\ tree[g].node \in Nat
                      /\ tree'[g] = IF g = f THEN e ELSE tree[g]
  BY <1>2, WorkspaceAssumption DEF Entry, Version
<1>5. tree[f].text <= e.text /\ tree[f].node <= e.node /\ e.text <= edits + 1 /\ e.node <= edits + 1
  BY <1>1, <1>3, <1>4
<1>6. Later(tree, tree')
  BY <1>1, <1>4, <1>5 DEF Later
<1>7. Lawful(tree')
  BY <1>1, <1>4 DEF Lawful
<1>8. \A g \in File : tree'[g].text <= edits' /\ tree'[g].node <= edits'
  BY <1>2, <1>3, <1>4, <1>5
<1>9. tree' \in [File -> Entry]
  BY <1>2
<1>10. UNCHANGED <<place, walkVars, copyVars, answer, momentVars>>
  BY <1>1 DEF Edit
<1> QED
  BY <1>3, <1>6, <1>7, <1>8, <1>9, <1>10

(* Every edit preserves the invariant.                                          *)
LEMMA EditStable ==
  ASSUME IInv, EditStep
  PROVE  IInv'
<1> USE DEF walkVars, copyVars, momentVars
<1>1. tree \in [File -> Entry] /\ edits \in Version /\ atCapture \in [File -> Entry] /\ atVerify \in [File -> Entry]
  BY DEF IInv, WorkspaceTypeOK
<1>2. /\ tree' \in [File -> Entry] /\ edits' \in Version
      /\ UNCHANGED <<place, walkVars, copyVars, answer, momentVars>>
      /\ Later(tree, tree') /\ Lawful(tree')
      /\ \A f \in File : tree'[f].text <= edits' /\ tree'[f].node <= edits'
  BY <1>1, EditGrows DEF IInv, TreeInv
<1>3. WorkspaceTypeOK'
  BY <1>2 DEF IInv, WorkspaceTypeOK
<1>4. PlaceInv'
  BY <1>2 DEF IInv, PlaceInv
<1>5. TreeInv'
  <2>1. Later(atCapture, tree') /\ Later(atVerify, tree')
    BY <1>1, <1>2, LaterTransitive DEF IInv, TreeInv
  <2> QED
    BY <1>2, <2>1 DEF IInv, TreeInv, Lawful, Later
<1>6. \A f \in File : /\ tree[f].text \in Nat /\ tree[f].node \in Nat
                      /\ tree'[f].text \in Nat /\ tree'[f].node \in Nat
  BY <1>1, <1>2, WorkspaceAssumption DEF Entry, Version
<1>7. OpenedInv'
  <2>1. \A o \in opened : o.file \in File /\ o.node \in Nat
    BY WorkspaceAssumption DEF IInv, WorkspaceTypeOK, Version
  <2> QED
    BY <1>2, <1>6, <2>1 DEF IInv, OpenedInv, Later
<1>8. CaptureInv'
  <2>1. DOMAIN found \subseteq File /\ \A f \in DOMAIN found : found[f].node \in Nat /\ found[f].text \in Nat
    <3>1. found \in Partial(Identity)
      BY DEF IInv, WorkspaceTypeOK
    <3>2. DOMAIN found \subseteq File /\ \A f \in DOMAIN found : found[f] \in Identity
      BY <3>1, PartialMap
    <3> QED
      BY <3>2, WorkspaceAssumption DEF Identity, Version
  <2>2. place = "Capture" => PastOf(found, tree')
    BY <1>2, <1>6, <2>1 DEF IInv, CaptureInv, PastOf, Later
  <2>3. unvisited \subseteq File /\ Missed \subseteq File
    BY DEF IInv, WorkspaceTypeOK, Missed
  <2> QED
    BY <1>2, <2>2, <2>3 DEF IInv, CaptureInv, PastOf, Later, Missed
<1>9. VerifyInv' /\ ManifestInv' /\ CopyInv' /\ ChangesAreNoticed'
  BY <1>2 DEF IInv, VerifyInv, ManifestInv, CopyInv, ChangesAreNoticed, FutureOf, PastOf, Missed,
              HasSnapshot, Identities, Visible
<1> QED
  BY <1>3, <1>4, <1>5, <1>7, <1>8, <1>9 DEF IInv

-----------------------------------------------------------------------------
(* The walk. *)

(* What the invariant says of the kinds of the variables, number by number.    *)
LEMMA Numbers ==
  ASSUME WorkspaceTypeOK
  PROVE  /\ \A f \in File : /\ tree[f].text \in Nat /\ tree[f].node \in Nat
                            /\ tree[f].text \in Version /\ tree[f].node \in Version
                            /\ atVerify[f].text \in Nat /\ atVerify[f].node \in Nat
                            /\ tree[f].state \in {"Unmade", "Regular", "Odd", "Gone"}
         /\ \A o \in opened : o.file \in File /\ o.node \in Nat /\ o.node \in Version
         /\ DOMAIN found \subseteq File /\ DOMAIN manifest \subseteq File /\ DOMAIN copy \subseteq File
         /\ \A f \in DOMAIN found : found[f] \in Identity
<1>1. Version \subseteq Nat
  BY WorkspaceAssumption DEF Version
<1>2. /\ tree \in [File -> Entry] /\ atVerify \in [File -> Entry] /\ opened \subseteq [file : File, node : Version]
      /\ found \in Partial(Identity) /\ manifest \in Partial(Identity) /\ copy \in Partial(Version)
  BY DEF WorkspaceTypeOK
<1>3. /\ DOMAIN found \subseteq File /\ DOMAIN manifest \subseteq File /\ DOMAIN copy \subseteq File
      /\ \A f \in DOMAIN found : found[f] \in Identity
  BY <1>2, PartialMap
<1>4. \A f \in File : /\ tree[f].text \in Version /\ tree[f].node \in Version
                      /\ atVerify[f].text \in Version /\ atVerify[f].node \in Version
                      /\ tree[f].state \in {"Unmade", "Regular", "Odd", "Gone"}
  BY <1>2 DEF Entry
<1>5. \A o \in opened : o.file \in File /\ o.node \in Version
  BY <1>2
<1> QED
  BY <1>1, <1>3, <1>4, <1>5

(* A walk that begins has missed nothing. *)
LEMMA FreshWalk ==
  ASSUME NEW at \in Walking, StartWalk(at)
  PROVE  /\ Missed' = {} /\ DOMAIN found' = {} /\ found' \in Partial(Identity)
         /\ unread' \subseteq Directory /\ unvisited' = {} /\ opened' = {} /\ place' = at
         /\ Cardinality(opened') <= 1
<1>1. unread' = Directory /\ unvisited' = {} /\ opened' = {} /\ place' = at /\ found' = EmptyMap
  BY DEF StartWalk
<1>2. Missed' = {}
  BY <1>1, WorkspaceAssumption DEF Missed
<1>3. DOMAIN found' = {} /\ found' \in Partial(Identity)
  BY <1>1, PartialMap DEF EmptyMap
<1>4. Cardinality(opened') <= 1
  BY <1>1, FS_EmptySet
<1> QED
  BY <1>1, <1>2, <1>3, <1>4

\* Reading a directory keeps the invariant.
LEMMA ReadDirectoryStable ==
  ASSUME IInv, NEW d \in Directory, ReadDirectory(d)
  PROVE  IInv'
<1> USE DEF walkVars, copyVars, momentVars, projectVars
<1>1. /\ place \in Walking /\ opened = {} /\ d \in unread
      /\ unread' = unread \ {d}
      /\ unvisited' = unvisited \cup {f \in Visible(tree) : DirectoryOf[f] = d}
      /\ UNCHANGED <<tree, edits, place, opened, found, manifest, copy, root, answer, atCapture, atVerify>>
  BY DEF ReadDirectory
<1>2. WorkspaceTypeOK'
  BY <1>1 DEF IInv, WorkspaceTypeOK, Visible
<1>3. PlaceInv' /\ TreeInv' /\ OpenedInv' /\ ManifestInv' /\ CopyInv' /\ ChangesAreNoticed'
  BY <1>1 DEF IInv, PlaceInv, TreeInv, OpenedInv, ManifestInv, CopyInv, ChangesAreNoticed, HasSnapshot,
              Lawful, Later, PastOf, Identities, Visible
<1>4. \A f \in Missed' : f \in Missed \/ tree[f].state \in {"Unmade", "Gone"}
  <2>1. \A f \in File : tree[f].state \in {"Unmade", "Regular", "Odd", "Gone"}
    BY Numbers DEF IInv
  <2> QED
    BY <1>1, <2>1 DEF Missed, Visible
<1>5. Missed' \subseteq File /\ Missed \subseteq File
  BY DEF Missed
<1>6. CaptureInv'
  BY <1>1, <1>4, <1>5 DEF IInv, CaptureInv, TreeInv, Lawful, PastOf, Visible
<1>7. VerifyInv'
  BY <1>1, <1>4, <1>5 DEF IInv, VerifyInv, TreeInv, Lawful, Later, FutureOf
<1> QED
  BY <1>2, <1>3, <1>6, <1>7 DEF IInv

\* Looking at one entry keeps the invariant.
LEMMA InspectStable ==
  ASSUME IInv, NEW f \in File, Inspect(f)
  PROVE  IInv'
<1> USE DEF walkVars, copyVars, momentVars, projectVars
<1>1. /\ place \in Walking /\ f \in unvisited
      /\ opened' = {[file |-> f, node |-> tree[f].node]}
      /\ UNCHANGED <<tree, edits, place, unread, unvisited, found, manifest, copy, root, answer,
                     atCapture, atVerify>>
  BY DEF Inspect, IsNext
<1>2. WorkspaceTypeOK'
  <2> DEFINE o == [file |-> f, node |-> tree[f].node]
  <2>1. Cardinality({o}) = 1
    BY FS_Singleton
  <2> HIDE DEF o
  <2>3. Cardinality(opened') <= 1
    BY <1>1, <2>1 DEF o
  <2>2. opened' \subseteq [file : File, node : Version]
    BY <1>1, Numbers DEF IInv
  <2> QED
    BY <1>1, <2>2, <2>3 DEF IInv, WorkspaceTypeOK
<1>3. PlaceInv' /\ TreeInv' /\ CaptureInv' /\ VerifyInv' /\ ManifestInv' /\ CopyInv' /\ ChangesAreNoticed'
  BY <1>1 DEF IInv, PlaceInv, TreeInv, CaptureInv, VerifyInv, ManifestInv, CopyInv, ChangesAreNoticed,
              HasSnapshot, Lawful, Later, PastOf, FutureOf, Missed, Identities, Visible
<1>4. OpenedInv'
  <2>1. tree[f].node \in Nat
    BY Numbers DEF IInv
  <2> QED
    BY <1>1, <2>1 DEF IInv, OpenedInv, TreeInv, Later
<1> QED
  BY <1>2, <1>3, <1>4 DEF IInv

\* Digesting one file keeps the invariant.
LEMMA DigestStable ==
  ASSUME IInv, NEW o \in opened, Digest(o)
  PROVE  IInv'
<1> USE DEF walkVars, copyVars, momentVars, projectVars
<1>1. /\ place \in Walking /\ o.file \in Visible(tree)
      /\ found' = [g \in DOMAIN found \cup {o.file} |->
                     IF g = o.file THEN [node |-> o.node, text |-> tree[g].text] ELSE found[g]]
      /\ unvisited' = unvisited \ {o.file}
      /\ opened' = {}
      /\ UNCHANGED <<tree, edits, place, unread, manifest, copy, root, answer, atCapture, atVerify>>
  BY DEF Digest
<1>2. /\ o.file \in File /\ o.node \in Nat /\ o.node \in Version
      /\ tree[o.file].text \in Nat /\ tree[o.file].text \in Version
      /\ tree[o.file].state \notin {"Unmade", "Gone"}
  BY <1>1, Numbers DEF IInv, Visible
<1>3. DOMAIN found \subseteq File /\ \A g \in DOMAIN found : found[g] \in Identity
  BY Numbers DEF IInv
<1>4. /\ DOMAIN found' = DOMAIN found \cup {o.file}
      /\ found'[o.file] = [node |-> o.node, text |-> tree[o.file].text]
      /\ \A g \in DOMAIN found' : g # o.file => g \in DOMAIN found /\ found'[g] = found[g]
  BY <1>1
<1>5. WorkspaceTypeOK'
  <2>1. \A g \in DOMAIN found' : found'[g] \in Identity
    BY <1>2, <1>3, <1>4 DEF Identity
  <2>2. found' \in Partial(Identity)
    BY <1>1, <1>2, <1>3, <1>4, <2>1, PartialMap
  <2>3. Cardinality(opened') <= 1
    BY <1>1, FS_EmptySet
  <2> QED
    BY <1>1, <2>2, <2>3 DEF IInv, WorkspaceTypeOK
<1>6. PlaceInv' /\ TreeInv' /\ OpenedInv' /\ ManifestInv' /\ CopyInv' /\ ChangesAreNoticed'
  BY <1>1 DEF IInv, PlaceInv, TreeInv, OpenedInv, ManifestInv, CopyInv, ChangesAreNoticed,
              HasSnapshot, Lawful, Later, PastOf, Identities, Visible
<1>7. Missed' \subseteq Missed
  BY <1>1, <1>4 DEF Missed
<1>8. CaptureInv'
  <2>1. place = "Capture" => PastOf(found', tree)
    BY <1>2, <1>4 DEF IInv, CaptureInv, OpenedInv, PastOf
  <2> QED
    BY <1>1, <1>7, <2>1 DEF IInv, CaptureInv, PastOf
<1>9. VerifyInv'
  <2>1. place \in {"Verify", "Recheck"} => FutureOf(atVerify, found')
    BY <1>2, <1>4 DEF IInv, VerifyInv, OpenedInv, TreeInv, Later, FutureOf
  <2> QED
    BY <1>1, <1>7, <2>1 DEF IInv, VerifyInv, FutureOf
<1> QED
  BY <1>5, <1>6, <1>8, <1>9 DEF IInv

-----------------------------------------------------------------------------
(* Create. *)

LEMMA CallCreateStable ==
  ASSUME IInv, CallCreate
  PROVE  IInv'
<1> USE DEF walkVars, copyVars, momentVars, projectVars
<1>1. /\ root = "None" /\ StartWalk("Capture")
      /\ copy' = EmptyMap /\ manifest' = EmptyMap /\ answer' = "None"
      /\ UNCHANGED <<tree, edits, root, atCapture, atVerify>>
  BY DEF CallCreate
<1>2. /\ Missed' = {} /\ DOMAIN found' = {} /\ found' \in Partial(Identity)
      /\ unread' \subseteq Directory /\ unvisited' = {} /\ opened' = {} /\ place' = "Capture"
      /\ Cardinality(opened') <= 1
  BY <1>1, FreshWalk DEF Walking
<1>3. WorkspaceTypeOK'
  <2>1. EmptyMap \in Partial(Identity) /\ EmptyMap \in Partial(Version)
    BY PartialMap DEF EmptyMap
  <2> QED
    BY <1>1, <1>2, <2>1 DEF IInv, WorkspaceTypeOK, Place, Walking, Answer
<1>4. DOMAIN copy' = {}
  BY <1>1 DEF EmptyMap
<1> QED
  BY <1>1, <1>2, <1>3, <1>4 DEF IInv, PlaceInv, TreeInv, OpenedInv, CaptureInv, VerifyInv, ManifestInv, CopyInv,
     ChangesAreNoticed, HasSnapshot, Lawful, Later, PastOf

\* The end of a capture keeps the invariant: its manifest lies between the
\* project when it began and the project now.
LEMMA EndCaptureStable ==
  ASSUME IInv, EndCapture
  PROVE  IInv'
<1> USE DEF walkVars, copyVars, momentVars, projectVars
<1>1. /\ place = "Capture" /\ unread = {} /\ unvisited = {} /\ opened = {}
      /\ manifest' = found /\ atCapture' = tree /\ place' = "MakeRoot"
      /\ UNCHANGED <<tree, edits, unread, unvisited, opened, found, copy, root, answer, atVerify>>
  BY DEF EndCapture, WalkIsOver
<1>2. WorkspaceTypeOK'
  BY <1>1 DEF IInv, WorkspaceTypeOK, Place
<1>3. TreeInv'
  <2>1. Later(tree, tree)
    BY LaterReflexive DEF IInv, WorkspaceTypeOK
  <2> QED
    BY <1>1, <2>1 DEF IInv, TreeInv, Lawful, Later
<1>4. ManifestInv'
  BY <1>1, WorkspaceAssumption DEF IInv, CaptureInv, ManifestInv, PastOf, Missed
<1> QED
  BY <1>1, <1>2, <1>3, <1>4 DEF IInv, PlaceInv, OpenedInv, CaptureInv, VerifyInv, CopyInv, ChangesAreNoticed,
     HasSnapshot

\* Making the root of the copy keeps the invariant.
LEMMA MakeRootStable ==
  ASSUME IInv, MakeRoot
  PROVE  IInv'
<1> USE DEF walkVars, copyVars, momentVars, projectVars
<1>1. /\ place = "MakeRoot"
      /\ \/ root' = "Present" /\ place' = "Copy" /\ answer' = answer
         \/ root' \in {"None", "Left"} /\ place' = "Idle" /\ answer' = "Refused"
      /\ UNCHANGED <<tree, edits, unread, unvisited, opened, found, manifest, copy, atCapture, atVerify>>
  BY DEF MakeRoot
<1>2. WorkspaceTypeOK'
  BY <1>1 DEF IInv, WorkspaceTypeOK, Place, Answer
<1> QED
  BY <1>1, <1>2 DEF IInv, PlaceInv, TreeInv, OpenedInv, CaptureInv, VerifyInv, ManifestInv, CopyInv,
     ChangesAreNoticed, HasSnapshot, Lawful, Later, PastOf

\* Copying one file keeps the invariant.
LEMMA CopyOneFileStable ==
  ASSUME IInv, NEW f \in File, CopyOneFile(f)
  PROVE  IInv'
<1> USE DEF walkVars, copyVars, momentVars, projectVars
<1>1. /\ place = "Copy" /\ f \in DOMAIN manifest /\ tree[f].text = manifest[f].text
      /\ copy' = [g \in DOMAIN copy \cup {f} |-> IF g = f THEN tree[f].text ELSE copy[g]]
      /\ UNCHANGED <<tree, edits, place, unread, unvisited, opened, found, manifest, root, answer,
                     atCapture, atVerify>>
  BY DEF CopyOneFile, IsNext
<1>2. /\ DOMAIN copy' = DOMAIN copy \cup {f} /\ copy'[f] = tree[f].text
      /\ \A g \in DOMAIN copy' : g # f => g \in DOMAIN copy /\ copy'[g] = copy[g]
  BY <1>1
<1>3. WorkspaceTypeOK'
  <2>1. copy \in Partial(Version) /\ tree[f].text \in Version
    BY Numbers DEF IInv, WorkspaceTypeOK
  <2>2. DOMAIN copy \subseteq File /\ \A g \in DOMAIN copy : copy[g] \in Version
    BY <2>1, PartialMap
  <2>3. \A g \in DOMAIN copy' : copy'[g] \in Version
    BY <1>2, <2>1, <2>2
  <2>4. copy' = [g \in DOMAIN copy' |-> copy'[g]] /\ DOMAIN copy' \subseteq File
    BY <1>1, <2>2
  <2>5. copy' \in Partial(Version)
    BY <2>3, <2>4, PartialMap
  <2> QED
    BY <1>1, <2>5 DEF IInv, WorkspaceTypeOK
<1>4. CopyInv'
  BY <1>1, <1>2 DEF IInv, CopyInv, HasSnapshot
<1> QED
  BY <1>1, <1>3, <1>4 DEF IInv, PlaceInv, TreeInv, OpenedInv, CaptureInv, VerifyInv, ManifestInv,
     ChangesAreNoticed, Lawful, Later, PastOf

\* The end of the copy keeps the invariant.
LEMMA EndCopyStable ==
  ASSUME IInv, EndCopy
  PROVE  IInv'
<1> USE DEF walkVars, copyVars, momentVars, projectVars
<1>1. /\ place = "Copy" /\ DOMAIN copy = DOMAIN manifest /\ StartWalk("Verify") /\ atVerify' = tree
      /\ UNCHANGED <<tree, edits, manifest, copy, root, answer, atCapture>>
  BY DEF EndCopy
<1>2. /\ Missed' = {} /\ DOMAIN found' = {} /\ found' \in Partial(Identity)
      /\ unread' \subseteq Directory /\ unvisited' = {} /\ opened' = {} /\ place' = "Verify"
      /\ Cardinality(opened') <= 1
  BY <1>1, FreshWalk DEF Walking
<1>3. WorkspaceTypeOK'
  BY <1>1, <1>2 DEF IInv, WorkspaceTypeOK, Place, Walking
<1>4. TreeInv'
  <2>1. Later(tree, tree)
    BY LaterReflexive DEF IInv, WorkspaceTypeOK
  <2> QED
    BY <1>1, <1>2, <2>1 DEF IInv, TreeInv, Lawful, Later
<1>5. VerifyInv' /\ CaptureInv' /\ OpenedInv'
  BY <1>2 DEF VerifyInv, CaptureInv, OpenedInv, FutureOf
<1> QED
  BY <1>1, <1>2, <1>3, <1>4, <1>5 DEF IInv, PlaceInv, ManifestInv, CopyInv, ChangesAreNoticed,
     HasSnapshot, PastOf

\* Discarding a copy that failed keeps the invariant.
LEMMA DiscardStable ==
  ASSUME IInv, Discard
  PROVE  IInv'
<1> USE DEF walkVars, copyVars, momentVars, projectVars
<1>1. /\ place = "Discard" /\ root' \in {"None", "Left"} /\ place' = "Idle" /\ answer' = "Refused"
      /\ UNCHANGED <<tree, edits, unread, unvisited, opened, found, manifest, copy, atCapture, atVerify>>
  BY DEF Discard
<1>2. WorkspaceTypeOK'
  BY <1>1 DEF IInv, WorkspaceTypeOK, Place, Answer
<1> QED
  BY <1>1, <1>2 DEF IInv, PlaceInv, TreeInv, OpenedInv, CaptureInv, VerifyInv, ManifestInv, CopyInv,
     ChangesAreNoticed, HasSnapshot, Lawful, Later, PastOf

-----------------------------------------------------------------------------
(* VerifyOriginal and Remove. *)

LEMMA CallVerifyStable ==
  ASSUME IInv, CallVerifyOriginal
  PROVE  IInv'
<1> USE DEF walkVars, copyVars, momentVars, projectVars
<1>1. /\ place = "Idle" /\ root = "Present" /\ StartWalk("Recheck") /\ atVerify' = tree /\ answer' = "None"
      /\ UNCHANGED <<tree, edits, manifest, copy, root, atCapture>>
  BY DEF CallVerifyOriginal
<1>2. /\ Missed' = {} /\ DOMAIN found' = {} /\ found' \in Partial(Identity)
      /\ unread' \subseteq Directory /\ unvisited' = {} /\ opened' = {} /\ place' = "Recheck"
      /\ Cardinality(opened') <= 1
  BY <1>1, FreshWalk DEF Walking
<1>3. WorkspaceTypeOK'
  BY <1>1, <1>2 DEF IInv, WorkspaceTypeOK, Place, Walking, Answer
<1>4. TreeInv'
  <2>1. Later(tree, tree)
    BY LaterReflexive DEF IInv, WorkspaceTypeOK
  <2> QED
    BY <1>1, <1>2, <2>1 DEF IInv, TreeInv, Lawful, Later
<1>5. VerifyInv' /\ CaptureInv' /\ OpenedInv'
  BY <1>2 DEF VerifyInv, CaptureInv, OpenedInv, FutureOf
<1>6. CopyInv'
  BY <1>1, <1>2 DEF IInv, CopyInv, HasSnapshot, Identities, Visible
<1> QED
  BY <1>1, <1>2, <1>3, <1>4, <1>5, <1>6 DEF IInv, PlaceInv, ManifestInv, ChangesAreNoticed, PastOf

(* A walk that is over and found the manifest again shows that the project was *)
(* the same at every moment from the end of the first walk to the beginning of *)
(* this one.                                                                    *)
LEMMA NothingChanged ==
  ASSUME IInv, place \in {"Verify", "Recheck"}, WalkIsOver, SameManifest(found, manifest),
         NEW t \in [File -> Entry], Later(atCapture, t), Later(t, atVerify)
  PROVE  Identities(t) = manifest
<1>1. /\ found \in Partial(Identity) /\ manifest \in Partial(Identity)
      /\ atCapture \in [File -> Entry] /\ atVerify \in [File -> Entry]
  BY DEF IInv, WorkspaceTypeOK
<1>2. found = manifest
  BY <1>1, SameManifestIsEquality
<1>3. /\ Lawful(atCapture) /\ Lawful(atVerify)
      /\ PastOf(manifest, atCapture) /\ FutureOf(atVerify, manifest)
      /\ \A f \in Original \ DOMAIN manifest : atCapture[f].state = "Gone"
  BY <1>2 DEF IInv, TreeInv, ManifestInv, VerifyInv, PlaceInv
<1>4. \A f \in (File \ DOMAIN manifest) \ Original : atVerify[f].state = "Unmade"
  <2>1. \A f \in File \ DOMAIN manifest : f \in Missed
    BY <1>2, WorkspaceAssumption DEF Missed, WalkIsOver
  <2> QED
    BY <2>1 DEF IInv, VerifyInv
<1> QED
  BY <1>1, <1>3, <1>4, Agreement

\* The end of a verification keeps the invariant: a difference is noticed.
LEMMA EndVerifyStable ==
  ASSUME IInv, EndVerify
  PROVE  IInv'
<1> USE DEF walkVars, copyVars, momentVars, projectVars
<1>1. /\ place \in {"Verify", "Recheck"} /\ WalkIsOver
      /\ UNCHANGED <<tree, edits, unread, unvisited, opened, found, manifest, copy, root, atCapture, atVerify>>
  BY DEF EndVerify
<1>2. root = "Present" /\ answer = "None"
  BY <1>1 DEF IInv, PlaceInv
<1>3. CASE SameManifest(found, manifest)
  <2>1. /\ place' = "Idle" /\ answer' \in {"Created", "Unchanged"}
        /\ Identities(atCapture) = manifest /\ Identities(atVerify) = manifest
    <3>1. atCapture \in [File -> Entry] /\ atVerify \in [File -> Entry] /\ Later(atCapture, atVerify)
      BY <1>1 DEF IInv, WorkspaceTypeOK, TreeInv
    <3>2. Later(atCapture, atCapture) /\ Later(atVerify, atVerify)
      BY <3>1, LaterReflexive
    <3>3. Identities(atCapture) = manifest /\ Identities(atVerify) = manifest
      BY <1>1, <1>3, <3>1, <3>2, NothingChanged
    <3> QED
      BY <1>3, <3>3 DEF EndVerify
  <2>2. WorkspaceTypeOK'
    BY <1>1, <2>1 DEF IInv, WorkspaceTypeOK, Place, Answer
  <2>3. Identities(atCapture)' = manifest' /\ Identities(atVerify)' = manifest'
    BY <1>1, <2>1 DEF Identities, Visible
  <2>4. CopyInv'
    BY <1>1, <2>1, <2>3 DEF IInv, CopyInv, HasSnapshot
  <2> QED
    BY <1>1, <1>2, <2>1, <2>2, <2>3, <2>4 DEF IInv, PlaceInv, TreeInv, OpenedInv, CaptureInv, VerifyInv,
       ManifestInv, ChangesAreNoticed, Lawful, Later, PastOf
<1>4. CASE ~SameManifest(found, manifest)
  <2>1. \/ place = "Verify" /\ place' = "Discard" /\ answer' = "None"
        \/ place = "Recheck" /\ place' = "Idle" /\ answer' = "Changed"
    BY <1>1, <1>2, <1>4 DEF EndVerify
  <2>2. WorkspaceTypeOK'
    BY <1>1, <2>1 DEF IInv, WorkspaceTypeOK, Place, Answer
  <2>3. CopyInv'
    BY <1>1, <1>2, <2>1 DEF IInv, CopyInv, HasSnapshot, Identities, Visible
  <2> QED
    BY <1>1, <1>2, <2>1, <2>2, <2>3 DEF IInv, PlaceInv, TreeInv, OpenedInv, CaptureInv, VerifyInv,
       ManifestInv, ChangesAreNoticed, Lawful, Later, PastOf
<1> QED
  BY <1>3, <1>4

\* A step that fails keeps the invariant.
LEMMA FailsStable ==
  ASSUME IInv, Fails
  PROVE  IInv'
<1> USE DEF walkVars, copyVars, momentVars, projectVars
<1>1. /\ \/ place = "Capture" /\ place' = "Idle" /\ answer' = "Refused"
         \/ place \in {"Copy", "Verify"} /\ place' = "Discard" /\ answer' = answer
         \/ place = "Recheck" /\ place' = "Idle" /\ answer' = "Changed"
      /\ UNCHANGED <<tree, edits, unread, unvisited, opened, found, manifest, copy, root, atCapture, atVerify>>
  BY DEF Fails
<1>2. WorkspaceTypeOK'
  BY <1>1 DEF IInv, WorkspaceTypeOK, Place, Answer
<1>3. CopyInv'
  BY <1>1 DEF IInv, PlaceInv, CopyInv, HasSnapshot, Identities, Visible
<1> QED
  BY <1>1, <1>2, <1>3 DEF IInv, PlaceInv, TreeInv, OpenedInv, CaptureInv, VerifyInv, ManifestInv,
     ChangesAreNoticed, Lawful, Later, PastOf

\* The call that removes the copy keeps the invariant.
LEMMA CallRemoveStable ==
  ASSUME IInv, CallRemove
  PROVE  IInv'
<1> USE DEF walkVars, copyVars, momentVars, projectVars
<1>1. /\ place = "Idle" /\ root = "Present" /\ place' = "Remove" /\ answer' = "None"
      /\ UNCHANGED <<tree, edits, unread, unvisited, opened, found, manifest, copy, root, atCapture, atVerify>>
  BY DEF CallRemove
<1>2. WorkspaceTypeOK'
  BY <1>1 DEF IInv, WorkspaceTypeOK, Place, Answer
<1>3. CopyInv'
  BY <1>1 DEF IInv, CopyInv, HasSnapshot, Identities, Visible
<1> QED
  BY <1>1, <1>2, <1>3 DEF IInv, PlaceInv, TreeInv, OpenedInv, CaptureInv, VerifyInv, ManifestInv,
     ChangesAreNoticed, Lawful, Later, PastOf

\* The removal of the copy keeps the invariant.
LEMMA RemoveStable ==
  ASSUME IInv, Remove
  PROVE  IInv'
<1> USE DEF walkVars, copyVars, momentVars, projectVars
<1>1. /\ place = "Remove" /\ place' = "Idle"
      /\ root' \in {"None", "Left"} /\ answer' \in {"Removed", "RemoveFailed"}
      /\ UNCHANGED <<tree, edits, unread, unvisited, opened, found, manifest, copy, atCapture, atVerify>>
  BY DEF Remove
<1>2. WorkspaceTypeOK'
  BY <1>1 DEF IInv, WorkspaceTypeOK, Place, Answer
<1> QED
  BY <1>1, <1>2 DEF IInv, PlaceInv, TreeInv, OpenedInv, CaptureInv, VerifyInv, ManifestInv, CopyInv,
     ChangesAreNoticed, HasSnapshot, Lawful, Later, PastOf

-----------------------------------------------------------------------------
(* The workspace by itself. *)

LEMMA InitIInv ==
  ASSUME WorkspaceInit
  PROVE  IInv
<1>1. /\ tree = Pristine /\ edits = 0 /\ place = "Idle" /\ answer = "None"
      /\ unread = {} /\ unvisited = {} /\ opened = {} /\ found = EmptyMap
      /\ manifest = EmptyMap /\ copy = EmptyMap /\ root = "None"
      /\ atCapture = Pristine /\ atVerify = Pristine
  BY DEF WorkspaceInit
<1>2. 0 \in Version
  BY WorkspaceAssumption DEF Version
<1>3. Pristine \in [File -> Entry]
  BY <1>2 DEF Pristine, Entry
<1>4. EmptyMap \in Partial(Identity) /\ EmptyMap \in Partial(Version)
  BY PartialMap DEF EmptyMap
<1>5. WorkspaceTypeOK
  <2>1. Cardinality(opened) <= 1
    BY <1>1, FS_EmptySet
  <2> QED
    BY <1>1, <1>2, <1>3, <1>4, <2>1 DEF WorkspaceTypeOK, Place, Answer
<1>6. TreeInv
  <2>1. Later(Pristine, Pristine)
    BY <1>3, LaterReflexive
  <2> QED
    BY <1>1, <2>1 DEF TreeInv, Lawful, Pristine
<1> QED
  BY <1>1, <1>5, <1>6 DEF IInv, PlaceInv, OpenedInv, CaptureInv, VerifyInv, ManifestInv, CopyInv,
     ChangesAreNoticed, HasSnapshot

\* Every step of the workspace and of whoever edits the project keeps the
\* invariant.
LEMMA IInvStable ==
  ASSUME IInv, [WorkspaceNext]_workspaceVars
  PROVE  IInv'
<1>1. CASE CallCreate
  BY <1>1, CallCreateStable
<1>2. CASE CallVerifyOriginal
  BY <1>2, CallVerifyStable
<1>3. CASE CallRemove
  BY <1>3, CallRemoveStable
<1>4. CASE EditStep
  BY <1>4, EditStable
<1>5. CASE WorkspaceStep
  BY <1>5, ReadDirectoryStable, InspectStable, CopyOneFileStable, DigestStable, EndCaptureStable,
     MakeRootStable, EndCopyStable, DiscardStable, EndVerifyStable, FailsStable, RemoveStable
     DEF WorkspaceStep
<1>6. CASE UNCHANGED workspaceVars
  BY <1>6 DEF workspaceVars, walkVars, copyVars, momentVars, projectVars, IInv, WorkspaceTypeOK, PlaceInv,
     TreeInv, OpenedInv, CaptureInv, VerifyInv, ManifestInv, CopyInv, ChangesAreNoticed, HasSnapshot,
     Lawful, Later, PastOf, FutureOf, Missed, Identities, Visible
<1> QED
  BY <1>1, <1>2, <1>3, <1>4, <1>5, <1>6 DEF WorkspaceNext

\* The inductive invariant holds of the workspace on its own, for any files,
\* versions and edits.
THEOREM WorkspaceInvariant == WorkspaceSpec => []IInv
<1>1. WorkspaceInit => IInv
  BY InitIInv
<1>2. IInv /\ [WorkspaceNext]_workspaceVars => IInv'
  BY IInvStable
<1> QED
  BY <1>1, <1>2, PTL DEF WorkspaceSpec

(* The variables of the workspace always have their kinds, whoever edits the   *)
(* project and whatever fails (Create, VerifyOriginal, Remove).                 *)
THEOREM WorkspaceTypeCorrect == WorkspaceSpec => []WorkspaceTypeOK
<1>1. IInv => WorkspaceTypeOK
  BY DEF IInv
<1> QED
  BY WorkspaceInvariant, <1>1, PTL

(* An accepted snapshot holds the project as it was at one moment, for every    *)
(* project and every number of edits made while it was copied (Create).         *)
LEMMA SnapshotFromInvariant ==
  ASSUME IInv
  PROVE  SnapshotIsOneMoment
<1> SUFFICES ASSUME HasSnapshot
             PROVE  copy = Contents(atCapture)
  BY DEF SnapshotIsOneMoment
<1>1. /\ DOMAIN copy = DOMAIN manifest /\ Identities(atCapture) = manifest
      /\ \A f \in DOMAIN copy : copy[f] = manifest[f].text
  BY DEF IInv, CopyInv
<1>2. DOMAIN manifest = Visible(atCapture) /\ \A f \in Visible(atCapture) : manifest[f].text = atCapture[f].text
  BY <1>1 DEF Identities
<1>3. copy = [f \in DOMAIN copy |-> copy[f]]
  BY PartialMap DEF IInv, WorkspaceTypeOK
<1> QED
  BY <1>1, <1>2, <1>3 DEF Contents

\* SnapshotIsOneMoment: a snapshot that Create returned holds what the project
\* held at one moment of the call (workspace.Create, copyFiles, verify).
THEOREM SnapshotIsFaithful == WorkspaceSpec => []SnapshotIsOneMoment
<1>1. IInv => SnapshotIsOneMoment
  BY SnapshotFromInvariant
<1> QED
  BY WorkspaceInvariant, <1>1, PTL

(* A verification that reports nothing began on the project the manifest        *)
(* describes, for every project and every number of edits (VerifyOriginal).     *)
THEOREM VerificationIsSound == WorkspaceSpec => []ChangesAreNoticed
<1>1. IInv => ChangesAreNoticed
  BY DEF IInv
<1> QED
  BY WorkspaceInvariant, <1>1, PTL

-----------------------------------------------------------------------------
(* The reference runner. *)

LEMMA ReferenceStepIsWorkspaceStep ==
  ASSUME [Next]_vars
  PROVE  [WorkspaceNext]_workspaceVars
<1>1. CASE UNCHANGED vars
  BY <1>1 DEF vars
<1>2. CASE \E f \in File : RunnerLeavesFile(f)
  BY <1>2 DEF RunnerLeavesFile, EditStep, WorkspaceNext
<1>3. CASE ParseRequest \/ CancelledEarly \/ GuardRefused \/ GuardCreated \/ StartRunner \/ RunnerReturns
  BY <1>3 DEF ParseRequest, CancelledEarly, GuardRefused, GuardCreated, StartRunner, RunnerReturns
<1>4. CASE Conclude \/ LastLook \/ WriteReceipt \/ Cancel
  BY <1>4 DEF Conclude, LastLook, WriteReceipt, Cancel
<1>5. CASE CreateGuard \/ VerifyGuard \/ RemoveGuard
  BY <1>5 DEF CreateGuard, VerifyGuard, RemoveGuard, WorkspaceNext
<1>6. CASE WorkspaceStep \/ EditStep
  BY <1>6 DEF WorkspaceNext
<1> QED
  BY <1>1, <1>2, <1>3, <1>4, <1>5, <1>6 DEF Next, Execute

(* The reference runner uses the workspace by its calls only: each of its steps *)
(* is a call, a step of the workspace, an edit or none of them (executeWith).   *)
THEOREM ReferenceUsesWorkspace == Spec => UsesWorkspace
<1>1. Init => WorkspaceInit
  BY DEF Init
<1>2. [Next]_vars => [WorkspaceNext]_workspaceVars
  BY ReferenceStepIsWorkspaceStep
<1> QED
  BY <1>1, <1>2, PTL DEF Spec, UsesWorkspace, WorkspaceSpec

\* What holds of the workspace holds of it under the reference execution.
THEOREM ReferenceIInv == Spec => []IInv
  BY ReferenceUsesWorkspace, WorkspaceInvariant, PTL DEF UsesWorkspace

(* While the reference runner uses it, a guard still holds the project as it    *)
(* was at one moment.                                                            *)
THEOREM GuardIsFaithful == Spec => []SnapshotIsOneMoment
  BY ReferenceUsesWorkspace, SnapshotIsFaithful, PTL DEF UsesWorkspace

(* While the reference runner uses it, a verification that reports nothing      *)
(* still began on the project the manifest describes.                            *)
THEOREM GuardVerificationIsSound == Spec => []ChangesAreNoticed
  BY ReferenceUsesWorkspace, VerificationIsSound, PTL DEF UsesWorkspace

-----------------------------------------------------------------------------
(* The invariant of the reference runner: what it waits for at each stage, the *)
(* order of the moments it looks at, and what it knows of them. A cancellation *)
(* before the tests ran leaves ranFrom and ranTo without meaning, and is told.  *)

Creating == {"Capture", "MakeRoot", "Copy", "Verify", "Discard"}

StageInv ==
    /\ stage \in {"Parse", "Check"} =>
          place = "Idle" /\ root = "None" /\ answer = "None" /\ failures = {}
    /\ stage = "Create" =>
          /\ failures = {} /\ place \in Creating \cup {"Idle"}
          /\ place = "Idle" => answer = "Refused" \/ (answer = "Created" /\ root = "Present")
    /\ stage \in {"Run", "RunnerRuns", "Verify"} => place = "Idle" /\ root = "Present"
    /\ stage \in {"Run", "RunnerRuns"} => failures = {}
    /\ stage = "Verifying" =>
          /\ place \in {"Recheck", "Idle"}
          /\ place = "Idle" => answer \in {"Unchanged", "Changed"}
    /\ stage = "Removing" =>
          /\ place \in {"Remove", "Idle"}
          /\ place = "Idle" => (answer = "Removed" /\ root = "None") \/ answer = "RemoveFailed"
    /\ stage \in {"Output", "Write"} => failures = {} /\ place = "Idle" /\ root = "None"
    /\ stage = "Ended" => place = "Idle"
    /\ stage = "Ended" <=> exit # Running

MomentInv ==
    /\ stage = "RunnerRuns" => Later(atCapture, ranFrom) /\ Later(ranFrom, tree)
    /\ stage = "Verify" /\ ~cancelled =>
          Later(atCapture, ranFrom) /\ Later(ranFrom, ranTo) /\ Later(ranTo, tree)
    /\ stage = "Verifying" /\ ~cancelled =>
          Later(atCapture, ranFrom) /\ Later(ranFrom, ranTo) /\ Later(ranTo, atVerify)

RanOverInput == Identities(ranFrom) = manifest /\ Identities(ranTo) = manifest

InputInv ==
    /\ stage = "Verifying" /\ answer = "Unchanged" /\ ~cancelled => RanOverInput
    /\ stage = "Removing" /\ "inputChanged" \notin failures /\ ~cancelled => RanOverInput
    /\ ReceiptNamesTheInput

GuardAndInputTold ==
    stage = "Ended" =>
        /\ root # "None" => failures \cap {"cleanup", "guard"} # {}
        /\ answer \in {"Removed", "RemoveFailed"} /\ Identities(atVerify) # Identities(atCapture)
              => "inputChanged" \in failures
        /\ exit = 0 <=> failures = {}

ToldInv ==
    /\ stage \in {"Removing", "Output", "Write"} =>
          "inputChanged" \in failures \/ Identities(atVerify) = Identities(atCapture)
    /\ GuardAndInputTold

RInv == TypeOK /\ StageInv /\ MomentInv /\ InputInv /\ ToldInv

(* A runner that failed stays told from its return to the end, and a            *)
(* cancellation that came in time is told at the end.                           *)
NamedInv ==
    /\ runnerFailed => "runner" \in failures
    /\ inTime => cancelled
    /\ stage = "Write" => ~inTime
    /\ stage = "Ended" /\ inTime => "usage" \in failures \/ "cancelled" \in failures

(* Where the workspace is busy, and how its steps end a call.                  *)
LEMMA WorkspaceStepShape ==
  ASSUME WorkspaceStep, IInv
  PROVE  /\ place # "Idle"
         /\ place \in Creating =>
              \/ place' \in Creating
              \/ place' = "Idle" /\ (answer' = "Refused" \/ (answer' = "Created" /\ root' = "Present"))
         /\ place = "Recheck" =>
              /\ UNCHANGED <<tree, manifest, atCapture, atVerify>>
              /\ \/ place' = "Recheck" /\ answer' = "None"
                 \/ place' = "Idle" /\ answer' = "Changed"
                 \/ /\ place' = "Idle" /\ answer' = "Unchanged"
                    /\ WalkIsOver /\ SameManifest(found, manifest)
         /\ place = "Remove" =>
              /\ UNCHANGED <<tree, manifest, atCapture, atVerify>> /\ place' = "Idle"
              /\ (answer' = "Removed" /\ root' = "None") \/ answer' = "RemoveFailed"
<1> USE DEF walkVars, copyVars, momentVars, projectVars, Walking, Creating
<1>0. PlaceInv
  BY DEF IInv
<1>1. CASE \E d \in Directory : ReadDirectory(d)
  BY <1>0, <1>1 DEF ReadDirectory, PlaceInv
<1>2. CASE \E f \in File : Inspect(f)
  BY <1>0, <1>2 DEF Inspect, PlaceInv
<1>3. CASE \E f \in File : CopyOneFile(f)
  BY <1>0, <1>3 DEF CopyOneFile, PlaceInv
<1>4. CASE \E o \in opened : Digest(o)
  BY <1>0, <1>4 DEF Digest, PlaceInv
<1>5. CASE EndCapture
  BY <1>5 DEF EndCapture
<1>6. CASE MakeRoot
  BY <1>6 DEF MakeRoot
<1>7. CASE EndCopy
  BY <1>7 DEF EndCopy, StartWalk
<1>8. CASE Discard
  BY <1>8 DEF Discard
<1>9. CASE EndVerify
  <2>1. /\ place \in {"Verify", "Recheck"} /\ UNCHANGED <<tree, manifest, root, atCapture, atVerify>>
        /\ WalkIsOver
    BY <1>9 DEF EndVerify
  <2>2. CASE SameManifest(found, manifest)
    BY <1>0, <1>9, <2>1, <2>2 DEF EndVerify, PlaceInv
  <2>3. CASE ~SameManifest(found, manifest)
    BY <1>0, <1>9, <2>1, <2>3 DEF EndVerify, PlaceInv
  <2> QED
    BY <2>2, <2>3
<1>10. CASE Fails
  BY <1>0, <1>10 DEF Fails, PlaceInv
<1>11. CASE Remove
  BY <1>11 DEF Remove
<1> QED
  BY <1>1, <1>2, <1>3, <1>4, <1>5, <1>6, <1>7, <1>8, <1>9, <1>10, <1>11 DEF WorkspaceStep

\* The reference execution begins in its invariant.
LEMMA ReferenceInit ==
  ASSUME Init
  PROVE  RInv
<1>1. /\ WorkspaceInit /\ stage = "Parse" /\ cancelled = FALSE /\ failures = {} /\ exit = Running
      /\ runnerFailed = FALSE /\ inTime = FALSE
  BY DEF Init
<1>2. IInv
  BY <1>1, InitIInv
<1>3. TypeOK
  <2>1. atCapture = Pristine /\ ranFrom = Pristine /\ ranTo = Pristine
    BY DEF Init, WorkspaceInit
  <2> QED
    BY <1>1, <1>2, <2>1 DEF IInv, WorkspaceTypeOK, TypeOK, Stage
<1>4. place = "Idle" /\ root = "None" /\ answer = "None"
  BY <1>1 DEF WorkspaceInit
<1> QED
  BY <1>1, <1>3, <1>4 DEF RInv, StageInv, MomentInv, InputInv, ToldInv, ReceiptNamesTheInput, GuardAndInputTold,
     Running

(* What the reference runner does by itself, calls aside.                       *)
LEMMA OwnStepStable ==
  ASSUME IInv, RInv, UNCHANGED workspaceVars, runnerFailed' \in BOOLEAN, inTime' \in BOOLEAN,
         \/ ParseRequest \/ CancelledEarly \/ GuardRefused \/ GuardCreated \/ StartRunner \/ RunnerReturns
         \/ Conclude \/ LastLook \/ WriteReceipt \/ Cancel
  PROVE  RInv'
<1> USE DEF Ended, Context, Running, caller, run
<1>1. /\ UNCHANGED <<tree, place, manifest, root, answer, atCapture, atVerify>>
      /\ WorkspaceTypeOK'
  BY DEF workspaceVars, projectVars, copyVars, momentVars, walkVars, RInv, TypeOK, WorkspaceTypeOK
<1>2. /\ Identities(atVerify)' = Identities(atVerify) /\ Identities(atCapture)' = Identities(atCapture)
  BY <1>1 DEF Identities, Visible
<1>3. CASE ParseRequest
  <2>1. /\ stage = "Parse" /\ place = "Idle" /\ root = "None" /\ answer = "None" /\ failures = {} /\ exit = Running
        /\ \/ stage' = "Check" /\ failures' = {} /\ exit' = exit
           \/ stage' = "Ended" /\ failures' = {"usage"} /\ exit' = 3
        /\ UNCHANGED <<cancelled, ranFrom, ranTo>>
    BY <1>3 DEF ParseRequest, RInv, StageInv
  <2>2. TypeOK'
    BY <1>1, <2>1 DEF RInv, TypeOK, Stage, Failure
  <2>3. StageInv' /\ MomentInv'
    BY <1>1, <2>1 DEF RInv, TypeOK, StageInv, MomentInv
  <2>4. InputInv' /\ ToldInv'
    BY <1>1, <1>2, <2>1 DEF RInv, InputInv, ToldInv, ReceiptNamesTheInput, GuardAndInputTold
  <2> QED
    BY <2>2, <2>3, <2>4 DEF RInv
<1>4. CASE CancelledEarly
  BY <1>1, <1>4 DEF CancelledEarly, RInv, TypeOK, StageInv, MomentInv, InputInv, ToldInv, RanOverInput, Stage,
     Failure, ReceiptNamesTheInput, GuardAndInputTold
<1>5. CASE GuardRefused
  <2>0. stage = "Create" /\ answer = "Refused"
    BY <1>5 DEF GuardRefused
  <2>1. /\ stage = "Create" /\ answer = "Refused" /\ place = "Idle"
        /\ stage' = "Ended" /\ exit' = 6 /\ "guard" \in failures' /\ failures' \subseteq {"guard", "cancelled"}
        /\ UNCHANGED <<cancelled, ranFrom, ranTo>>
    BY <1>5, <2>0 DEF GuardRefused, RInv, StageInv, IInv, PlaceInv
  <2>2. TypeOK'
    BY <1>1, <2>1 DEF RInv, TypeOK, Stage, Failure
  <2>3. StageInv' /\ MomentInv'
    BY <1>1, <2>1 DEF RInv, TypeOK, StageInv, MomentInv
  <2>4. InputInv' /\ ToldInv'
    BY <1>1, <1>2, <2>1 DEF RInv, InputInv, ToldInv, ReceiptNamesTheInput, GuardAndInputTold
  <2> QED
    BY <2>2, <2>3, <2>4 DEF RInv
<1>6. CASE GuardCreated
  <2>1. /\ stage = "Create" /\ answer = "Created" /\ place = "Idle" /\ root = "Present" /\ failures = {}
        /\ exit = Running /\ stage' = IF cancelled THEN "Verify" ELSE "Run"
        /\ UNCHANGED <<cancelled, failures, exit, ranFrom, ranTo>>
    BY <1>6 DEF GuardCreated, RInv, StageInv, IInv, PlaceInv
  <2>2. TypeOK'
    BY <1>1, <2>1 DEF RInv, TypeOK, Stage, Failure
  <2>3. StageInv' /\ MomentInv'
    BY <1>1, <2>1 DEF RInv, TypeOK, StageInv, MomentInv
  <2>4. InputInv' /\ ToldInv'
    BY <1>1, <1>2, <2>1 DEF RInv, InputInv, ToldInv, ReceiptNamesTheInput, GuardAndInputTold
  <2> QED
    BY <2>2, <2>3, <2>4 DEF RInv
<1>7. CASE StartRunner
  <2>1. Later(atCapture, tree) /\ tree \in [File -> Entry]
    BY DEF IInv, TreeInv, WorkspaceTypeOK
  <2>2. Later(tree, tree)
    BY <2>1, LaterReflexive
  <2>3. Later(atCapture, ranFrom)' /\ Later(ranFrom, tree)'
    BY <1>1, <1>7, <2>1, <2>2 DEF StartRunner, Later
  <2> QED
    BY <1>1, <1>7, <2>1, <2>3 DEF StartRunner, RInv, TypeOK, StageInv, MomentInv, InputInv, ToldInv, Stage,
       ReceiptNamesTheInput, GuardAndInputTold
<1>8. CASE RunnerReturns
  <2>1. tree \in [File -> Entry] /\ Later(atCapture, ranFrom) /\ Later(ranFrom, tree)
    BY <1>8 DEF IInv, WorkspaceTypeOK, RInv, MomentInv, RunnerReturns
  <2>2. Later(tree, tree)
    BY <2>1, LaterReflexive
  <2>3. Later(atCapture, ranFrom)' /\ Later(ranFrom, ranTo)' /\ Later(ranTo, tree)'
    BY <1>1, <1>8, <2>1, <2>2 DEF RunnerReturns, Later
  <2> QED
    BY <1>1, <1>8, <2>1, <2>3 DEF RunnerReturns, RInv, TypeOK, StageInv, MomentInv, InputInv, ToldInv, Stage,
       Failure, ReceiptNamesTheInput, GuardAndInputTold
<1>9. CASE Conclude
  <2>1. /\ stage = "Removing" /\ answer \in {"Removed", "RemoveFailed"} /\ place = "Idle"
        /\ UNCHANGED <<cancelled, ranFrom, ranTo>>
    BY <1>9 DEF Conclude, RInv, StageInv, IInv, PlaceInv
  <2>2. CASE failures \cup Context \cup (IF answer = "RemoveFailed" THEN {"cleanup"} ELSE {}) = {}
    <3>1. stage' = "Output" /\ failures' = failures /\ exit' = exit
      BY <1>9, <2>2 DEF Conclude
    <3>2. failures = {} /\ ~cancelled /\ answer = "Removed" /\ root = "None"
      BY <2>1, <2>2 DEF RInv, StageInv
    <3>3. RanOverInput /\ Identities(atVerify) = Identities(atCapture)
      BY <2>1, <3>2 DEF RInv, InputInv, ToldInv
    <3>4. RanOverInput'
      BY <1>1, <2>1, <3>3 DEF RanOverInput, Identities, Visible
    <3> QED
      BY <1>1, <1>2, <2>1, <3>1, <3>2, <3>3, <3>4 DEF RInv, TypeOK, StageInv, MomentInv, InputInv, ToldInv,
         RanOverInput, Stage, ReceiptNamesTheInput, GuardAndInputTold
  <2>3. CASE failures \cup Context \cup (IF answer = "RemoveFailed" THEN {"cleanup"} ELSE {}) # {}
    <3> DEFINE all == failures \cup Context \cup (IF answer = "RemoveFailed" THEN {"cleanup"} ELSE {})
    <3>1. stage' = "Ended" /\ failures' = all /\ exit' = 6
      BY <1>9, <2>3 DEF Conclude
    <3>2. failures' \subseteq Failure /\ failures' # {}
      BY <2>3, <3>1 DEF RInv, TypeOK, Failure
    <3>3. root # "None" => "cleanup" \in failures'
      BY <2>1, <3>1 DEF RInv, StageInv
    <3>4. Identities(atVerify) # Identities(atCapture) => "inputChanged" \in failures'
      BY <2>1, <3>1 DEF RInv, ToldInv
    <3> HIDE DEF all
    <3> QED
      BY <1>1, <1>2, <2>1, <3>1, <3>2, <3>3, <3>4 DEF RInv, TypeOK, StageInv, MomentInv, InputInv, ToldInv, Stage,
         ReceiptNamesTheInput, GuardAndInputTold
  <2> QED
    BY <2>2, <2>3
<1>10. CASE LastLook
  <2>1. /\ stage = "Output" /\ place = "Idle" /\ root = "None" /\ failures = {} /\ exit = Running
        /\ \/ cancelled /\ stage' = "Ended" /\ failures' = {"cancelled"} /\ exit' = 6
           \/ stage' = "Write" /\ failures' = {} /\ exit' = exit
        /\ UNCHANGED <<cancelled, ranFrom, ranTo>>
    BY <1>10 DEF LastLook, RInv, StageInv
  <2>5. Identities(ranFrom)' = manifest' /\ Identities(ranTo)' = manifest'
    BY <1>1, <2>1 DEF RInv, InputInv, ReceiptNamesTheInput, Identities, Visible
  <2>2. TypeOK'
    BY <1>1, <2>1 DEF RInv, TypeOK, Stage, Failure
  <2>3. StageInv' /\ MomentInv'
    BY <1>1, <2>1 DEF RInv, TypeOK, StageInv, MomentInv
  <2>4. InputInv' /\ ToldInv'
    BY <1>1, <1>2, <2>1, <2>5 DEF RInv, InputInv, ToldInv, ReceiptNamesTheInput, GuardAndInputTold
  <2> QED
    BY <2>2, <2>3, <2>4 DEF RInv
<1>11. CASE WriteReceipt
  <2>1. /\ stage = "Write" /\ place = "Idle" /\ root = "None" /\ failures = {} /\ exit = Running
        /\ stage' = "Ended"
        /\ (failures' = {} /\ exit' = 0) \/ (failures' = {"report"} /\ exit' = 6)
        /\ UNCHANGED <<cancelled, ranFrom, ranTo>>
    BY <1>11 DEF WriteReceipt, RInv, StageInv
  <2>5. Identities(ranFrom)' = manifest' /\ Identities(ranTo)' = manifest'
    BY <1>1, <2>1 DEF RInv, InputInv, ReceiptNamesTheInput, Identities, Visible
  <2>2. TypeOK'
    BY <1>1, <2>1 DEF RInv, TypeOK, Stage, Failure
  <2>3. StageInv' /\ MomentInv'
    BY <1>1, <2>1 DEF RInv, TypeOK, StageInv, MomentInv
  <2>4. InputInv' /\ ToldInv'
    BY <1>1, <1>2, <2>1, <2>5 DEF RInv, InputInv, ToldInv, ReceiptNamesTheInput, GuardAndInputTold
  <2> QED
    BY <2>2, <2>3, <2>4 DEF RInv
<1>12. CASE Cancel
  <2>1. RanOverInput' = RanOverInput
    BY <1>1, <1>12 DEF Cancel, RanOverInput, Identities, Visible
  <2>2. MomentInv'
    BY <1>1, <1>12 DEF Cancel, RInv, MomentInv, Later
  <2> QED
    BY <1>1, <1>2, <1>12, <2>1, <2>2 DEF Cancel, RInv, TypeOK, StageInv, InputInv, ToldInv, RanOverInput,
       ReceiptNamesTheInput, GuardAndInputTold
<1> QED
  BY <1>3, <1>4, <1>5, <1>6, <1>7, <1>8, <1>9, <1>10, <1>11, <1>12

(* The calls of the workspace. IInv' holds because each is a workspace step.   *)
LEMMA CallStable ==
  ASSUME IInv, IInv', RInv, CreateGuard \/ VerifyGuard \/ RemoveGuard, runnerFailed' \in BOOLEAN, inTime' \in BOOLEAN
  PROVE  RInv'
<1> USE DEF projectVars, walkVars, copyVars, momentVars, caller, run
<1>0. WorkspaceTypeOK'
  BY DEF IInv
<1>1. CASE CreateGuard
  <2>1. /\ stage = "Check" /\ stage' = "Create" /\ place' = "Capture" /\ failures = {} /\ exit = Running
        /\ UNCHANGED <<cancelled, failures, exit, ranFrom, ranTo>>
    BY <1>1 DEF CreateGuard, CallCreate, StartWalk, RInv, StageInv
  <2> QED
    BY <1>0, <2>1 DEF RInv, TypeOK, Stage, StageInv, Creating, MomentInv, InputInv, ToldInv,
       ReceiptNamesTheInput, GuardAndInputTold, Running
<1>2. CASE VerifyGuard
  <2>1. /\ stage = "Verify" /\ stage' = "Verifying" /\ place' = "Recheck" /\ exit = Running
        /\ atVerify' = tree /\ answer' = "None" /\ UNCHANGED <<tree, atCapture>>
        /\ UNCHANGED <<cancelled, failures, exit, ranFrom, ranTo>>
    BY <1>2 DEF VerifyGuard, CallVerifyOriginal, StartWalk, RInv, StageInv
  <2>2. MomentInv'
    BY <2>1 DEF RInv, MomentInv, Later
  <2> QED
    BY <1>0, <2>1, <2>2 DEF RInv, TypeOK, Stage, StageInv, InputInv, ToldInv, ReceiptNamesTheInput,
       GuardAndInputTold, Running
<1>3. CASE RemoveGuard
  <2>1. /\ stage = "Verifying" /\ stage' = "Removing" /\ place' = "Remove" /\ exit = Running
        /\ answer \in {"Unchanged", "Changed"} /\ (answer = "Changed" => "inputChanged" \in failures')
        /\ failures' \subseteq failures \cup {"inputChanged"}
        /\ UNCHANGED <<tree, manifest, atCapture, atVerify>>
        /\ UNCHANGED <<cancelled, exit, ranFrom, ranTo>>
    BY <1>3 DEF RemoveGuard, CallRemove, RInv, StageInv
  <2>2. answer = "Unchanged" => Identities(atVerify)' = Identities(atCapture)'
    BY <2>1 DEF IInv, ChangesAreNoticed, Identities, Visible
  <2>3. "inputChanged" \notin failures' /\ ~cancelled => RanOverInput'
    BY <2>1 DEF RInv, InputInv, RanOverInput, Identities, Visible
  <2>4. InputInv' /\ ToldInv'
    BY <2>1, <2>2, <2>3 DEF InputInv, ToldInv, ReceiptNamesTheInput, GuardAndInputTold, Running
  <2> QED
    BY <1>0, <2>1, <2>4 DEF RInv, TypeOK, Stage, Failure, StageInv, MomentInv
<1> QED
  BY <1>1, <1>2, <1>3

(* What the workspace does between a call and its answer.                       *)
LEMMA GuardStepStable ==
  ASSUME IInv, IInv', RInv, WorkspaceStep, UNCHANGED referenceVars, runnerFailed' \in BOOLEAN, inTime' \in BOOLEAN
  PROVE  RInv'
<1>0. WorkspaceTypeOK' /\ PlaceInv'
  BY DEF IInv
<1>1. UNCHANGED <<stage, cancelled, failures, exit, ranFrom, ranTo, runnerFailed, inTime>>
  BY DEF referenceVars, caller, run
<1>2. place # "Idle"
  BY WorkspaceStepShape
<1>3. stage \in {"Create", "Verifying", "Removing"} /\ exit = Running
  BY <1>2 DEF RInv, TypeOK, Stage, StageInv
<1>4. TypeOK'
  BY <1>0, <1>1 DEF RInv, TypeOK
<1>5. CASE stage = "Create"
  <2>1. place \in Creating
    BY <1>2, <1>5 DEF RInv, StageInv
  <2>2. \/ place' \in Creating
        \/ place' = "Idle" /\ (answer' = "Refused" \/ (answer' = "Created" /\ root' = "Present"))
    BY <2>1, WorkspaceStepShape
  <2> QED
    BY <1>1, <1>3, <1>4, <1>5, <2>2 DEF RInv, StageInv, Creating, MomentInv, InputInv, ToldInv,
       ReceiptNamesTheInput, GuardAndInputTold, Running
<1>6. CASE stage = "Verifying"
  <2>1. place = "Recheck"
    BY <1>2, <1>6 DEF RInv, StageInv
  <2>2. /\ UNCHANGED <<tree, manifest, atCapture, atVerify>>
        /\ \/ place' = "Recheck" /\ answer' = "None"
           \/ place' = "Idle" /\ answer' = "Changed"
           \/ /\ place' = "Idle" /\ answer' = "Unchanged"
              /\ WalkIsOver /\ SameManifest(found, manifest)
    BY <2>1, WorkspaceStepShape
  <2>3. ASSUME answer' = "Unchanged", ~cancelled
        PROVE  RanOverInput'
    <3>1. WalkIsOver /\ SameManifest(found, manifest)
      BY <2>2, <2>3
    <3>2. /\ Later(atCapture, ranFrom) /\ Later(ranFrom, ranTo) /\ Later(ranTo, atVerify)
          /\ ranFrom \in [File -> Entry] /\ ranTo \in [File -> Entry]
          /\ atCapture \in [File -> Entry] /\ atVerify \in [File -> Entry]
      BY <1>6, <2>3 DEF RInv, MomentInv, TypeOK, WorkspaceTypeOK
    <3>3. Later(ranFrom, atVerify) /\ Later(atCapture, ranTo)
      BY <3>2, LaterTransitive
    <3>4. Identities(ranFrom) = manifest /\ Identities(ranTo) = manifest
      BY <2>1, <3>1, <3>2, <3>3, NothingChanged
    <3> QED
      BY <1>1, <2>2, <3>4 DEF RanOverInput, Identities, Visible
  <2>4. InputInv'
    <3>1. answer' = "Unchanged" /\ ~cancelled => RanOverInput'
      BY <2>3
    <3> QED
      BY <1>1, <1>3, <1>6, <3>1 DEF InputInv, ReceiptNamesTheInput, Running
  <2>5. MomentInv'
    BY <1>1, <1>6, <2>2 DEF RInv, MomentInv, Later
  <2> QED
    BY <1>1, <1>3, <1>4, <1>6, <2>2, <2>4, <2>5 DEF RInv, StageInv, ToldInv, GuardAndInputTold
<1>7. CASE stage = "Removing"
  <2>1. place = "Remove"
    BY <1>2, <1>7 DEF RInv, StageInv
  <2>2. /\ UNCHANGED <<tree, manifest, atCapture, atVerify>> /\ place' = "Idle"
        /\ (answer' = "Removed" /\ root' = "None") \/ answer' = "RemoveFailed"
    BY <2>1, WorkspaceStepShape
  <2>3. RanOverInput' = RanOverInput
    BY <1>1, <2>2 DEF RanOverInput, Identities, Visible
  <2>4. Identities(atVerify)' = Identities(atVerify) /\ Identities(atCapture)' = Identities(atCapture)
    BY <2>2 DEF Identities, Visible
  <2>5. InputInv' /\ ToldInv'
    BY <1>1, <1>3, <1>7, <2>3, <2>4 DEF RInv, InputInv, ToldInv, ReceiptNamesTheInput, GuardAndInputTold, Running
  <2> QED
    BY <1>1, <1>3, <1>4, <1>7, <2>2, <2>5 DEF RInv, StageInv, MomentInv
<1> QED
  BY <1>3, <1>5, <1>6, <1>7

(* Edits, also those that a failing runner leaves behind.                       *)
LEMMA ReferenceEditStable ==
  ASSUME IInv, IInv', RInv, EditStep, runnerFailed' \in BOOLEAN, inTime' \in BOOLEAN,
         \/ stage # "Ended" /\ UNCHANGED referenceVars
         \/ \E f \in File : RunnerLeavesFile(f)
  PROVE  RInv'
<1> USE DEF copyVars, momentVars, caller, run
<1>0. WorkspaceTypeOK'
  BY DEF IInv
<1>1. /\ tree \in [File -> Entry] /\ tree' \in [File -> Entry] /\ Later(tree, tree')
      /\ UNCHANGED <<place, manifest, root, answer, atCapture, atVerify>>
  BY EditGrows DEF IInv, WorkspaceTypeOK, TreeInv
<1>2. ranFrom \in [File -> Entry] /\ ranTo \in [File -> Entry]
  BY DEF RInv, TypeOK
<1>3. CASE stage # "Ended" /\ UNCHANGED referenceVars
  <2>1. UNCHANGED <<stage, cancelled, failures, exit, ranFrom, ranTo, runnerFailed, inTime>>
    BY <1>3 DEF referenceVars, caller, run
  <2>2. MomentInv'
    <3>1. stage = "RunnerRuns" => Later(ranFrom, tree')
      BY <1>1, <1>2, LaterTransitive DEF RInv, MomentInv
    <3>2. stage = "Verify" /\ ~cancelled => Later(ranTo, tree')
      BY <1>1, <1>2, LaterTransitive DEF RInv, MomentInv
    <3> QED
      BY <1>1, <2>1, <3>1, <3>2 DEF RInv, MomentInv, Later
  <2>3. RanOverInput' = RanOverInput
    BY <1>1, <2>1 DEF RanOverInput, Identities, Visible
  <2>4. Identities(atVerify)' = Identities(atVerify) /\ Identities(atCapture)' = Identities(atCapture)
    BY <1>1 DEF Identities, Visible
  <2>5. InputInv' /\ ToldInv'
    BY <1>1, <1>3, <2>1, <2>3, <2>4 DEF RInv, InputInv, ToldInv, RanOverInput, ReceiptNamesTheInput, GuardAndInputTold
  <2> QED
    BY <1>0, <1>1, <2>1, <2>2, <2>5 DEF RInv, TypeOK, StageInv
<1>4. CASE \E f \in File : RunnerLeavesFile(f)
  <2>1. /\ stage = "RunnerRuns" /\ stage' = "Verify" /\ failures' = failures \cup {"runner"} /\ ranTo' = tree
        /\ UNCHANGED <<cancelled, exit, ranFrom>>
    BY <1>4 DEF RunnerLeavesFile
  <2>2. exit = Running /\ Later(atCapture, ranFrom) /\ Later(ranFrom, tree)
    BY <2>1 DEF RInv, StageInv, MomentInv
  <2>3. Later(atCapture, ranFrom)' /\ Later(ranFrom, ranTo)' /\ Later(ranTo, tree)'
    BY <1>1, <2>1, <2>2 DEF Later
  <2> QED
    BY <1>0, <1>1, <2>1, <2>2, <2>3 DEF RInv, TypeOK, Stage, Failure, StageInv, MomentInv, InputInv, ToldInv,
       ReceiptNamesTheInput, GuardAndInputTold, Running
<1> QED
  BY <1>3, <1>4

(* The observers have truth values.                                             *)
LEMMA ObserversTyped ==
  ASSUME runnerFailed \in BOOLEAN, inTime \in BOOLEAN, [Next]_vars
  PROVE  runnerFailed' \in BOOLEAN /\ inTime' \in BOOLEAN
<1> USE DEF caller, run
<1>1. CASE \/ UNCHANGED vars \/ (WorkspaceStep /\ UNCHANGED referenceVars)
           \/ (stage # "Ended" /\ EditStep /\ UNCHANGED referenceVars)
  BY <1>1 DEF vars, referenceVars
<1>2. CASE ParseRequest \/ CancelledEarly \/ GuardRefused \/ GuardCreated \/ StartRunner
  BY <1>2 DEF ParseRequest, CancelledEarly, GuardRefused, GuardCreated, StartRunner
<1>3. CASE RunnerReturns \/ \E f \in File : RunnerLeavesFile(f)
  BY <1>3 DEF RunnerReturns, RunnerLeavesFile
<1>4. CASE CreateGuard \/ VerifyGuard \/ RemoveGuard \/ Conclude \/ LastLook \/ WriteReceipt
  BY <1>4 DEF CreateGuard, VerifyGuard, RemoveGuard, Conclude, LastLook, WriteReceipt
<1>5. CASE Cancel
  BY <1>5 DEF Cancel
<1> QED
  BY <1>1, <1>2, <1>3, <1>4, <1>5 DEF Next, Execute

\* Every step of the reference execution keeps its invariant.
LEMMA RInvStable ==
  ASSUME IInv, RInv, [Next]_vars
  PROVE  RInv'
<1>0. IInv'
  BY ReferenceStepIsWorkspaceStep, IInvStable
<1>8. runnerFailed' \in BOOLEAN /\ inTime' \in BOOLEAN
  BY ObserversTyped DEF RInv, TypeOK
<1>1. CASE UNCHANGED vars
  BY <1>1 DEF vars, workspaceVars, referenceVars, caller, run, projectVars, walkVars, copyVars, momentVars, RInv, TypeOK,
     WorkspaceTypeOK, StageInv, MomentInv, InputInv, ToldInv, RanOverInput, ReceiptNamesTheInput,
     GuardAndInputTold, Later, Identities, Visible
<1>2. CASE \E f \in File : RunnerLeavesFile(f)
  <2>1. EditStep
    BY <1>2 DEF RunnerLeavesFile, EditStep
  <2> QED
    BY <1>8, <1>0, <1>2, <2>1, ReferenceEditStable
<1>3. CASE ParseRequest \/ CancelledEarly \/ GuardRefused \/ GuardCreated \/ StartRunner \/ RunnerReturns
  <2>1. UNCHANGED workspaceVars
    BY <1>3 DEF ParseRequest, CancelledEarly, GuardRefused, GuardCreated, StartRunner, RunnerReturns
  <2> QED
    BY <1>8, <1>3, <2>1, OwnStepStable
<1>4. CASE Conclude \/ LastLook \/ WriteReceipt \/ Cancel
  <2>1. UNCHANGED workspaceVars
    BY <1>4 DEF Conclude, LastLook, WriteReceipt, Cancel
  <2> QED
    BY <1>8, <1>4, <2>1, OwnStepStable
<1>5. CASE CreateGuard \/ VerifyGuard \/ RemoveGuard
  BY <1>8, <1>0, <1>5, CallStable
<1>6. CASE WorkspaceStep /\ UNCHANGED referenceVars
  BY <1>8, <1>0, <1>6, GuardStepStable
<1>7. CASE stage # "Ended" /\ EditStep /\ UNCHANGED referenceVars
  BY <1>8, <1>0, <1>7, ReferenceEditStable
<1> QED
  BY <1>1, <1>2, <1>3, <1>4, <1>5, <1>6, <1>7 DEF Next, Execute

(* Every step keeps what it must tell by name: before the tests ran there is     *)
(* nothing to tell, a step that joins the failures joins all of them.            *)
LEMMA NamedInvStable ==
  ASSUME RInv, NamedInv, [Next]_vars
  PROVE  NamedInv'
<1> USE DEF Ended, Context, caller, run
<1>1. CASE UNCHANGED vars \/ (WorkspaceStep /\ UNCHANGED referenceVars)
           \/ (stage # "Ended" /\ EditStep /\ UNCHANGED referenceVars)
  <2>1. UNCHANGED <<stage, cancelled, failures, runnerFailed, inTime>>
    BY <1>1 DEF vars, referenceVars
  <2> QED
    BY <2>1 DEF NamedInv
<1>2. CASE ParseRequest \/ CancelledEarly \/ GuardRefused
  <2>1. failures = {}
    BY <1>2 DEF ParseRequest, CancelledEarly, GuardRefused, RInv, StageInv
  <2> QED
    BY <1>2, <2>1 DEF ParseRequest, CancelledEarly, GuardRefused, NamedInv
<1>3. CASE CreateGuard \/ GuardCreated \/ StartRunner \/ VerifyGuard
  BY <1>3 DEF CreateGuard, GuardCreated, StartRunner, VerifyGuard, NamedInv
<1>4. CASE RunnerReturns \/ \E f \in File : RunnerLeavesFile(f)
  <2>1. /\ stage' = "Verify" /\ UNCHANGED <<cancelled, inTime>>
        /\ runnerFailed' => "runner" \in failures'
    BY <1>4 DEF RunnerReturns, RunnerLeavesFile
  <2> QED
    BY <2>1 DEF NamedInv
<1>5. CASE RemoveGuard
  <2>1. stage' = "Removing" /\ failures \subseteq failures' /\ UNCHANGED <<cancelled, inTime, runnerFailed>>
    BY <1>5 DEF RemoveGuard
  <2> QED
    BY <2>1 DEF NamedInv
<1>6. CASE Conclude
  <2> DEFINE all == failures \cup Context \cup IF answer = "RemoveFailed" THEN {"cleanup"} ELSE {}
  <2>1. /\ failures \subseteq all /\ (cancelled => "cancelled" \in all)
        /\ UNCHANGED <<cancelled, inTime, runnerFailed>>
    BY <1>6 DEF Conclude
  <2>2. \/ stage' = "Output" /\ failures' = failures
        \/ stage' = "Ended" /\ failures' = all
    BY <1>6 DEF Conclude
  <2> HIDE DEF all
  <2> QED
    BY <2>1, <2>2 DEF NamedInv
<1>7. CASE LastLook
  <2>1. failures = {}
    BY <1>7 DEF LastLook, RInv, StageInv
  <2> QED
    BY <1>7, <2>1 DEF LastLook, NamedInv
<1>8. CASE WriteReceipt
  <2>1. failures = {} /\ ~inTime
    BY <1>8 DEF WriteReceipt, RInv, StageInv, NamedInv
  <2> QED
    BY <1>8, <2>1 DEF WriteReceipt, NamedInv
<1>9. CASE Cancel
  BY <1>9 DEF Cancel, NamedInv
<1> QED
  BY <1>1, <1>2, <1>3, <1>4, <1>5, <1>6, <1>7, <1>8, <1>9 DEF Next, Execute

\* The inductive invariant of the reference execution: what each stage has in
\* hand, and what it owes the caller.
THEOREM ReferenceInvariant == Spec => [](RInv /\ NamedInv)
<1>1. Init => RInv /\ NamedInv
  <2>1. Init => NamedInv
    BY DEF Init, NamedInv
  <2> QED
    BY <2>1, ReferenceInit
<1>2. IInv /\ RInv /\ NamedInv /\ [Next]_vars => RInv' /\ NamedInv'
  BY RInvStable, NamedInvStable
<1> QED
  BY <1>1, <1>2, ReferenceIInv, PTL DEF Spec

(* The variables of the reference runner and of its guard have their kinds.     *)
THEOREM ReferenceTypeCorrect == Spec => []TypeOK
<1>1. RInv => TypeOK
  BY DEF RInv
<1> QED
  BY <1>1, ReferenceInvariant, PTL

(* A receipt names the files the tests ran over, whoever edits the project and  *)
(* whenever the caller cancels (executeWith, InputSHA256).                       *)
THEOREM ReceiptIsHonest == Spec => []ReceiptNamesTheInput
<1>1. RInv => ReceiptNamesTheInput
  BY DEF RInv, InputInv
<1> QED
  BY <1>1, ReferenceInvariant, PTL

(* No failure is lost behind another: the guard, the project, the runner and a  *)
(* cancellation in time are each told by name, and none goes with exit code 0   *)
(* (lifecycleError).                                                             *)
THEOREM EveryFailureIsTold == Spec => []FailuresAreTold
<1>1. RInv /\ NamedInv => FailuresAreTold
  BY DEF RInv, ToldInv, GuardAndInputTold, NamedInv, FailuresAreTold
<1> QED
  BY <1>1, ReferenceInvariant, PTL
=============================================================================
