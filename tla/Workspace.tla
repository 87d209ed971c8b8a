----------------------------- MODULE Workspace -----------------------------
(* The snapshot workspace (internal/workspace/snapshot.go): Create copies a    *)
(* project file by file while somebody may edit it, VerifyOriginal walks it    *)
(* again, Remove deletes the copy. A file is identified by its inode (node)    *)
(* and its content (text); both are numbered by the edit that made them.       *)
EXTENDS Naturals, FiniteSets

CONSTANTS File,          \* numbered in the order of their paths
          Directory,
          DirectoryOf,   \* the directory a file is in
          Original,      \* the files that exist at first
          MaxEdits       \* bound: edits of the project

ASSUME WorkspaceAssumption ==
    /\ File \subseteq Nat /\ IsFiniteSet(File)
    /\ DirectoryOf \in [File -> Directory]
    /\ Original \subseteq File
    /\ MaxEdits \in Nat

VARIABLES
    tree,        \* the project
    edits,       \* how often it was edited
    place,       \* where the call in progress is
    unread,      \* directories the walk has yet to read
    unvisited,   \* files the walk has listed and not yet identified
    opened,      \* the file between its Lstat and its digest, with its node
    found,       \* identities the walk has collected
    manifest,    \* snapshot.manifest
    copy,        \* texts below snapshot.Root
    root,        \* the temporary directory
    answer,      \* of the last call
    atCapture,   \* observer: the project when the manifest was complete
    atVerify     \* observer: the project when the last verification began

projectVars == <<tree, edits>>
walkVars    == <<unread, unvisited, opened, found>>
copyVars    == <<manifest, copy, root>>
momentVars  == <<atCapture, atVerify>>
workspaceVars == <<projectVars, place, walkVars, copyVars, answer, momentVars>>

Version  == 0..MaxEdits
Entry    == [state : {"Unmade", "Regular", "Odd", "Gone"}, text : Version, node : Version]
Identity == [node : Version, text : Version]
Walking  == {"Capture", "Verify", "Recheck"}
Place    == Walking \cup {"Idle", "MakeRoot", "Copy", "Discard", "Remove"}
Answer   == {"None", "Created", "Refused", "Unchanged", "Changed", "Removed", "RemoveFailed"}

EmptyMap    == [f \in {} |-> 0]
IsNext(f, S) == f \in S /\ \A g \in S : f <= g
Partial(S)  == UNION {[D -> S] : D \in SUBSET File}

Visible(t)    == {f \in File : t[f].state \in {"Regular", "Odd"}}
Identities(t) == [f \in Visible(t) |-> [node |-> t[f].node, text |-> t[f].text]]
Contents(t)   == [f \in Visible(t) |-> t[f].text]

-----------------------------------------------------------------------------
(* Somebody edits the project. An edit never brings back what a path was       *)
(* before: the identity of a file holds no time, so a file changed and changed *)
(* back, or made and removed again, would not be noticed.                      *)

Edit(f, entry) ==
    /\ edits < MaxEdits
    /\ edits' = edits + 1
    /\ tree' = [tree EXCEPT ![f] = entry]
    /\ UNCHANGED <<place, walkVars, copyVars, answer, momentVars>>

Fresh(f) == {tree[f].text, edits + 1}

\* Written in place.
Rewrite(f) == tree[f].state = "Regular" /\ Edit(f, [tree[f] EXCEPT !.text = edits + 1])

\* Another file is renamed over it, as editors do, with the same or another content.
Replace(f) ==
    /\ tree[f].state = "Regular"
    /\ \E t \in Fresh(f) : Edit(f, [state |-> "Regular", text |-> t, node |-> edits + 1])

Make(f) ==
    /\ tree[f].state = "Unmade"
    /\ Edit(f, [state |-> "Regular", text |-> edits + 1, node |-> edits + 1])

Delete(f) ==
    /\ f \in Original /\ tree[f].state \in {"Regular", "Odd"}
    /\ Edit(f, [tree[f] EXCEPT !.state = "Gone"])

\* It becomes a symbolic link, gets a second name or another owner.
Twist(f) ==
    /\ tree[f].state = "Regular"
    /\ \E t \in Fresh(f) : Edit(f, [tree[f] EXCEPT !.state = "Odd", !.text = t])

EditStep == \E f \in File : Rewrite(f) \/ Replace(f) \/ Make(f) \/ Delete(f) \/ Twist(f)

-----------------------------------------------------------------------------
(* captureManifest: directories are read when the walk gets there, files are   *)
(* first looked at (Lstat) and then read.                                      *)

StartWalk(at) ==
    /\ place' = at
    /\ unread' = Directory
    /\ unvisited' = {}
    /\ opened' = {}
    /\ found' = EmptyMap

ReadDirectory(d) ==
    /\ place \in Walking /\ opened = {} /\ d \in unread
    /\ unread' = unread \ {d}
    /\ unvisited' = unvisited \cup {f \in Visible(tree) : DirectoryOf[f] = d}
    /\ UNCHANGED <<projectVars, place, opened, found, copyVars, answer, momentVars>>

Inspect(f) ==
    /\ place \in Walking /\ opened = {} /\ IsNext(f, unvisited)
    /\ tree[f].state = "Regular"
    /\ opened' = {[file |-> f, node |-> tree[f].node]}
    /\ UNCHANGED <<projectVars, place, unread, unvisited, found, copyVars, answer, momentVars>>

Digest(o) ==
    /\ place \in Walking /\ o \in opened
    /\ o.file \in Visible(tree)
    /\ found' = [g \in DOMAIN found \cup {o.file} |->
                    IF g = o.file THEN [node |-> o.node, text |-> tree[g].text] ELSE found[g]]
    /\ unvisited' = unvisited \ {o.file}
    /\ opened' = {}
    /\ UNCHANGED <<projectVars, place, unread, copyVars, answer, momentVars>>

WalkIsOver == unread = {} /\ unvisited = {} /\ opened = {}

-----------------------------------------------------------------------------
(* Create. *)

CallCreate ==
    /\ place = "Idle" /\ root = "None"
    /\ StartWalk("Capture")
    /\ copy' = EmptyMap /\ manifest' = EmptyMap
    /\ answer' = "None"
    /\ UNCHANGED <<projectVars, root, momentVars>>

EndCapture ==
    /\ place = "Capture" /\ WalkIsOver
    /\ manifest' = found
    /\ atCapture' = tree
    /\ place' = "MakeRoot"
    /\ UNCHANGED <<projectVars, walkVars, copy, root, answer, atVerify>>

\* createSnapshotRoot; where Chmod fails, the directory may stay behind.
MakeRoot ==
    /\ place = "MakeRoot"
    /\ \/ root' = "Present" /\ place' = "Copy" /\ UNCHANGED answer
       \/ root' \in {"None", "Left"} /\ place' = "Idle" /\ answer' = "Refused"
    /\ UNCHANGED <<projectVars, walkVars, manifest, copy, momentVars>>

CopyOneFile(f) ==
    /\ place = "Copy" /\ IsNext(f, DOMAIN manifest \ DOMAIN copy)
    /\ f \in Visible(tree) /\ tree[f].text = manifest[f].text
    /\ copy' = [g \in DOMAIN copy \cup {f} |-> IF g = f THEN tree[f].text ELSE copy[g]]
    /\ UNCHANGED <<projectVars, place, walkVars, manifest, root, answer, momentVars>>

\* Create trusts the copy and does not walk the project again.
EndCopyBug ==
    /\ place = "Copy" /\ DOMAIN copy = DOMAIN manifest
    /\ place' = "Idle" /\ answer' = "Created"
    /\ atVerify' = tree
    /\ UNCHANGED <<projectVars, walkVars, copyVars, atCapture>>

EndCopy ==
    /\ place = "Copy" /\ DOMAIN copy = DOMAIN manifest
    /\ StartWalk("Verify")
    /\ atVerify' = tree
    /\ UNCHANGED <<projectVars, copyVars, answer, atCapture>>

\* The deferred Remove: its error is dropped.
Discard ==
    /\ place = "Discard"
    /\ root' \in {"None", "Left"}
    /\ place' = "Idle"
    /\ answer' = "Refused"
    /\ UNCHANGED <<projectVars, walkVars, manifest, copy, momentVars>>

-----------------------------------------------------------------------------
(* VerifyOriginal, also at the end of Create; Remove. *)

HasSnapshot == root = "Present" /\ place \in {"Idle", "Recheck", "Remove"}

CallVerifyOriginal ==
    /\ place = "Idle" /\ root = "Present"
    /\ StartWalk("Recheck")
    /\ atVerify' = tree
    /\ answer' = "None"
    /\ UNCHANGED <<projectVars, copyVars, atCapture>>

\* Files the first walk did not see are not missed.
SameManifestBug(a, b) ==
    \A f \in DOMAIN b : f \in DOMAIN a /\ a[f] = b[f]

SameManifest(a, b) ==
    /\ Cardinality(DOMAIN a) = Cardinality(DOMAIN b)
    /\ \A f \in DOMAIN b : f \in DOMAIN a /\ a[f] = b[f]

EndVerify ==
    /\ place \in {"Verify", "Recheck"} /\ WalkIsOver
    /\ \/ /\ SameManifest(found, manifest)
          /\ answer' = IF place = "Verify" THEN "Created" ELSE "Unchanged"
          /\ place' = "Idle"
       \/ /\ ~SameManifest(found, manifest)
          /\ answer' = IF place = "Verify" THEN answer ELSE "Changed"
          /\ place' = IF place = "Verify" THEN "Discard" ELSE "Idle"
    /\ UNCHANGED <<projectVars, walkVars, copyVars, momentVars>>

\* A directory, a file or the copy cannot be read or written, or a file is not
\* what the walk or the manifest expects.
Fails ==
    /\ \/ place = "Capture" /\ place' = "Idle" /\ answer' = "Refused"
       \/ place \in {"Copy", "Verify"} /\ place' = "Discard" /\ UNCHANGED answer
       \/ place = "Recheck" /\ place' = "Idle" /\ answer' = "Changed"
    /\ UNCHANGED <<projectVars, walkVars, copyVars, momentVars>>

CallRemove ==
    /\ place = "Idle" /\ root = "Present"
    /\ place' = "Remove"
    /\ answer' = "None"
    /\ UNCHANGED <<projectVars, walkVars, copyVars, momentVars>>

\* A second Remove may follow a failed one; the snapshot may be half deleted.
Remove ==
    /\ place = "Remove"
    /\ \/ root' = "None" /\ answer' = "Removed"
       \/ root' = "Left" /\ answer' = "RemoveFailed"
    /\ place' = "Idle"
    /\ UNCHANGED <<projectVars, walkVars, manifest, copy, momentVars>>

-----------------------------------------------------------------------------
Pristine == [f \in File |->
    [state |-> IF f \in Original THEN "Regular" ELSE "Unmade", text |-> 0, node |-> 0]]

WorkspaceInit ==
    /\ tree = Pristine /\ edits = 0
    /\ place = "Idle" /\ answer = "None"
    /\ unread = {} /\ unvisited = {} /\ opened = {} /\ found = EmptyMap
    /\ manifest = EmptyMap /\ copy = EmptyMap /\ root = "None"
    /\ atCapture = Pristine /\ atVerify = Pristine

\* What the workspace does by itself once it is called.
WorkspaceStep ==
    \/ \E d \in Directory : ReadDirectory(d)
    \/ \E f \in File : Inspect(f) \/ CopyOneFile(f)
    \/ \E o \in opened : Digest(o)
    \/ EndCapture \/ MakeRoot \/ EndCopy \/ Discard \/ EndVerify \/ Fails \/ Remove

WorkspaceNext == CallCreate \/ CallVerifyOriginal \/ CallRemove \/ WorkspaceStep \/ EditStep

WorkspaceSpec == WorkspaceInit /\ [][WorkspaceNext]_workspaceVars

-----------------------------------------------------------------------------
(* Every variable has a value of its kind. *)
WorkspaceTypeOK ==
    /\ tree \in [File -> Entry] /\ edits \in Version
    /\ place \in Place /\ answer \in Answer
    /\ unread \subseteq Directory /\ unvisited \subseteq File
    /\ opened \subseteq [file : File, node : Version] /\ Cardinality(opened) <= 1
    /\ found \in Partial(Identity) /\ manifest \in Partial(Identity) /\ copy \in Partial(Version)
    /\ root \in {"None", "Present", "Left"}
    /\ atCapture \in [File -> Entry] /\ atVerify \in [File -> Entry]

(* An accepted snapshot is the project as it was at one moment, the end of the  *)
(* first walk, although its files were looked at and copied one after another   *)
(* beside edits (Create).                                                        *)
SnapshotIsOneMoment == HasSnapshot => copy = Contents(atCapture)

(* VerifyOriginal notices every edit, replacement, deletion and new file since  *)
(* the manifest was captured: where it reports nothing, the project was the     *)
(* same when the verification began.                                            *)
ChangesAreNoticed == answer = "Unchanged" => Identities(atVerify) = Identities(atCapture)
=============================================================================
