----------------------------- MODULE CrapReport -----------------------------
(* The CRAP component: a coverage profile is made or given                     *)
(* (internal/cli/commands.go), read line by line (internal/crap/coverage.go)   *)
(* and joined with the sources (internal/orchestrator/crap.go,                 *)
(* internal/crap/analyzer.go, formula.go, rows.go), which somebody may edit    *)
(* meanwhile. A position in a source is a number; a source is its callables    *)
(* and the positions of its decisions.                                         *)
EXTENDS Integers, FiniteSets

CONSTANTS Path,        \* production sources, numbered in their order
          Outside,     \* a path that is not below the module
          Source,      \* what a file may hold
          Missing,     \* there is no such file
          Broken,      \* a file the parser refuses, or with a bodyless callable
          Profile,     \* coverage profiles: a mode and lines
          SafeInteger, \* maximumJSONSafeInteger
          MaxEdits     \* bound: edits of the project

\* Callables nest as syntax does: two never touch but where one holds the other.
Laminar(bodies) ==
    \A c \in bodies :
        /\ c.start \in Nat /\ c.end \in Nat /\ c.start < c.end
        /\ \A d \in bodies \ {c} :
              \/ c.end < d.start \/ d.end < c.start
              \/ c.start < d.start /\ d.end < c.end
              \/ d.start < c.start /\ c.end < d.end

ASSUME CrapAssumption ==
    /\ Path \subseteq Nat /\ IsFiniteSet(Path) /\ Outside \notin Path
    /\ \A s \in Source : /\ IsFiniteSet(s.bodies) /\ Laminar(s.bodies)
                           /\ IsFiniteSet(s.decisions) /\ s.decisions \subseteq Nat
    /\ Missing \notin Source /\ Broken \notin Source
    /\ \A p \in Profile : IsFiniteSet(p.lines) /\
          \A l \in p.lines : l.start \in Nat /\ l.end \in Nat /\ l.statements \in Nat /\ l.hits \in Nat
    /\ SafeInteger \in Nat /\ MaxEdits \in Nat

VARIABLES
    tree,       \* the project: what each path holds
    edits,      \* how often it was edited
    pc,         \* where the component is
    mode,       \* of the profile: set, count or atomic
    lines,      \* of the profile, still to be read
    segments,   \* CoverProfile.segments
    inventory,  \* the sources that were listed
    readAs,     \* observer: what each source held when it was read
    rows,       \* one for each callable
    report,     \* the rows in their order
    outcome     \* passed, or why not

profileVars == <<mode, lines, segments>>
reportVars  == <<inventory, readAs, rows, report>>
vars == <<tree, edits, pc, profileVars, reportVars, outcome>>

crapLimit == 8
NoRead    == [p \in {} |-> Missing]

\* The statements of segments, and how many they are.
Units(S)  == UNION {{l} \X (1..l.statements) : l \in S}
Weight(S) == Cardinality(Units(S))

\* Every order of S that sort.Slice may leave, ties in any order.
Arrangements(S, Before(_, _)) ==
    {q \in [1..Cardinality(S) -> S] :
        /\ \A x \in S : \E i \in DOMAIN q : q[i] = x
        /\ \A i, j \in DOMAIN q : i < j => ~Before(q[j], q[i])}

-----------------------------------------------------------------------------
(* The profile. *)

\* A zero-width marker has no statements, every other segment has some.
ValidInterval(l) ==
    /\ l.start > 0
    /\ IF l.start = l.end THEN l.statements = 0 ELSE l.start < l.end /\ l.statements > 0

ValidLine(l) ==
    /\ l.path \in Path
    /\ ValidInterval(l)
    /\ l.statements <= SafeInteger
    /\ mode = "set" => l.hits <= 1

SamePlace(a, b) == a.path = b.path /\ a.start = b.start /\ a.end = b.end

SegmentsOf(p) == {l \in segments : l.path = p}

StartsBefore(a, b) == a.start < b.start

\* Segments are compared with their neighbour only.
Disjoint(q) == \A i \in DOMAIN q : i > 1 => q[i - 1].end <= q[i].start

-----------------------------------------------------------------------------
(* The join with a source. *)

Within(a, b) == b.start <= a.start /\ a.end <= b.end

\* Only literals that hold no other are left out.
DirectLiteralsBug(s, c) ==
    {d \in s.bodies \ {c} : Within(d, c) /\ ~\E e \in s.bodies \ {d} : Within(e, d)}

DirectLiterals(s, c) ==
    {d \in s.bodies \ {c} : Within(d, c) /\ ~\E e \in s.bodies \ {c, d} : Within(d, e) /\ Within(e, c)}

Includes(s, c, l) == Within(l, c) /\ ~\E d \in DirectLiterals(s, c) : Within(l, d)

Counted(p, s, c) == {l \in SegmentsOf(p) : Includes(s, c, l)}

Complexity(s, c) ==
    1 + Cardinality({n \in s.decisions :
            c.start <= n /\ n < c.end /\ ~\E d \in DirectLiterals(s, c) : d.start <= n /\ n < d.end})

-----------------------------------------------------------------------------
(* The identity of a callable holds the path but no position in the source: its *)
(* own signature, its semantic site (the role it plays where it stands), the    *)
(* chain of names down to it, a literal being called by what it is bound to,    *)
(* and the identity of the declared function that holds it. That function's is  *)
(* handed on to literals in literals: of a literal in between only the name     *)
(* counts, neither its signature nor its site.                                   *)

Anchored == {"binding", "argument", "property"}
Slotted  == {"argument", "returnValue"}

\* Functions that may be declared twice, told apart by their whole text.
RepeatedInit(s, c) ==
    LET inits == {d \in s.bodies : d.role = "declared" /\ d.name = "init"}
    IN  c \in inits /\ inits # {c}

SemanticSite(s, c) ==
    [role   |-> c.role,
     anchor |-> IF c.role \in Anchored \/ RepeatedInit(s, c) THEN c.text ELSE "",
     slot   |-> IF c.role \in Slotted THEN c.slot ELSE -1]

Around(s, c) == {d \in s.bodies : Within(c, d)}

\* The names from the outermost callable down to c, by their depth.
QualifiedName(s, c) == {<<Cardinality(Around(s, d)), d.name>> : d \in Around(s, c)}

Own(s, c) == [name |-> QualifiedName(s, c), signature |-> c.signature, site |-> SemanticSite(s, c)]

\* The declared function that holds c, if one does.
EnclosingNamed(s, c) == {d \in Around(s, c) \ {c} : d.role = "declared"}

Described(s, c) == [own |-> Own(s, c), enclosing |-> {Own(s, d) : d \in EnclosingNamed(s, c)}]

\* The module path is left out.
CallableIDBug(p, s, c) == Described(s, c)

CallableID(p, s, c) == <<p, Described(s, c)>>

Ambiguous(s) == \E c \in s.bodies, d \in s.bodies : c # d /\ Described(s, c) = Described(s, d)

-----------------------------------------------------------------------------
(* The rows. *)

Row(p, s, c) ==
    LET counted == Counted(p, s, c)
        total   == Weight(counted)
    IN  [path |-> p, start |-> c.start, id |-> CallableID(p, s, c),
         complexity |-> Complexity(s, c),
         covered |-> Weight({l \in counted : l.hits > 0}),
         total |-> total,
         reason |-> IF SegmentsOf(p) = {} THEN "coverageFileMissing"
                    ELSE IF total = 0 THEN "zeroExecutableUnits" ELSE "none"]

RowsOf(p, s) == {Row(p, s, c) : c \in s.bodies}

\* CRAP = complexity^2 * (1 - coverage)^3 + complexity, as a fraction.
Cube(n) == n * n * n
Numerator(r) ==
    r.complexity * r.complexity * Cube(r.total - r.covered) + r.complexity * Cube(r.total)
Denominator(r) == Cube(r.total)

RowPasses(r) == r.reason = "none" /\ Numerator(r) <= crapLimit * Denominator(r)

Unknown(r) == r.reason # "none"

IdentityBefore(a, b) ==
    \/ a.path < b.path
    \/ a.path = b.path /\ a.start < b.start

\* The rows of a file stay together.
RowBeforeBug(a, b) ==
    \/ Unknown(a) /\ ~Unknown(b)
    \/ Unknown(a) = Unknown(b) /\ IdentityBefore(a, b)

RowBefore(a, b) ==
    \/ Unknown(a) /\ ~Unknown(b)
    \/ Unknown(a) /\ Unknown(b) /\ IdentityBefore(a, b)
    \/ /\ ~Unknown(a) /\ ~Unknown(b)
       /\ LET left  == Numerator(a) * Denominator(b)
              right == Numerator(b) * Denominator(a)
          IN  left > right \/ (left = right /\ IdentityBefore(a, b))

\* What is published of a row is looked up by its identity: the last row with it.
Public(r) ==
    CHOOSE x \in rows : x.id = r.id /\ \A y \in rows : y.id = r.id => ~IdentityBefore(x, y)

-----------------------------------------------------------------------------
Ends(verdict) == pc' = "Done" /\ outcome' = verdict

\* A profile is measured, or one is given; the tests may fail.
CoverageProfile ==
    /\ pc = "Coverage"
    /\ \/ /\ \E p \in Profile : mode' = p.mode /\ lines' = p.lines
          /\ pc' = "Lines" /\ UNCHANGED outcome
       \/ Ends("baselineFailed") /\ UNCHANGED <<mode, lines>>
    /\ UNCHANGED <<tree, edits, segments, reportVars>>

ReadLine(l) ==
    /\ pc = "Lines" /\ l \in lines
    /\ ValidLine(l) /\ ~\E a \in segments : SamePlace(a, l)
    /\ segments' = segments \cup {l}
    /\ lines' = lines \ {l}
    /\ UNCHANGED <<tree, edits, pc, mode, reportVars, outcome>>

RefuseLine(l) ==
    /\ pc = "Lines" /\ l \in lines
    /\ ~ValidLine(l) \/ \E a \in segments : SamePlace(a, l)
    /\ Ends("dependencyError")
    /\ UNCHANGED <<tree, edits, profileVars, reportVars>>

\* Each file's segments are sorted by their start, then checked.
ValidateSegments ==
    /\ pc = "Lines" /\ lines = {}
    /\ \E q \in [Path -> UNION {Arrangements(SegmentsOf(p), StartsBefore) : p \in Path}] :
          /\ \A p \in Path : q[p] \in Arrangements(SegmentsOf(p), StartsBefore)
          /\ IF \A p \in Path : Disjoint(q[p]) /\ Weight(SegmentsOf(p)) <= SafeInteger
             THEN pc' = "Inventory" /\ UNCHANGED outcome
             ELSE Ends("dependencyError")
    /\ UNCHANGED <<tree, edits, profileVars, reportVars>>

ProductionGoSources ==
    /\ pc = "Inventory"
    /\ \/ inventory' = {p \in Path : tree[p] # Missing} /\ pc' = "Sources" /\ UNCHANGED outcome
       \/ Ends("dependencyError") /\ UNCHANGED inventory
    /\ UNCHANGED <<tree, edits, profileVars, readAs, rows, report>>

IsNext(p) == p \in inventory \ DOMAIN readAs /\ \A o \in inventory \ DOMAIN readAs : p <= o

AnalyzeSource(p) ==
    /\ pc = "Sources" /\ IsNext(p)
    /\ tree[p] \in Source /\ ~Ambiguous(tree[p])
    /\ readAs' = [o \in DOMAIN readAs \cup {p} |-> IF o = p THEN tree[p] ELSE readAs[o]]
    /\ rows' = rows \cup RowsOf(p, tree[p])
    /\ UNCHANGED <<tree, edits, pc, profileVars, inventory, report, outcome>>

RefuseSource(p) ==
    /\ pc = "Sources" /\ IsNext(p)
    /\ tree[p] \in Source => Ambiguous(tree[p])
    /\ Ends("dependencyError")
    /\ UNCHANGED <<tree, edits, profileVars, reportVars>>

OrderReport ==
    /\ pc = "Sources" /\ DOMAIN readAs = inventory
    /\ \E ordered \in Arrangements(rows, RowBefore) :
          report' = [i \in DOMAIN ordered |-> Public(ordered[i])]
    /\ Ends(IF rows # {} /\ \A r \in rows : RowPasses(Public(r)) THEN "passed" ELSE "qualityFailed")
    /\ UNCHANGED <<tree, edits, profileVars, inventory, readAs, rows>>

Edit(p) ==
    /\ edits < MaxEdits /\ pc # "Done"
    /\ edits' = edits + 1
    /\ \E s \in (Source \cup {Missing, Broken}) \ {tree[p]} : tree' = [tree EXCEPT ![p] = s]
    /\ UNCHANGED <<pc, profileVars, reportVars, outcome>>

-----------------------------------------------------------------------------
Init ==
    /\ tree \in [Path -> Source \cup {Missing, Broken}] /\ edits = 0
    /\ pc = "Coverage" /\ mode = "count" /\ lines = {} /\ segments = {}
    /\ inventory = {} /\ readAs = NoRead /\ rows = {} /\ report = << >>
    /\ outcome = "none"

AnalyzeCrap ==
    \/ CoverageProfile \/ ValidateSegments \/ ProductionGoSources \/ OrderReport
    \/ \E l \in lines : ReadLine(l) \/ RefuseLine(l)
    \/ \E p \in Path : AnalyzeSource(p) \/ RefuseSource(p)

Next == AnalyzeCrap \/ \E p \in Path : Edit(p)

Spec == Init /\ [][Next]_vars

-----------------------------------------------------------------------------
(* What is meant by a callable's own statements: those of the segments that it *)
(* holds and no callable in it does.                                            *)
Innermost(s, l) ==
    {c \in s.bodies : Within(l, c) /\ \A d \in s.bodies : Within(l, d) => Within(c, d)}

Mine(p, s, c) == {l \in SegmentsOf(p) : c \in Innermost(s, l)}

(* No statement is counted twice, whatever the profile and however the sources *)
(* were edited since it was measured: the segments of an accepted profile do    *)
(* not overlap although only neighbours are compared, and where a callable      *)
(* holds a segment, exactly one callable of the file counts it                  *)
(* (validateCoverageSegments, Counts, directLiteralRanges).                     *)
CountedOnce ==
    /\ pc \notin {"Coverage", "Lines"} /\ outcome = "none" =>
          \A a, b \in segments : a # b /\ a.path = b.path => a.end <= b.start \/ b.end <= a.start
    /\ \A p \in DOMAIN readAs : \A l \in SegmentsOf(p) :
          LET holders  == {c \in readAs[p].bodies : Within(l, c)}
              counters == {c \in readAs[p].bodies : Includes(readAs[p], c, l)}
          IN  Cardinality(counters) = IF holders = {} THEN 0 ELSE 1

(* A passing report was earned by every callable that was listed and read: each *)
(* has statements of its own in the profile, and their exact score is at most   *)
(* the limit. Files and callables made since the measurement never pass by      *)
(* having none, and no row stands in for another that has its identity           *)
(* (scoreCallable, reserveCallableID, orderCrapReport).                          *)
Earned(p, s, c) ==
    LET total     == Weight(Mine(p, s, c))
        uncovered == total - Weight({l \in Mine(p, s, c) : l.hits > 0})
        cc        == Complexity(s, c)
    IN  total > 0 /\ cc * cc * Cube(uncovered) + cc * Cube(total) <= crapLimit * Cube(total)

PassIsEarned ==
    outcome \in {"passed", "qualityFailed"} =>
        /\ DOMAIN readAs = inventory
        /\ outcome = "passed" <=>
              /\ \E p \in inventory : readAs[p].bodies # {}
              /\ \A p \in inventory : \A c \in readAs[p].bodies : Earned(p, readAs[p], c)

(* The first row of the report decides: unknown rows come before scores, and    *)
(* scores are compared as exact fractions, so a reader who sees the first row   *)
(* pass knows that all do (SortRows).                                            *)
WorstFirst ==
    outcome \in {"passed", "qualityFailed"} =>
        (outcome = "passed" <=> report # << >> /\ RowPasses(report[1]))
=============================================================================
