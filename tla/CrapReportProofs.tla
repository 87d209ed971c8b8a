-------------------------- MODULE CrapReportProofs --------------------------
(* What is proved of the CRAP component, for any sources whose callables nest  *)
(* as syntax does, any profile and any number of edits.                        *)
EXTENDS CrapReport, FiniteSetTheorems, WellFoundedInduction, TLAPS

(* The inductive invariant: once the profile is accepted its segments do not   *)
(* overlap, and the rows are those of the sources as they were read.            *)

NoOverlap == \A a, b \in segments : a # b /\ a.path = b.path => a.end <= b.start \/ b.end <= a.start

ProfileInv ==
    /\ \A l \in lines : l.start \in Nat /\ l.end \in Nat /\ l.statements \in Nat
    /\ \A l \in segments : /\ l.start \in Nat /\ l.end \in Nat /\ l.statements \in Nat
                           /\ l.path \in Path /\ l.start <= l.end
    /\ IsFiniteSet(segments)
    /\ pc \in {"Inventory", "Sources"} => NoOverlap

JoinInv ==
    /\ tree \in [Path -> Source \cup {Missing, Broken}]
    /\ DOMAIN readAs \subseteq Path
    /\ \A p \in DOMAIN readAs : readAs[p] \in Source /\ ~Ambiguous(readAs[p])
    /\ pc \in {"Coverage", "Lines", "Inventory"} => DOMAIN readAs = {}
    /\ rows = UNION {RowsOf(p, readAs[p]) : p \in DOMAIN readAs}

VerdictInv ==
    /\ pc \in {"Coverage", "Lines", "Inventory", "Sources", "Done"}
    /\ pc = "Done" <=> outcome # "none"
    /\ outcome \in {"passed", "qualityFailed"} =>
          /\ DOMAIN readAs = inventory
          /\ report \in Arrangements(rows, RowBefore)
          /\ outcome = "passed" <=> rows # {} /\ \A r \in rows : RowPasses(r)

CInv == ProfileInv /\ JoinInv /\ VerdictInv

-----------------------------------------------------------------------------
(* Ownership. *)

LEMMA Least ==
  ASSUME NEW T \in SUBSET Nat, T # {}
  PROVE  \E x \in T : \A y \in T : x <= y
<1>1. IsWellFoundedOn(OpToRel(<, Nat), Nat)
  BY NatLessThanWellFounded
<1>2. PICK x \in T : \A y \in T : ~ (<<y, x>> \in OpToRel(<, Nat))
  BY <1>1, WFMin
<1>3. \A y \in T : ~(y < x)
  BY <1>2 DEF OpToRel
<1> QED
  BY <1>3

(* Where a callable holds another, one of its direct literals is or holds it.  *)
LEMMA DirectLiteralHolds ==
  ASSUME NEW s \in Source, NEW c \in s.bodies, NEW e \in s.bodies \ {c}, Within(e, c)
  PROVE  \E d \in DirectLiterals(s, c) : Within(e, d)
<1> DEFINE T == {d \in s.bodies \ {c} : Within(d, c) /\ Within(e, d)}
           N == {d.start : d \in T}
<1>1. Laminar(s.bodies)
  BY CrapAssumption
<1>2. \A d \in s.bodies : d.start \in Nat /\ d.end \in Nat
  BY <1>1 DEF Laminar
<1>3. e \in T
  BY <1>2 DEF Within
<1>4. N \in SUBSET Nat /\ N # {}
  BY <1>2, <1>3
<1>5. PICK n \in N : \A y \in N : n <= y
  BY <1>4, Least
<1>6. PICK d \in T : d.start = n
  BY <1>5
<1>7. ~\E f \in s.bodies \ {c, d} : Within(d, f) /\ Within(f, c)
  <2> SUFFICES ASSUME NEW f \in s.bodies \ {c, d}, Within(d, f), Within(f, c)
               PROVE  FALSE
    OBVIOUS
  <2>1. f \in T
    BY <1>2, <1>6 DEF Within
  <2>2. d.start <= f.start
    BY <1>5, <1>6, <2>1
  <2>3. f.start < d.start
    <3>1. d.start < d.end
      BY <1>1, <1>6 DEF Laminar
    <3>2. f.start <= d.start /\ d.end <= f.end
      BY DEF Within
    <3>3. \/ f.end < d.start \/ d.end < f.start
          \/ f.start < d.start /\ d.end < f.end
          \/ d.start < f.start /\ f.end < d.end
      BY <1>1, <1>6 DEF Laminar
    <3> QED
      BY <1>2, <1>6, <3>1, <3>2, <3>3
  <2> QED
    BY <1>2, <1>6, <2>2, <2>3
<1> QED
  BY <1>6, <1>7 DEF DirectLiterals

(* A callable counts a segment exactly where it is the innermost to hold it.   *)
LEMMA IncludesIsInnermost ==
  ASSUME NEW s \in Source, NEW c \in s.bodies, NEW l, l.start \in Nat, l.end \in Nat, l.start <= l.end
  PROVE  Includes(s, c, l) <=> c \in Innermost(s, l)
<1>1. Laminar(s.bodies)
  BY CrapAssumption
<1>2. \A d \in s.bodies : d.start \in Nat /\ d.end \in Nat
  BY <1>1 DEF Laminar
<1>3. ASSUME Includes(s, c, l)
      PROVE  c \in Innermost(s, l)
  <2> SUFFICES ASSUME NEW d \in s.bodies, Within(l, d), ~Within(c, d)
               PROVE  FALSE
    BY <1>3 DEF Innermost, Includes
  <2>1. Within(l, c)
    BY <1>3 DEF Includes
  <2>2. d # c
    BY <1>2 DEF Within
  <2>3. Within(d, c)
    <3>1. \/ c.end < d.start \/ d.end < c.start
          \/ c.start < d.start /\ d.end < c.end
          \/ d.start < c.start /\ c.end < d.end
      BY <1>1, <2>2 DEF Laminar
    <3>2. c.start <= l.start /\ l.end <= c.end /\ d.start <= l.start /\ l.end <= d.end
      BY <2>1 DEF Within
    <3>3. ~(d.start <= c.start /\ c.end <= d.end)
      BY DEF Within
    <3>4. d.start >= c.start /\ d.end <= c.end
      BY <1>2, <3>1, <3>2, <3>3
    <3> QED
      BY <1>2, <3>4 DEF Within
  <2>4. PICK e \in DirectLiterals(s, c) : Within(d, e)
    BY <2>2, <2>3, DirectLiteralHolds
  <2>5. Within(l, e)
    BY <1>2, <2>4 DEF Within, DirectLiterals
  <2> QED
    BY <1>3, <2>4, <2>5 DEF Includes
<1>4. ASSUME c \in Innermost(s, l)
      PROVE  Includes(s, c, l)
  <2> SUFFICES ASSUME NEW d \in DirectLiterals(s, c), Within(l, d)
               PROVE  FALSE
    BY <1>4 DEF Includes, Innermost
  <2>1. d \in s.bodies /\ d # c /\ Within(d, c)
    BY DEF DirectLiterals
  <2>2. Within(c, d)
    BY <1>4, <2>1 DEF Innermost
  <2>3. \/ c.end < d.start \/ d.end < c.start
        \/ c.start < d.start /\ d.end < c.end
        \/ d.start < c.start /\ c.end < d.end
    BY <1>1, <2>1 DEF Laminar
  <2>4. c.start < c.end /\ d.start < d.end
    BY <1>1, <2>1 DEF Laminar
  <2> QED
    BY <1>2, <2>1, <2>2, <2>3, <2>4 DEF Within
<1> QED
  BY <1>3, <1>4

(* A segment that some callable holds has exactly one innermost callable.      *)
LEMMA OneInnermost ==
  ASSUME NEW s \in Source, NEW l, l.start \in Nat, l.end \in Nat, l.start <= l.end,
         NEW h \in s.bodies, Within(l, h)
  PROVE  \E c \in s.bodies : Innermost(s, l) = {c}
<1> DEFINE U == {c \in s.bodies : Within(l, c)}
           N == {l.start - c.start : c \in U}
<1>1. Laminar(s.bodies)
  BY CrapAssumption
<1>2. \A d \in s.bodies : d.start \in Nat /\ d.end \in Nat
  BY <1>1 DEF Laminar
<1>3. N \in SUBSET Nat /\ N # {}
  <2>1. \A c \in U : l.start - c.start \in Nat
    BY <1>2 DEF Within
  <2> QED
    BY <2>1
<1>4. PICK n \in N : \A y \in N : n <= y
  BY <1>3, Least
<1>5. PICK c \in U : n = l.start - c.start
  BY <1>4
<1>6. \A d \in U : Within(c, d)
  <2> SUFFICES ASSUME NEW d \in U, d # c
               PROVE  Within(c, d)
    BY <1>2, <1>5 DEF Within
  <2>1. l.start - c.start <= l.start - d.start
    BY <1>4, <1>5
  <2>2. d.start <= c.start
    BY <1>2, <1>5, <2>1
  <2>3. \/ c.end < d.start \/ d.end < c.start
        \/ c.start < d.start /\ d.end < c.end
        \/ d.start < c.start /\ c.end < d.end
    BY <1>1, <1>5 DEF Laminar
  <2>4. c.start <= l.start /\ l.end <= c.end /\ d.start <= l.start /\ l.end <= d.end
    BY <1>5 DEF Within
  <2> QED
    BY <1>2, <1>5, <2>2, <2>3, <2>4 DEF Within
<1>7. c \in Innermost(s, l)
  BY <1>5, <1>6 DEF Innermost
<1>8. \A d \in Innermost(s, l) : d = c
  <2> SUFFICES ASSUME NEW d \in Innermost(s, l), d # c
               PROVE  FALSE
    OBVIOUS
  <2>1. d \in s.bodies /\ Within(d, c) /\ Within(c, d)
    BY <1>5, <1>6 DEF Innermost
  <2>2. \/ c.end < d.start \/ d.end < c.start
        \/ c.start < d.start /\ d.end < c.end
        \/ d.start < c.start /\ c.end < d.end
    BY <1>1, <1>5, <2>1 DEF Laminar
  <2>3. c.start < c.end /\ d.start < d.end
    BY <1>1, <1>5, <2>1 DEF Laminar
  <2> QED
    BY <1>2, <1>5, <2>1, <2>2, <2>3 DEF Within
<1> QED
  BY <1>5, <1>7, <1>8

(* Exactly one callable counts a segment that some callable holds, none counts *)
(* any other.                                                                   *)
LEMMA OneCounter ==
  ASSUME NEW s \in Source, NEW l, l.start \in Nat, l.end \in Nat, l.start <= l.end
  PROVE  Cardinality({c \in s.bodies : Includes(s, c, l)})
           = IF {c \in s.bodies : Within(l, c)} = {} THEN 0 ELSE 1
<1>1. {c \in s.bodies : Includes(s, c, l)} = Innermost(s, l)
  BY IncludesIsInnermost DEF Innermost
<1>2. CASE {c \in s.bodies : Within(l, c)} = {}
  <2>1. Innermost(s, l) = {}
    BY <1>2 DEF Innermost
  <2> QED
    BY <1>1, <1>2, <2>1, FS_EmptySet
<1>3. CASE {c \in s.bodies : Within(l, c)} # {}
  <2>1. PICK h \in s.bodies : Within(l, h)
    BY <1>3
  <2>2. PICK c \in s.bodies : Innermost(s, l) = {c}
    BY <2>1, OneInnermost
  <2> QED
    BY <1>1, <1>3, <2>2, FS_Singleton
<1> QED
  BY <1>2, <1>3

-----------------------------------------------------------------------------
(* Sorting and adding. *)

(* Segments in the order of their starts, each ending before its neighbour     *)
(* begins, do not overlap at all (validateCoverageSegments).                    *)
LEMMA NeighboursAreEnough ==
  ASSUME NEW S, IsFiniteSet(S), \A l \in S : l.start \in Nat /\ l.end \in Nat,
         NEW q \in Arrangements(S, StartsBefore), Disjoint(q),
         NEW a \in S, NEW b \in S, a # b
  PROVE  a.end <= b.start \/ b.end <= a.start
<1>1. Cardinality(S) \in Nat
  BY FS_CardinalityType
<1>2. /\ q \in [1..Cardinality(S) -> S]
      /\ \A x \in S : \E i \in DOMAIN q : q[i] = x
      /\ \A i, j \in DOMAIN q : i < j => ~StartsBefore(q[j], q[i])
  BY DEF Arrangements
<1>3. ASSUME NEW i \in DOMAIN q, NEW j \in DOMAIN q, i < j
      PROVE  q[i].end <= q[j].start
  <2>1. i \in Nat /\ j \in Nat /\ i + 1 \in DOMAIN q /\ q[i] \in S /\ q[j] \in S /\ q[i + 1] \in S
    BY <1>1, <1>2, <1>3
  <2>2. q[i].end <= q[i + 1].start
    <3>1. i + 1 > 1 /\ (i + 1) - 1 = i
      BY <1>1, <1>2, <2>1
    <3> QED
      BY <2>1, <3>1 DEF Disjoint
  <2>3. q[i + 1].start <= q[j].start
    <3>1. CASE i + 1 = j
      BY <2>1, <3>1
    <3>2. CASE i + 1 < j
      <4>1. ~StartsBefore(q[j], q[i + 1])
        BY <1>2, <1>3, <2>1, <3>2
      <4>2. q[j].start \in Nat /\ q[i + 1].start \in Nat
        BY <2>1
      <4>3. ~(q[j].start < q[i + 1].start)
        BY <4>1, Zenon DEF StartsBefore
      <4> QED
        BY <4>2, <4>3
    <3> QED
      BY <1>3, <2>1, <3>1, <3>2
  <2> QED
    BY <2>1, <2>2, <2>3
<1>4. PICK i \in DOMAIN q, j \in DOMAIN q : q[i] = a /\ q[j] = b
  BY <1>2
<1>5. i < j \/ j < i
  BY <1>1, <1>2, <1>4
<1> QED
  BY <1>3, <1>4, <1>5

(* A weight is a number, and no part weighs more than the whole.               *)
LEMMA WeightIsNat ==
  ASSUME NEW S, IsFiniteSet(S), \A l \in S : l.statements \in Nat
  PROVE  IsFiniteSet(Units(S)) /\ Weight(S) \in Nat
<1> DEFINE f == [l \in S |-> {l} \X (1..l.statements)]
           T == {{l} \X (1..l.statements) : l \in S}
<1>1. f \in Surjection(S, T)
  BY DEF Surjection
<1>2. IsFiniteSet(T)
  BY <1>1, FS_Surjection
<1>3. \A x \in T : IsFiniteSet(x)
  <2> SUFFICES ASSUME NEW l \in S
               PROVE  IsFiniteSet({l} \X (1..l.statements))
    OBVIOUS
  <2>1. l.statements \in Int /\ 1 \in Int
    OBVIOUS
  <2>2. IsFiniteSet(1..l.statements)
    BY <2>1, FS_Interval
  <2>3. IsFiniteSet({l})
    BY FS_Singleton
  <2> QED
    BY <2>2, <2>3, FS_Product
<1>4. IsFiniteSet(UNION T)
  BY <1>2, <1>3, FS_UNION
<1> QED
  BY <1>4, FS_CardinalityType DEF Units, Weight

\* No part of a finite set of segments weighs more than the whole.
LEMMA WeightOfPart ==
  ASSUME NEW S, IsFiniteSet(S), \A l \in S : l.statements \in Nat, NEW T \in SUBSET S
  PROVE  Weight(T) \in Nat /\ Weight(T) <= Weight(S)
<1>1. IsFiniteSet(T) /\ \A l \in T : l.statements \in Nat
  BY FS_Subset
<1>2. IsFiniteSet(Units(S)) /\ Weight(T) \in Nat
  BY <1>1, WeightIsNat
<1>3. Units(T) \subseteq Units(S)
  BY DEF Units
<1> QED
  BY <1>2, <1>3, FS_Subset DEF Weight

\* A callable that counts no segment has no statements.
LEMMA NothingWeighsNothing == Weight({}) = 0
<1>1. Units({}) = {}
  BY DEF Units
<1> QED
  BY <1>1, FS_EmptySet DEF Weight

(* The statements a row counts are the callable's own.                          *)
LEMMA CountedIsMine ==
  ASSUME ProfileInv, NEW p, NEW s \in Source, NEW c \in s.bodies
  PROVE  Counted(p, s, c) = Mine(p, s, c)
<1>1. \A l \in SegmentsOf(p) : Includes(s, c, l) <=> c \in Innermost(s, l)
  <2> SUFFICES ASSUME NEW l \in SegmentsOf(p)
               PROVE  Includes(s, c, l) <=> c \in Innermost(s, l)
    OBVIOUS
  <2>1. l.start \in Nat /\ l.end \in Nat /\ l.start <= l.end
    BY DEF ProfileInv, SegmentsOf
  <2> QED
    BY <2>1, IncludesIsInnermost
<1> QED
  BY <1>1 DEF Counted, Mine

\* A row's numbers are natural, are those of the callable's own segments, and
\* the reason is none exactly where there are statements.
LEMMA RowNumbers ==
  ASSUME ProfileInv, NEW p, NEW s \in Source, NEW c \in s.bodies
  PROVE  LET r == Row(p, s, c)
         IN  /\ r.complexity \in Nat /\ r.total \in Nat /\ r.covered \in Nat /\ r.covered <= r.total
             /\ r.reason = "none" <=> r.total > 0
             /\ r.complexity = Complexity(s, c) /\ r.total = Weight(Mine(p, s, c))
             /\ r.covered = Weight({l \in Mine(p, s, c) : l.hits > 0})
<1> DEFINE r == Row(p, s, c)
           own == Counted(p, s, c)
<1>1. own = Mine(p, s, c)
  BY CountedIsMine
<1>2. own \in SUBSET segments /\ {l \in own : l.hits > 0} \in SUBSET own
  BY DEF Counted, SegmentsOf
<1>3. IsFiniteSet(own) /\ \A l \in own : l.statements \in Nat
  BY <1>2, FS_Subset DEF ProfileInv
<1>4. Weight(own) \in Nat /\ Weight({l \in own : l.hits > 0}) \in Nat /\ Weight({l \in own : l.hits > 0}) <= Weight(own)
  BY <1>2, <1>3, WeightIsNat, WeightOfPart
<1>5. Complexity(s, c) \in Nat
  <2> DEFINE D == {n \in s.decisions : c.start <= n /\ n < c.end /\
                     ~\E d \in DirectLiterals(s, c) : d.start <= n /\ n < d.end}
  <2>1. IsFiniteSet(s.decisions) /\ D \in SUBSET s.decisions
    BY CrapAssumption
  <2>2. Cardinality(D) \in Nat
    BY <2>1, FS_Subset, FS_CardinalityType
  <2> QED
    BY <2>2 DEF Complexity
<1>6. SegmentsOf(p) = {} => Weight(own) = 0
  <2>1. SegmentsOf(p) = {} => own = {}
    BY DEF Counted
  <2> QED
    BY <2>1, NothingWeighsNothing
<1>7. /\ r.complexity = Complexity(s, c) /\ r.total = Weight(own)
      /\ r.covered = Weight({l \in own : l.hits > 0})
      /\ r.reason = IF SegmentsOf(p) = {} THEN "coverageFileMissing"
                    ELSE IF Weight(own) = 0 THEN "zeroExecutableUnits" ELSE "none"
  BY DEF Row
<1>8. r.reason = "none" <=> r.total > 0
  BY <1>4, <1>6, <1>7
<1> HIDE DEF r, own
<1> QED
  BY <1>1, <1>4, <1>5, <1>7, <1>8 DEF r

(* A row passes exactly where its callable has earned it.                       *)
LEMMA RowIsEarned ==
  ASSUME ProfileInv, NEW p, NEW s \in Source, NEW c \in s.bodies
  PROVE  RowPasses(Row(p, s, c)) <=> Earned(p, s, c)
<1> DEFINE r == Row(p, s, c)
<1>1. /\ r.reason = "none" <=> r.total > 0
      /\ r.complexity = Complexity(s, c) /\ r.total = Weight(Mine(p, s, c))
      /\ r.covered = Weight({l \in Mine(p, s, c) : l.hits > 0})
  BY RowNumbers
<1> HIDE DEF r
<1>2. RowPasses(r) <=> Earned(p, s, c)
  BY <1>1 DEF RowPasses, Earned, Numerator, Denominator
<1> QED
  BY <1>2 DEF r

-----------------------------------------------------------------------------
(* The order of the report. *)

LEMMA Products ==
  ASSUME NEW n1 \in Nat, NEW d1 \in Nat, NEW n2 \in Nat, NEW d2 \in Nat,
         d1 > 0, n2 * d1 <= n1 * d2, n1 <= 8 * d1
  PROVE  n2 <= 8 * d2
<1>1. n1 * d2 <= (8 * d1) * d2
  BY SMT
<1>2. n2 * d1 <= (8 * d2) * d1
  BY <1>1, SMT
<1>3. n2 > 8 * d2 => n2 * d1 > (8 * d2) * d1
  BY SMT
<1> QED
  BY <1>2, <1>3, SMT

\* A score is a fraction of naturals, with a positive denominator where there
\* are statements.
LEMMA FractionNumbers ==
  ASSUME NEW r, r.complexity \in Nat, r.total \in Nat, r.covered \in Nat, r.covered <= r.total
  PROVE  /\ Numerator(r) \in Nat /\ Denominator(r) \in Nat
         /\ r.total > 0 => Denominator(r) > 0
<1>1. \A m, n \in Nat : m * n \in Nat
  OBVIOUS
<1>2. r.total - r.covered \in Nat
  OBVIOUS
<1>3. Cube(r.total) \in Nat /\ Cube(r.total - r.covered) \in Nat
  BY <1>1, <1>2 DEF Cube
<1>4. Numerator(r) \in Nat /\ Denominator(r) \in Nat
  BY <1>1, <1>3 DEF Numerator, Denominator
<1>5. r.total > 0 => Cube(r.total) > 0
  <2>1. \A m, n \in Nat : m > 0 /\ n > 0 => m * n > 0
    OBVIOUS
  <2> QED
    BY <1>1, <2>1 DEF Cube
<1> QED
  BY <1>4, <1>5 DEF Denominator

(* Where the first row passes, so does every row that may follow it.            *)
LEMMA FollowersPass ==
  ASSUME NEW a, a.complexity \in Nat, a.total \in Nat, a.covered \in Nat, a.covered <= a.total,
         NEW b, b.complexity \in Nat, b.total \in Nat, b.covered \in Nat, b.covered <= b.total,
         a.reason = "none" => a.total > 0,
         RowPasses(a), ~RowBefore(b, a)
  PROVE  RowPasses(b)
<1>1. /\ Numerator(a) \in Nat /\ Denominator(a) \in Nat /\ Denominator(a) > 0
      /\ Numerator(b) \in Nat /\ Denominator(b) \in Nat
  BY FractionNumbers DEF RowPasses
<1>2. a.reason = "none" /\ Numerator(a) <= 8 * Denominator(a)
  BY DEF RowPasses, crapLimit
<1>3. b.reason = "none"
  BY <1>2 DEF RowBefore, Unknown
<1>4. ~(Numerator(b) * Denominator(a) > Numerator(a) * Denominator(b))
  BY <1>2, <1>3 DEF RowBefore, Unknown
<1>5. \A m, n \in Nat : m * n \in Nat
  OBVIOUS
<1>6. Numerator(b) * Denominator(a) <= Numerator(a) * Denominator(b)
  BY <1>1, <1>4, <1>5
<1>7. Numerator(b) <= 8 * Denominator(b)
  BY <1>1, <1>2, <1>6, Products
<1> QED
  BY <1>3, <1>7 DEF RowPasses, crapLimit

-----------------------------------------------------------------------------
(* The inductive invariant. *)

LEMMA InitCInv == Init => CInv
<1> SUFFICES ASSUME Init
             PROVE  CInv
  OBVIOUS
<1>1. ProfileInv
  BY FS_EmptySet DEF Init, ProfileInv
<1>2. JoinInv
  BY DEF Init, JoinInv, NoRead
<1>3. VerdictInv
  BY DEF Init, VerdictInv
<1> QED
  BY <1>1, <1>2, <1>3 DEF CInv

(* Making or refusing a profile, listing the sources or failing to, and an     *)
(* edit touch neither the rows nor the segments.                                *)
LEMMA CoverageProfileStep == CInv /\ CoverageProfile => CInv'
<1> SUFFICES ASSUME CInv, CoverageProfile
             PROVE  CInv'
  OBVIOUS
<1>1. ProfileInv'
  <2>1. \A l \in lines' : l.start \in Nat /\ l.end \in Nat /\ l.statements \in Nat
    BY CrapAssumption DEF CInv, ProfileInv, CoverageProfile
  <2>2. segments' = segments /\ pc' \in {"Lines", "Done"}
    BY DEF CoverageProfile, Ends
  <2> QED
    BY <2>1, <2>2 DEF CInv, ProfileInv
<1>2. JoinInv'
  <2>1. UNCHANGED <<tree, readAs, rows, segments>> /\ DOMAIN readAs = {}
    BY DEF CoverageProfile, CInv, JoinInv, reportVars
  <2>2. rows' = {}
    BY <2>1 DEF CInv, JoinInv
  <2> QED
    BY <2>1, <2>2 DEF CInv, JoinInv
<1>3. VerdictInv'
  BY DEF CoverageProfile, Ends, CInv, VerdictInv
<1> QED
  BY <1>1, <1>2, <1>3 DEF CInv

\* A line that is accepted adds a well-formed segment of a known path.
LEMMA ReadLineStep == CInv /\ (\E l \in lines : ReadLine(l)) => CInv'
<1> SUFFICES ASSUME CInv, NEW l \in lines, ReadLine(l)
             PROVE  CInv'
  OBVIOUS
<1>1. /\ segments' = segments \cup {l} /\ lines' = lines \ {l} /\ pc = "Lines" /\ pc' = pc
      /\ UNCHANGED <<tree, readAs, rows, inventory, report, outcome>>
  BY DEF ReadLine, reportVars
<1>2. l.path \in Path /\ l.start <= l.end
  BY DEF ReadLine, ValidLine, ValidInterval, CInv, ProfileInv
<1>3. IsFiniteSet(segments')
  BY <1>1, FS_AddElement DEF CInv, ProfileInv
<1>4. ProfileInv'
  BY <1>1, <1>2, <1>3 DEF CInv, ProfileInv
<1>5. JoinInv'
  BY <1>1 DEF CInv, JoinInv
<1>6. VerdictInv'
  BY <1>1 DEF CInv, VerdictInv
<1> QED
  BY <1>4, <1>5, <1>6 DEF CInv

(* The rows depend on the segments and on what was read, and on nothing else.  *)
LEMMA RowsStay == UNCHANGED <<segments, readAs, rows>> /\ JoinInv => rows' = (UNION {RowsOf(p, readAs[p]) : p \in DOMAIN readAs})'
BY DEF JoinInv, RowsOf, Row, Counted, SegmentsOf

\* A line that is refused ends the component.
LEMMA RefuseLineStep == CInv /\ (\E l \in lines : RefuseLine(l)) => CInv'
<1> SUFFICES ASSUME CInv, NEW l \in lines, RefuseLine(l)
             PROVE  CInv'
  OBVIOUS
<1>1. /\ UNCHANGED <<tree, lines, segments, inventory, readAs, rows, report>>
      /\ pc = "Lines" /\ pc' = "Done" /\ outcome' = "dependencyError"
  BY DEF RefuseLine, Ends, profileVars, reportVars
<1>2. rows' = (UNION {RowsOf(p, readAs[p]) : p \in DOMAIN readAs})'
  BY <1>1, RowsStay DEF CInv
<1>3. ProfileInv'
  BY <1>1 DEF CInv, ProfileInv
<1>4. JoinInv'
  BY <1>1, <1>2 DEF CInv, JoinInv
<1>5. VerdictInv'
  BY <1>1 DEF CInv, VerdictInv
<1> QED
  BY <1>3, <1>4, <1>5 DEF CInv

(* An accepted profile has no overlap: that is what the comparison of          *)
(* neighbours gives.                                                            *)
LEMMA ValidateSegmentsStep == CInv /\ ValidateSegments => CInv'
<1> SUFFICES ASSUME CInv, ValidateSegments
             PROVE  CInv'
  OBVIOUS
<1>1. /\ UNCHANGED <<tree, lines, segments, inventory, readAs, rows, report>> /\ pc = "Lines"
      /\ \/ pc' = "Inventory" /\ outcome' = outcome
         \/ pc' = "Done" /\ outcome' = "dependencyError"
  BY DEF ValidateSegments, Ends, profileVars, reportVars
<1>2. ASSUME pc' = "Inventory"
      PROVE  NoOverlap
  <2>1. PICK q \in [Path -> UNION {Arrangements(SegmentsOf(p), StartsBefore) : p \in Path}] :
           \A p \in Path : q[p] \in Arrangements(SegmentsOf(p), StartsBefore) /\ Disjoint(q[p])
    BY <1>2 DEF ValidateSegments, Ends
  <2> SUFFICES ASSUME NEW a \in segments, NEW b \in segments, a # b, a.path = b.path
               PROVE  a.end <= b.start \/ b.end <= a.start
    BY DEF NoOverlap
  <2> DEFINE S == SegmentsOf(a.path)
  <2>2. a.path \in Path
    BY DEF CInv, ProfileInv
  <2>3. S \in SUBSET segments /\ a \in S /\ b \in S
    BY DEF SegmentsOf
  <2>4. IsFiniteSet(S) /\ \A l \in S : l.start \in Nat /\ l.end \in Nat
    BY <2>3, FS_Subset DEF CInv, ProfileInv
  <2>5. q[a.path] \in Arrangements(S, StartsBefore) /\ Disjoint(q[a.path])
    BY <2>1, <2>2
  <2> HIDE DEF S
  <2> QED
    BY <2>3, <2>4, <2>5, NeighboursAreEnough
<1>3. rows' = (UNION {RowsOf(p, readAs[p]) : p \in DOMAIN readAs})'
  BY <1>1, RowsStay DEF CInv
<1>4. ProfileInv'
  BY <1>1, <1>2 DEF CInv, ProfileInv, NoOverlap
<1>5. JoinInv'
  BY <1>1, <1>3 DEF CInv, JoinInv
<1>6. VerdictInv'
  BY <1>1 DEF CInv, VerdictInv
<1> QED
  BY <1>4, <1>5, <1>6 DEF CInv

\* Listing the sources keeps the segments apart.
LEMMA ProductionGoSourcesStep == CInv /\ ProductionGoSources => CInv'
<1> SUFFICES ASSUME CInv, ProductionGoSources
             PROVE  CInv'
  OBVIOUS
<1>1. /\ UNCHANGED <<tree, lines, segments, readAs, rows, report>> /\ pc = "Inventory"
      /\ \/ pc' = "Sources" /\ outcome' = outcome
         \/ pc' = "Done" /\ outcome' = "dependencyError"
  BY DEF ProductionGoSources, Ends, profileVars
<1>2. rows' = (UNION {RowsOf(p, readAs[p]) : p \in DOMAIN readAs})'
  BY <1>1, RowsStay DEF CInv
<1>3. ProfileInv'
  BY <1>1 DEF CInv, ProfileInv, NoOverlap
<1>4. JoinInv'
  BY <1>1, <1>2 DEF CInv, JoinInv
<1>5. VerdictInv'
  BY <1>1 DEF CInv, VerdictInv
<1> QED
  BY <1>3, <1>4, <1>5 DEF CInv

\* Each source adds the rows of what was read.
LEMMA AnalyzeSourceStep == CInv /\ (\E p \in Path : AnalyzeSource(p)) => CInv'
<1> SUFFICES ASSUME CInv, NEW p \in Path, AnalyzeSource(p)
             PROVE  CInv'
  OBVIOUS
<1>1. /\ UNCHANGED <<tree, lines, segments, inventory, report, outcome, pc>> /\ pc = "Sources"
      /\ p \notin DOMAIN readAs /\ tree[p] \in Source /\ ~Ambiguous(tree[p])
      /\ readAs' = [o \in DOMAIN readAs \cup {p} |-> IF o = p THEN tree[p] ELSE readAs[o]]
      /\ rows' = rows \cup RowsOf(p, tree[p])
  BY DEF AnalyzeSource, IsNext, profileVars
<1>2. DOMAIN readAs' = DOMAIN readAs \cup {p} /\ readAs'[p] = tree[p]
  BY <1>1
<1>3. \A o \in DOMAIN readAs : readAs'[o] = readAs[o]
  BY <1>1
<1>4. rows' = UNION {RowsOf(o, readAs'[o]) : o \in DOMAIN readAs'}
  <2>1. rows = UNION {RowsOf(o, readAs'[o]) : o \in DOMAIN readAs}
    <3>1. rows = UNION {RowsOf(o, readAs[o]) : o \in DOMAIN readAs}
      BY DEF CInv, JoinInv
    <3>2. {RowsOf(o, readAs[o]) : o \in DOMAIN readAs} = {RowsOf(o, readAs'[o]) : o \in DOMAIN readAs}
      BY <1>3
    <3> QED
      BY <3>1, <3>2
  <2>2. {RowsOf(o, readAs'[o]) : o \in DOMAIN readAs'}
          = {RowsOf(o, readAs'[o]) : o \in DOMAIN readAs} \cup {RowsOf(p, tree[p])}
    BY <1>2
  <2> QED
    BY <1>1, <2>1, <2>2
<1>5. (UNION {RowsOf(o, readAs[o]) : o \in DOMAIN readAs})' = UNION {RowsOf(o, readAs'[o]) : o \in DOMAIN readAs'}
  <2>1. segments' = segments
    BY <1>1
  <2> QED
    BY <2>1 DEF RowsOf, Row, Counted, SegmentsOf
<1>6. ProfileInv'
  BY <1>1 DEF CInv, ProfileInv, NoOverlap
<1>7. JoinInv'
  <2>1. rows' = (UNION {RowsOf(o, readAs[o]) : o \in DOMAIN readAs})'
    BY <1>4, <1>5
  <2>2. DOMAIN readAs' \subseteq Path /\ \A o \in DOMAIN readAs' : readAs'[o] \in Source /\ ~Ambiguous(readAs'[o])
    BY <1>1, <1>2, <1>3 DEF CInv, JoinInv
  <2> QED
    BY <1>1, <2>1, <2>2 DEF CInv, JoinInv
<1>8. VerdictInv'
  BY <1>1 DEF CInv, VerdictInv
<1> QED
  BY <1>6, <1>7, <1>8 DEF CInv

\* A source that is refused ends the component.
LEMMA RefuseSourceStep == CInv /\ (\E p \in Path : RefuseSource(p)) => CInv'
<1> SUFFICES ASSUME CInv, NEW p \in Path, RefuseSource(p)
             PROVE  CInv'
  OBVIOUS
<1>1. /\ UNCHANGED <<tree, lines, segments, inventory, readAs, rows, report>>
      /\ pc = "Sources" /\ pc' = "Done" /\ outcome' = "dependencyError"
  BY DEF RefuseSource, Ends, profileVars, reportVars
<1>2. rows' = (UNION {RowsOf(o, readAs[o]) : o \in DOMAIN readAs})'
  BY <1>1, RowsStay DEF CInv
<1>3. ProfileInv'
  BY <1>1 DEF CInv, ProfileInv, NoOverlap
<1>4. JoinInv'
  BY <1>1, <1>2 DEF CInv, JoinInv
<1>5. VerdictInv'
  BY <1>1 DEF CInv, VerdictInv
<1> QED
  BY <1>3, <1>4, <1>5 DEF CInv

\* No two rows have one identity, for no two callables that were read have one:
\* the lookup of a row by its identity finds the row itself.
LEMMA LookupFindsTheRow ==
  ASSUME CInv, NEW r \in rows
  PROVE  Public(r) = r
<1>0. PICK p \in DOMAIN readAs : r \in RowsOf(p, readAs[p])
  BY DEF CInv, JoinInv
<1>1. PICK c \in readAs[p].bodies : r = Row(p, readAs[p], c)
  BY <1>0 DEF RowsOf
<1>2. ASSUME NEW x \in rows, x.id = r.id
      PROVE  x = r
  <2>0. PICK o \in DOMAIN readAs : x \in RowsOf(o, readAs[o])
    BY DEF CInv, JoinInv
  <2>1. PICK d \in readAs[o].bodies : x = Row(o, readAs[o], d)
    BY <2>0 DEF RowsOf
  <2>2. CallableID(o, readAs[o], d) = CallableID(p, readAs[p], c)
    BY <1>1, <1>2, <2>1 DEF Row
  <2>3. o = p /\ Described(readAs[p], d) = Described(readAs[p], c)
    BY <2>2 DEF CallableID
  <2>4. d = c
    BY <2>1, <2>3, <1>1 DEF CInv, JoinInv, Ambiguous
  <2> QED
    BY <1>1, <2>1, <2>3, <2>4
<1>3. ~IdentityBefore(r, r)
  <2>1. r.path = p /\ r.start = c.start
    BY <1>1 DEF Row
  <2>2. p \in Nat /\ c.start \in Nat
    BY <1>1, CrapAssumption DEF CInv, JoinInv, Laminar
  <2> QED
    BY <2>1, <2>2 DEF IdentityBefore
<1>4. \A x : x \in rows /\ x.id = r.id /\ (\A y \in rows : y.id = r.id => ~IdentityBefore(x, y)) <=> x = r
  BY <1>2, <1>3
<1> QED
  BY <1>4 DEF Public

\* The report is an arrangement of the rows, and the verdict is theirs.
LEMMA OrderReportStep == CInv /\ OrderReport => CInv'
<1> SUFFICES ASSUME CInv, OrderReport
             PROVE  CInv'
  OBVIOUS
<1>0. \A r \in rows : Public(r) = r
  BY LookupFindsTheRow
<1>1. /\ UNCHANGED <<tree, lines, segments, inventory, readAs, rows>> /\ DOMAIN readAs = inventory
      /\ report' \in Arrangements(rows, RowBefore) /\ pc' = "Done"
      /\ outcome' = IF rows # {} /\ \A r \in rows : RowPasses(r) THEN "passed" ELSE "qualityFailed"
  <2>1. PICK ordered \in Arrangements(rows, RowBefore) :
           report' = [i \in DOMAIN ordered |-> Public(ordered[i])]
    BY DEF OrderReport
  <2>2. ordered \in [1..Cardinality(rows) -> rows]
    BY <2>1, Zenon DEF Arrangements
  <2>3. report' = ordered
    BY <1>0, <2>1, <2>2
  <2>4. outcome' = IF rows # {} /\ \A r \in rows : RowPasses(r) THEN "passed" ELSE "qualityFailed"
    BY <1>0 DEF OrderReport, Ends
  <2> QED
    BY <2>1, <2>3, <2>4 DEF OrderReport, Ends, profileVars
<1>2. rows' = (UNION {RowsOf(o, readAs[o]) : o \in DOMAIN readAs})'
  BY <1>1, RowsStay DEF CInv
<1>3. ProfileInv'
  BY <1>1 DEF CInv, ProfileInv
<1>4. JoinInv'
  BY <1>1, <1>2 DEF CInv, JoinInv
<1>5. VerdictInv'
  BY <1>1 DEF CInv, VerdictInv
<1> QED
  BY <1>3, <1>4, <1>5 DEF CInv

(* Rows stay those of the sources as they were read, whatever an edit makes    *)
(* of them afterwards.                                                          *)
LEMMA EditStep == CInv /\ (\E p \in Path : Edit(p)) => CInv'
<1> SUFFICES ASSUME CInv, NEW p \in Path, Edit(p)
             PROVE  CInv'
  OBVIOUS
<1>1. UNCHANGED <<lines, segments, inventory, readAs, rows, report, pc, outcome>>
  BY DEF Edit, profileVars, reportVars
<1>2. tree' \in [Path -> Source \cup {Missing, Broken}]
  BY DEF Edit, CInv, JoinInv
<1>3. rows' = (UNION {RowsOf(o, readAs[o]) : o \in DOMAIN readAs})'
  BY <1>1, RowsStay DEF CInv
<1>4. ProfileInv'
  BY <1>1 DEF CInv, ProfileInv, NoOverlap
<1>5. JoinInv'
  BY <1>1, <1>2, <1>3 DEF CInv, JoinInv
<1>6. VerdictInv'
  BY <1>1 DEF CInv, VerdictInv
<1> QED
  BY <1>4, <1>5, <1>6 DEF CInv

\* A stuttering step keeps the invariant.
LEMMA StutterStep == CInv /\ UNCHANGED vars => CInv'
<1> SUFFICES ASSUME CInv, UNCHANGED vars
             PROVE  CInv'
  OBVIOUS
<1>1. UNCHANGED <<tree, lines, segments, inventory, readAs, rows, report, pc, outcome>>
  BY DEF vars, profileVars, reportVars
<1>2. rows' = (UNION {RowsOf(o, readAs[o]) : o \in DOMAIN readAs})'
  BY <1>1, RowsStay DEF CInv
<1>3. ProfileInv'
  BY <1>1 DEF CInv, ProfileInv, NoOverlap
<1>4. JoinInv'
  BY <1>1, <1>2 DEF CInv, JoinInv
<1>5. VerdictInv'
  BY <1>1 DEF CInv, VerdictInv
<1> QED
  BY <1>3, <1>4, <1>5 DEF CInv

(* The invariant holds of every reachable state.                                *)
THEOREM CrapInvariant == Spec => []CInv
<1>1. Init => CInv
  BY InitCInv
<1>2. CInv /\ [Next]_vars => CInv'
  BY CoverageProfileStep, ReadLineStep, RefuseLineStep, ValidateSegmentsStep, ProductionGoSourcesStep,
     AnalyzeSourceStep, RefuseSourceStep, OrderReportStep, EditStep, StutterStep DEF Next, AnalyzeCrap
<1> QED
  BY <1>1, <1>2, PTL DEF Spec

-----------------------------------------------------------------------------
(* The properties. *)

LEMMA RowsAreFinite ==
  ASSUME CInv
  PROVE  IsFiniteSet(rows)
<1> DEFINE f(p) == [c \in readAs[p].bodies |-> Row(p, readAs[p], c)]
           g == [p \in DOMAIN readAs |-> RowsOf(p, readAs[p])]
           T == {RowsOf(p, readAs[p]) : p \in DOMAIN readAs}
<1>1. \A p \in DOMAIN readAs : IsFiniteSet(RowsOf(p, readAs[p]))
  <2> SUFFICES ASSUME NEW p \in DOMAIN readAs
               PROVE  IsFiniteSet(RowsOf(p, readAs[p]))
    OBVIOUS
  <2>1. IsFiniteSet(readAs[p].bodies)
    BY CrapAssumption DEF CInv, JoinInv
  <2>2. f(p) \in Surjection(readAs[p].bodies, RowsOf(p, readAs[p]))
    BY DEF Surjection, RowsOf
  <2> QED
    BY <2>1, <2>2, FS_Surjection
<1>2. IsFiniteSet(DOMAIN readAs)
  BY CrapAssumption, FS_Subset DEF CInv, JoinInv
<1>3. g \in Surjection(DOMAIN readAs, T)
  BY DEF Surjection
<1>4. IsFiniteSet(T)
  BY <1>2, <1>3, FS_Surjection
<1>5. IsFiniteSet(UNION T)
  BY <1>1, <1>4, FS_UNION
<1> QED
  BY <1>5 DEF CInv, JoinInv

\* Every row is the row of a callable, so its numbers are a score.
LEMMA EveryRow ==
  ASSUME CInv, NEW r \in rows
  PROVE  /\ r.complexity \in Nat /\ r.total \in Nat /\ r.covered \in Nat /\ r.covered <= r.total
         /\ r.reason = "none" => r.total > 0
<1>1. PICK p \in DOMAIN readAs : r \in RowsOf(p, readAs[p])
  BY DEF CInv, JoinInv
<1>2. PICK c \in readAs[p].bodies : r = Row(p, readAs[p], c)
  BY <1>1 DEF RowsOf
<1>3. readAs[p] \in Source /\ ProfileInv
  BY DEF CInv, JoinInv
<1> QED
  BY <1>2, <1>3, RowNumbers

\* The invariant gives CountedOnce by OneCounter.
LEMMA CountedOnceHolds == CInv => CountedOnce
<1> SUFFICES ASSUME CInv
             PROVE  CountedOnce
  OBVIOUS
<1>1. pc \notin {"Coverage", "Lines"} /\ outcome = "none" => NoOverlap
  BY DEF CInv, VerdictInv, ProfileInv
<1>2. ASSUME NEW p \in DOMAIN readAs, NEW l \in SegmentsOf(p)
      PROVE  Cardinality({c \in readAs[p].bodies : Includes(readAs[p], c, l)})
               = IF {c \in readAs[p].bodies : Within(l, c)} = {} THEN 0 ELSE 1
  <2>1. readAs[p] \in Source
    BY DEF CInv, JoinInv
  <2>2. l.start \in Nat /\ l.end \in Nat /\ l.start <= l.end
    BY DEF CInv, ProfileInv, SegmentsOf
  <2> QED
    BY <2>1, <2>2, OneCounter
<1> QED
  BY <1>1, <1>2 DEF CountedOnce, NoOverlap

\* The invariant gives PassIsEarned by RowIsEarned.
LEMMA PassIsEarnedHolds == CInv => PassIsEarned
<1> SUFFICES ASSUME CInv, outcome \in {"passed", "qualityFailed"}
             PROVE  /\ DOMAIN readAs = inventory
                    /\ outcome = "passed" <=>
                         /\ \E p \in inventory : readAs[p].bodies # {}
                         /\ \A p \in inventory : \A c \in readAs[p].bodies : Earned(p, readAs[p], c)
  BY DEF PassIsEarned
<1>1. /\ DOMAIN readAs = inventory
      /\ outcome = "passed" <=> rows # {} /\ \A r \in rows : RowPasses(r)
  BY DEF CInv, VerdictInv
<1>2. \A r : r \in rows <=> \E p \in inventory : \E c \in readAs[p].bodies : r = Row(p, readAs[p], c)
  BY <1>1 DEF CInv, JoinInv, RowsOf
<1>3. rows # {} <=> \E p \in inventory : readAs[p].bodies # {}
  BY <1>2
<1>4. \A p \in inventory : \A c \in readAs[p].bodies :
         RowPasses(Row(p, readAs[p], c)) <=> Earned(p, readAs[p], c)
  BY <1>1, RowIsEarned DEF CInv, JoinInv
<1>5. (\A r \in rows : RowPasses(r))
         <=> \A p \in inventory : \A c \in readAs[p].bodies : Earned(p, readAs[p], c)
  BY <1>2, <1>4
<1> QED
  BY <1>1, <1>3, <1>5

\* The invariant gives WorstFirst: every row follows the first.
LEMMA WorstFirstHolds == CInv => WorstFirst
<1> SUFFICES ASSUME CInv, outcome \in {"passed", "qualityFailed"}
             PROVE  outcome = "passed" <=> report # << >> /\ RowPasses(report[1])
  BY DEF WorstFirst
<1>1. /\ report \in Arrangements(rows, RowBefore)
      /\ outcome = "passed" <=> rows # {} /\ \A r \in rows : RowPasses(r)
  BY DEF CInv, VerdictInv
<1>2. Cardinality(rows) \in Nat
  BY RowsAreFinite, FS_CardinalityType
<1>3. /\ report \in [1..Cardinality(rows) -> rows]
      /\ \A x \in rows : \E i \in DOMAIN report : report[i] = x
      /\ \A i, j \in DOMAIN report : i < j => ~RowBefore(report[j], report[i])
  BY <1>1 DEF Arrangements
<1>4. rows = {} => report = << >>
  <2> SUFFICES ASSUME rows = {}
               PROVE  report = << >>
    OBVIOUS
  <2>1. Cardinality(rows) = 0
    BY FS_EmptySet
  <2> QED
    BY <1>3, <2>1
<1>5. ASSUME rows # {}
      PROVE  report # << >> /\ 1 \in DOMAIN report /\ report[1] \in rows
  <2>1. PICK i \in DOMAIN report : TRUE
    BY <1>3, <1>5
  <2>2. 1 \in DOMAIN report
    BY <1>2, <1>3, <2>1
  <2>3. report[1] \in rows
    BY <1>3, <2>2
  <2>4. report # << >>
    <3>1. DOMAIN << >> = {}
      OBVIOUS
    <3> QED
      BY <2>2, <3>1
  <2> QED
    BY <2>2, <2>3, <2>4
<1>6. ASSUME rows # {}, RowPasses(report[1]), NEW r \in rows
      PROVE  RowPasses(r)
  <2>1. PICK i \in DOMAIN report : report[i] = r
    BY <1>3
  <2>2. CASE i = 1
    BY <1>6, <2>1, <2>2
  <2>3. CASE i # 1
    <3>1. 1 < i
      BY <1>2, <1>3, <2>3
    <3>2. ~RowBefore(r, report[1])
      BY <1>3, <1>5, <1>6, <2>1, <3>1
    <3>3. report[1] \in rows
      BY <1>5, <1>6
    <3> QED
      BY <1>6, <3>2, <3>3, EveryRow, FollowersPass
  <2> QED
    BY <2>2, <2>3
<1> QED
  BY <1>1, <1>4, <1>5, <1>6

(* No statement of an accepted profile is counted twice, however deep the      *)
(* callables nest and whatever is edited meanwhile.                             *)
THEOREM StatementsAreCountedOnce == Spec => []CountedOnce
BY CrapInvariant, CountedOnceHolds, PTL

(* The component passes exactly where there is a callable and every one has    *)
(* statements of its own and a score within the limit.                          *)
THEOREM PassIsEarnedByAll == Spec => []PassIsEarned
BY CrapInvariant, PassIsEarnedHolds, PTL

(* The first row of the report tells the verdict.                               *)
THEOREM FirstRowDecides == Spec => []WorstFirst
BY CrapInvariant, WorstFirstHolds, PTL
=============================================================================
