---------------------------- MODULE TestRunProofs ----------------------------
(***************************************************************************)
(* Proofs about TestRun, for every inventory of tests and packages: what   *)
(* the private and official events of a run say of what became of its      *)
(* tests, and so when the classifier's verdict is a true one.              *)
(***************************************************************************)
EXTENDS TestRun, TLAPS, FiniteSetTheorems, SequenceTheorems

-----------------------------------------------------------------------------
(* The invariant. *)

\* Kinds a TestMain writes: its helper reports no panic of its own.
MainWrites == {"mainStart", "mainRunReturned", "mainNormalReturn"}
TestKind == {"start"} \cup PrivateTerminal
Action == {"run"} \cup OfficialTerminal

TypeOK ==
  /\ state \in [Test -> TestState]
  /\ process \in [Package -> ProcessState]
  /\ private \in [Test \cup {Main} -> Seq(MainWrites \cup TestKind)]
  /\ private[Main] \in Seq(MainWrites)
  /\ official \in [Test -> Seq(Action)]
  /\ children \in Nat
  /\ timedOut \in BOOLEAN

Gone == {"returned", "leaving", "exited", "lost"}

\* A test is as far as its process lets it be.
LifeAt(t) ==
  /\ process[PackageOf[t]] \in {"built", "unbuilt"} => state[t] = "waiting"
  /\ process[PackageOf[t]] \in Gone => state[t] \in Settled
  /\ state[t] = "running" => process[PackageOf[t]] = "main"
  /\ state[t] = "crashed" => process[PackageOf[t]] = "dead"

\* What go test has reported of t.
OfficialAt(t) ==
  /\ state[t] = "waiting" => official[t] = <<>>
  /\ state[t] = "running" => official[t] = <<"run">>
  /\ state[t] = "passed" => official[t] = <<"run", "pass">>
  /\ state[t] = "failed" => official[t] = <<"run", "fail">>
  /\ state[t] = "skipped" => official[t] = <<"run", "skip">>
  /\ state[t] = "crashed" => official[t] \in {<<"run">>, <<"run", "fail">>}

\* What t has written into the FIFO when it has not been run by a child, too.
PrivateAt(t) ==
  /\ state[t] = "waiting" => private[t] = <<>>
  /\ state[t] = "running" => private[t] = <<"start">>
  /\ state[t] \in {"passed", "skipped"} => private[t] = <<"start", "normalReturn">>
  /\ state[t] = "failed" =>
       private[t] = <<"start", IF KindOf[t] = "example" THEN "normalReturn" ELSE "assertionFailure">>
  /\ state[t] = "crashed" =>
       private[t] = <<"start">> \/ \E kind \in PrivateTerminal : private[t] = <<"start", kind>>

Tests == \A t \in Test : LifeAt(t) /\ OfficialAt(t) /\ (children = 0 => PrivateAt(t))

In(S) == {p \in Package : process[p] \in S}
Written(kind) == CountOf(private[Main], kind)

\* The packages that are known to have entered their TestMain.
Begun == {p \in Package : process[p] \in {"main"} \cup Gone \/ \E t \in TestsOf(p) : state[t] # "waiting"}

\* Every process that entered TestMain, children included, has said so.
StartsCounted == Written("mainStart") >= Cardinality(Begun) + children

\* Without children the counts follow the processes of the packages.
MainCounts ==
  /\ Written("mainStart") + Cardinality(In({"built"})) <= PackageCount
  /\ Written("mainRunReturned") + Cardinality(In({"main"})) <= Written("mainStart")
  /\ Written("mainNormalReturn") + Cardinality(In({"returned"})) <= Written("mainRunReturned")
  /\ Written("mainNormalReturn") = Cardinality(In({"leaving", "exited", "lost"}))

TInv ==
  /\ TypeOK
  /\ Tests
  /\ StartsCounted
  /\ children = 0 => MainCounts /\ OrderedMain(private[Main])

-----------------------------------------------------------------------------
(* Counting events. *)

\* The places of a kind in a stream are finitely many.
LEMMA CountType ==
  ASSUME NEW S, NEW e \in Seq(S), NEW kind
  PROVE  IsFiniteSet({i \in DOMAIN e : e[i] = kind}) /\ CountOf(e, kind) \in Nat
<1>1. IsFiniteSet(DOMAIN e)
  <2>1. DOMAIN e = 1 .. Len(e) /\ Len(e) \in Nat
    OBVIOUS
  <2>2. QED
    BY <2>1, FS_Interval
<1>2. IsFiniteSet({i \in DOMAIN e : e[i] = kind})
  BY <1>1, FS_Subset
<1>3. QED
  BY <1>2, FS_CardinalityType DEF CountOf

\* Nothing is counted in an empty stream, nor a kind that is never written.
LEMMA CountAbsent ==
  ASSUME NEW S, NEW e \in Seq(S), NEW kind, kind \notin S
  PROVE  CountOf(e, kind) = 0
<1>1. {i \in DOMAIN e : e[i] = kind} = {}
  BY ElementOfSeq
<1>2. QED
  BY <1>1, FS_EmptySet DEF CountOf

\* An event more counts one more of its kind and leaves the others.
LEMMA CountAppend ==
  ASSUME NEW S, NEW e \in Seq(S), NEW k \in S, NEW kind
  PROVE  CountOf(Append(e, k), kind) = IF kind = k THEN CountOf(e, kind) + 1 ELSE CountOf(e, kind)
<1> DEFINE At(f) == {i \in DOMAIN f : f[i] = kind}
           n == Len(e) + 1
<1>1. /\ DOMAIN Append(e, k) = DOMAIN e \cup {n} /\ n \notin DOMAIN e
      /\ Append(e, k)[n] = k /\ \A i \in DOMAIN e : Append(e, k)[i] = e[i]
  OBVIOUS
<1>2. At(Append(e, k)) = IF kind = k THEN At(e) \cup {n} ELSE At(e)
  BY <1>1
<1>3. n \notin At(e) /\ IsFiniteSet(At(e))
  BY <1>1, CountType
<1>4. Cardinality(At(e) \cup {n}) = Cardinality(At(e)) + 1
  BY ONLY <1>3, FS_AddElement
<1>5. QED
  BY <1>2, <1>4 DEF CountOf

\* A stream that goes on with an event of a kind counts at least one more.
LEMMA CountConcat ==
  ASSUME NEW S, NEW e \in Seq(S), NEW f \in Seq(S), Len(f) >= 1
  PROVE  CountOf(e \o f, f[1]) >= CountOf(e, f[1]) + 1
<1> DEFINE At(g) == {i \in DOMAIN g : g[i] = f[1]}
           n == Len(e) + 1
<1>1. e \o f \in Seq(S) /\ Len(e) \in Nat /\ Len(f) \in Nat
  BY ConcatProperties
<1>2. (e \o f)[n] = f[1] /\ n \in DOMAIN (e \o f) /\ \A i \in DOMAIN e : i \in DOMAIN (e \o f) /\ (e \o f)[i] = e[i]
  BY <1>1, ConcatProperties
<1>3. At(e) \cup {n} \subseteq At(e \o f)
  BY <1>2
<1>4. n \notin At(e) /\ IsFiniteSet(At(e)) /\ IsFiniteSet(At(e \o f))
  <2>1. IsFiniteSet(At(e)) /\ IsFiniteSet(At(e \o f))
    BY <1>1, CountType
  <2>2. n \notin DOMAIN e
    BY <1>1
  <2>3. QED
    BY <2>1, <2>2
<1>5. Cardinality(At(e) \cup {n}) = Cardinality(At(e)) + 1
  BY ONLY <1>4, FS_AddElement
<1>6. Cardinality(At(e) \cup {n}) <= Cardinality(At(e \o f))
  BY <1>3, <1>4, FS_Subset
<1>7. Cardinality(At(e)) \in Nat /\ Cardinality(At(e \o f)) \in Nat
  BY <1>4, FS_CardinalityType
<1>8. QED
  BY <1>5, <1>6, <1>7 DEF CountOf

\* The order addMainEventCount asks for is kept by an event that keeps it.
LEMMA OrderedAppend ==
  ASSUME NEW e \in Seq(MainWrites), OrderedMain(e), NEW k \in MainWrites, PackageCount \in Nat,
         CountOf(Append(e, k), k) <= PackageCount,
         CountOf(Append(e, k), "mainRunReturned") <= CountOf(Append(e, k), "mainStart"),
         CountOf(Append(e, k), "mainNormalReturn") <= CountOf(Append(e, k), "mainRunReturned")
  PROVE  OrderedMain(Append(e, k))
<1> DEFINE f == Append(e, k)
           Good(n) == /\ f[n] \in MainKind
                      /\ CountOf(SubSeq(f, 1, n), f[n]) <= PackageCount
                      /\ CountOf(SubSeq(f, 1, n), "mainRunReturned") <= CountOf(SubSeq(f, 1, n), "mainStart")
                      /\ CountOf(SubSeq(f, 1, n), "mainNormalReturn") <= CountOf(SubSeq(f, 1, n), "mainRunReturned")
                      /\ CountOf(SubSeq(f, 1, n), "panic") <= CountOf(SubSeq(f, 1, n), "mainStart")
<1>1. f \in Seq(MainWrites) /\ Len(f) = Len(e) + 1 /\ Len(e) \in Nat /\ DOMAIN f = 1 .. Len(e) + 1
      /\ DOMAIN e = 1 .. Len(e) /\ f[Len(e) + 1] = k /\ \A i \in 1 .. Len(e) : f[i] = e[i]
  OBVIOUS
<1>2. ASSUME NEW n \in 1 .. Len(e) PROVE Good(n)
  <2>1. SubSeq(f, 1, n) = SubSeq(e, 1, n)
    BY <1>1
  <2>2. f[n] = e[n] /\ n \in DOMAIN e
    BY <1>1
  <2>3. QED
    BY <2>1, <2>2 DEF OrderedMain
<1>3. Good(Len(e) + 1)
  <2>1. SubSeq(f, 1, Len(e) + 1) = f
    BY <1>1
  <2>2. CountOf(f, "panic") = 0
    <3>1. "panic" \notin MainWrites
      BY DEF MainWrites
    <3>2. QED
      BY <1>1, <3>1, CountAbsent
  <2>3. CountOf(f, "mainStart") \in Nat
    BY <1>1, CountType
  <2>4. f[Len(e) + 1] \in MainKind
    BY <1>1 DEF MainKind, MainWrites
  <2>5. CountOf(f, "panic") <= CountOf(f, "mainStart")
    BY ONLY <2>2, <2>3
  <2>6. f[Len(e) + 1] = k
    BY <1>1
  <2>7. CountOf(f, f[Len(e) + 1]) <= PackageCount
    BY ONLY <2>6, CountOf(Append(e, k), k) <= PackageCount
  <2>8. QED
    BY <2>1, <2>4, <2>5, <2>7
<1>4. \A n \in DOMAIN f : Good(n)
  BY <1>1, <1>2, <1>3
<1>5. QED
  BY <1>4 DEF OrderedMain

\* A stream of one event and of two, as appending builds them.
LEMMA AppendFirst == ASSUME NEW a PROVE Append(<<>>, a) = <<a>>
OBVIOUS

\* The same for a stream of two.
LEMMA AppendPair == ASSUME NEW a, NEW b PROVE Append(<<a>>, b) = <<a, b>>
<1>1. <<a>> \in Seq({a, b}) /\ b \in {a, b} /\ Len(<<a>>) = 1 /\ <<a>>[1] = a
  OBVIOUS
<1>2. <<a, b>> \in Seq({a, b}) /\ Len(<<a, b>>) = 2 /\ <<a, b>>[1] = a /\ <<a, b>>[2] = b
  OBVIOUS
<1> DEFINE f == Append(<<a>>, b)
           g == <<a, b>>
<1>3. f \in Seq({a, b}) /\ Len(f) = 2 /\ f[1] = a /\ f[2] = b
  BY <1>1, AppendProperties
<1> HIDE DEF f, g
<1>4. f \in Seq({a, b}) /\ g \in Seq({a, b}) /\ Len(f) = Len(g)
  BY <1>2, <1>3 DEF g
<1>5. \A i \in 1 .. Len(f) : f[i] = g[i]
  <2>1. Len(f) = 2 /\ f[1] = g[1] /\ f[2] = g[2]
    BY <1>2, <1>3 DEF g
  <2>2. QED
    BY <2>1
<1>6. f = g
  BY ONLY <1>4, <1>5, SeqEqual
<1>7. QED
  BY <1>6 DEF f, g

-----------------------------------------------------------------------------
(* Type correctness. *)

\* A test is not the Main of the FIFO, and belongs to a package.
LEMMA TestFacts == ASSUME NEW t \in Test PROVE t # Main /\ PackageOf[t] \in Package /\ t \in TestsOf(PackageOf[t])
BY InventoryAssumption DEF TestsOf

\* Nothing has been written before the first process starts.
LEMMA TypeInit == Init => TypeOK
<1> SUFFICES ASSUME Init PROVE TypeOK
  OBVIOUS
<1>1. timedOut \in BOOLEAN
  BY DEF Init
<1>2. private \in [Test \cup {Main} -> Seq(MainWrites \cup TestKind)] /\ private[Main] \in Seq(MainWrites)
  BY DEF Init
<1>3. official \in [Test -> Seq(Action)]
  BY DEF Init
<1>4. QED
  BY <1>1, <1>2, <1>3 DEF Init, TypeOK, TestState, ProcessState

\* Appending an event of Main or of a test.
LEMMA EmitType ==
  ASSUME TypeOK, NEW id \in Test \cup {Main}, NEW kind \in MainWrites \cup TestKind, Emit(id, kind),
         id = Main => kind \in MainWrites
  PROVE  private' \in [Test \cup {Main} -> Seq(MainWrites \cup TestKind)] /\ private'[Main] \in Seq(MainWrites)
<1>1. private \in [Test \cup {Main} -> Seq(MainWrites \cup TestKind)] /\ private[Main] \in Seq(MainWrites)
  BY DEF TypeOK
<1>2. Append(private[id], kind) \in Seq(MainWrites \cup TestKind)
  BY <1>1, AppendProperties
<1>3. private' = [private EXCEPT ![id] = Append(private[id], kind)]
  BY DEF Emit
<1>4. id = Main => Append(private[Main], kind) \in Seq(MainWrites)
  BY <1>1, AppendProperties
<1>5. QED
  BY <1>1, <1>2, <1>3, <1>4

\* Telling of a test.
LEMMA TellType ==
  ASSUME TypeOK, NEW t \in Test, NEW action \in Action, Tell(t, action)
  PROVE  official' \in [Test -> Seq(Action)]
<1>1. official \in [Test -> Seq(Action)] /\ Append(official[t], action) \in Seq(Action)
  BY AppendProperties DEF TypeOK
<1>2. official' = [official EXCEPT ![t] = Append(official[t], action)]
  BY DEF Tell
<1>3. QED
  BY <1>1, <1>2

\* The events a child writes.
LEMMA ChildEvents ==
  /\ \A n \in 1..3 : /\ SubSeq(ChildMain, 1, n) \in Seq(MainWrites)
                     /\ Len(SubSeq(ChildMain, 1, n)) = n /\ SubSeq(ChildMain, 1, n)[1] = "mainStart"
  /\ {<<>>, <<"start">>, ChildTest} \subseteq Seq(TestKind)
<1>1. \A n \in 1..3 : \A i \in 1..n : ChildMain[i] \in MainWrites
  BY DEF ChildMain, MainWrites
<1>2. ASSUME NEW n \in 1..3
      PROVE  /\ SubSeq(ChildMain, 1, n) \in Seq(MainWrites)
             /\ Len(SubSeq(ChildMain, 1, n)) = n /\ SubSeq(ChildMain, 1, n)[1] = "mainStart"
  <2>1. n \in Int /\ 1 <= n /\ n - 1 + 1 = n /\ 1 \in 1 .. n
    OBVIOUS
  <2>2. /\ SubSeq(ChildMain, 1, n) \in Seq(MainWrites)
        /\ Len(SubSeq(ChildMain, 1, n)) = (IF 1 <= n THEN n - 1 + 1 ELSE 0)
        /\ \A i \in 1 .. n - 1 + 1 : SubSeq(ChildMain, 1, n)[i] = ChildMain[1 + i - 1]
    BY <1>1, <2>1, SubSeqProperties
  <2>3. ChildMain[1] = "mainStart"
    BY DEF ChildMain
  <2>4. QED
    BY <2>1, <2>2, <2>3
<1>3. {<<>>, <<"start">>, ChildTest} \subseteq Seq(TestKind)
  BY DEF ChildTest, TestKind, PrivateTerminal
<1>4. QED
  BY <1>2, <1>3

\* What a step of a child run does to the FIFO.
LEMMA ChildWrites ==
  ASSUME TypeOK, NEW t \in Test, ChildRuns(t)
  PROVE  /\ private' \in [Test \cup {Main} -> Seq(MainWrites \cup TestKind)] /\ private'[Main] \in Seq(MainWrites)
         /\ CountOf(private'[Main], "mainStart") >= CountOf(private[Main], "mainStart") + 1
<1>1. private \in [Test \cup {Main} -> Seq(MainWrites \cup TestKind)] /\ private[Main] \in Seq(MainWrites)
  BY DEF TypeOK
<1>2. PICK n \in 1..3, u \in TestsOf(PackageOf[t]) :
        \E again \in {<<>>, <<"start">>, ChildTest} :
          private' = [private EXCEPT ![Main] = @ \o SubSeq(ChildMain, 1, n), ![u] = @ \o again]
  BY DEF ChildRuns
<1>3. PICK again \in {<<>>, <<"start">>, ChildTest} :
        private' = [private EXCEPT ![Main] = @ \o SubSeq(ChildMain, 1, n), ![u] = @ \o again]
  BY <1>2
<1> DEFINE more == SubSeq(ChildMain, 1, n)
<1>4. u \in Test /\ u # Main
  BY InventoryAssumption DEF TestsOf
<1>5. more \in Seq(MainWrites) /\ Len(more) >= 1 /\ more[1] = "mainStart" /\ again \in Seq(TestKind)
  <2>1. /\ SubSeq(ChildMain, 1, n) \in Seq(MainWrites)
        /\ Len(SubSeq(ChildMain, 1, n)) = n /\ SubSeq(ChildMain, 1, n)[1] = "mainStart"
    BY ChildEvents
  <2>2. again \in Seq(TestKind)
    BY ChildEvents
  <2>3. QED
    BY ONLY <2>1, <2>2, n \in 1..3
<1>6. more \in Seq(MainWrites \cup TestKind) /\ again \in Seq(MainWrites \cup TestKind)
  BY <1>5, SeqMonotonic
<1> HIDE DEF more
<1>7. private[Main] \o more \in Seq(MainWrites) /\ private[Main] \o more \in Seq(MainWrites \cup TestKind)
      /\ private[u] \o again \in Seq(MainWrites \cup TestKind)
  BY <1>1, <1>4, <1>5, <1>6, ConcatProperties
<1>8. private' = [private EXCEPT ![Main] = private[Main] \o more, ![u] = private[u] \o again]
  BY <1>3, <1>4 DEF more
<1>9. private'[Main] = private[Main] \o more
  BY <1>1, <1>4, <1>8
<1>10. private' \in [Test \cup {Main} -> Seq(MainWrites \cup TestKind)]
  BY <1>1, <1>4, <1>7, <1>8
<1>11. CountOf(private[Main] \o more, "mainStart") >= CountOf(private[Main], "mainStart") + 1
  BY <1>1, <1>5, CountConcat
<1>12. QED
  BY <1>7, <1>9, <1>10, <1>11

\* A dying process leaves every variable but the FIFO in its domain.
LEMMA DiesType ==
  ASSUME TypeOK, NEW p \in Package, NEW S, Dies(p, S)
  PROVE  /\ state' \in [Test -> TestState] /\ process' \in [Package -> ProcessState]
         /\ official' \in [Test -> Seq(Action)] /\ children' \in Nat /\ timedOut' \in BOOLEAN
<1>1. state' \in [Test -> TestState]
  BY DEF TypeOK, Dies, TestState
<1>2. process' \in [Package -> ProcessState]
  BY DEF TypeOK, Dies, Proceeds, ProcessState, Over
<1>3. official' \in [Test -> Seq(Action)]
  <2>1. ASSUME NEW t \in TestsOf(p), Tell(t, "fail") PROVE official' \in [Test -> Seq(Action)]
    BY <2>1, TellType DEF TestsOf, Action, OfficialTerminal
  <2>2. CASE UNCHANGED official
    BY <2>2 DEF TypeOK
  <2>3. QED
    BY <2>1, <2>2 DEF Dies
<1>4. children' \in Nat
  BY DEF Dies, TypeOK
<1>5. timedOut' \in BOOLEAN
  BY DEF Dies, TypeOK
<1>6. QED
  BY <1>1, <1>2, <1>3, <1>4, <1>5

\* A test that ends leaves every variable in its domain.
LEMMA EndsType ==
  ASSUME TypeOK, NEW t \in Test, NEW s \in TestState, NEW kind \in TestKind, NEW action \in Action,
         Ends(t, s, kind, action)
  PROVE  TypeOK'
<1>1. private' \in [Test \cup {Main} -> Seq(MainWrites \cup TestKind)] /\ private'[Main] \in Seq(MainWrites)
  BY EmitType, TestFacts DEF Ends
<1>2. official' \in [Test -> Seq(Action)]
  BY TellType DEF Ends
<1>3. state' \in [Test -> TestState]
  BY DEF Ends, Becomes, TypeOK
<1>4. timedOut' \in BOOLEAN
  BY DEF Ends, TypeOK
<1>5. process' \in [Package -> ProcessState] /\ children' \in Nat
  BY DEF Ends, TypeOK
<1>6. QED
  BY <1>1, <1>2, <1>3, <1>4, <1>5 DEF TypeOK

\* Every step keeps every variable in its domain.
LEMMA TypeStep == TypeOK /\ [Next]_vars => TypeOK'
<1> SUFFICES ASSUME TypeOK, [Next]_vars PROVE TypeOK'
  OBVIOUS
<1>1. ASSUME NEW p \in Package, BuildFails(p) \/ InitialiserCrashes(p) \/ Exit(p) PROVE TypeOK'
  <2>1. process' \in [Package -> ProcessState]
    BY <1>1 DEF BuildFails, InitialiserCrashes, Exit, Proceeds, TypeOK, ProcessState, Over
  <2>2. UNCHANGED <<state, private, official, children, timedOut>>
    BY <1>1 DEF BuildFails, InitialiserCrashes, Exit
  <2>3. QED
    BY <2>1, <2>2 DEF TypeOK
<1>2. ASSUME NEW p \in Package, TestMain(p) \/ RunReturned(p) \/ NormalReturn(p) PROVE TypeOK'
  <2>1. process' \in [Package -> ProcessState]
    BY <1>2 DEF TestMain, RunReturned, NormalReturn, Proceeds, TypeOK, ProcessState
  <2>2. PICK kind \in MainWrites : Emit(Main, kind)
    BY <1>2 DEF TestMain, RunReturned, NormalReturn, MainWrites
  <2>3. private' \in [Test \cup {Main} -> Seq(MainWrites \cup TestKind)] /\ private'[Main] \in Seq(MainWrites)
    BY <2>2, EmitType
  <2>4. UNCHANGED <<state, official, children, timedOut>>
    BY <1>2 DEF TestMain, RunReturned, NormalReturn
  <2>5. QED
    BY <2>1, <2>3, <2>4 DEF TypeOK
<1>3. ASSUME NEW p \in Package, Aborts(p) PROVE TypeOK'
  <2>1. UNCHANGED private
    BY <1>3 DEF Aborts
  <2>2. Dies(p, {})
    BY <1>3 DEF Aborts
  <2>3. QED
    BY <2>1, <2>2, DiesType DEF TypeOK
<1>4. ASSUME NEW t \in Test, EmitStart(t) PROVE TypeOK'
  <2>1. private' \in [Test \cup {Main} -> Seq(MainWrites \cup TestKind)] /\ private'[Main] \in Seq(MainWrites)
    BY <1>4, EmitType, TestFacts DEF EmitStart, TestKind
  <2>2. official' \in [Test -> Seq(Action)]
    BY <1>4, TellType DEF EmitStart, Action
  <2>3. state' \in [Test -> TestState]
    BY <1>4 DEF EmitStart, Becomes, TypeOK, TestState
  <2>4. UNCHANGED <<process, children, timedOut>>
    BY <1>4 DEF EmitStart
  <2>5. QED
    BY <2>1, <2>2, <2>3, <2>4 DEF TypeOK
<1>5. ASSUME NEW t \in Test, Returns(t) \/ FailsAssertion(t) \/ Skips(t) \/ OutputDiffers(t) PROVE TypeOK'
  BY <1>5, EndsType DEF Returns, FailsAssertion, Skips, OutputDiffers, TestState, TestKind, PrivateTerminal, Action,
     OfficialTerminal
<1>6. ASSUME NEW t \in Test, CatchPanic(t) \/ CleanupPanics(t) PROVE TypeOK'
  <2>1. PICK kind \in PrivateTerminal : Emit(t, kind)
    BY <1>6 DEF CatchPanic, CleanupPanics, PrivateTerminal
  <2>2. private' \in [Test \cup {Main} -> Seq(MainWrites \cup TestKind)] /\ private'[Main] \in Seq(MainWrites)
    BY <2>1, EmitType, TestFacts DEF TestKind
  <2>3. Dies(PackageOf[t], {t}) /\ PackageOf[t] \in Package
    BY <1>6, TestFacts DEF CatchPanic, CleanupPanics
  <2>4. QED
    BY <2>2, <2>3, DiesType DEF TypeOK
<1>7. ASSUME NEW t \in Test, ChildRuns(t) PROVE TypeOK'
  <2>1. private' \in [Test \cup {Main} -> Seq(MainWrites \cup TestKind)] /\ private'[Main] \in Seq(MainWrites)
    BY <1>7, ChildWrites
  <2>2. children' \in Nat
    BY <1>7 DEF ChildRuns, TypeOK
  <2>3. UNCHANGED <<state, process, official, timedOut>>
    BY <1>7 DEF ChildRuns
  <2>4. QED
    BY <2>1, <2>2, <2>3 DEF TypeOK
<1>8. CASE TimesOut
  <2>1. timedOut' \in BOOLEAN
    BY <1>8 DEF TimesOut
  <2>2. UNCHANGED <<state, process, private, official, children>>
    BY <1>8 DEF TimesOut
  <2>3. QED
    BY <2>1, <2>2 DEF TypeOK
<1>9. CASE UNCHANGED vars
  BY <1>9 DEF vars, TypeOK
<1>10. QED
  BY <1>1, <1>2, <1>3, <1>4, <1>5, <1>6, <1>7, <1>8, <1>9 DEF Next, BinaryStep, TestStep

-----------------------------------------------------------------------------
(* Tests, their processes and their events. *)

TestAt(t) == LifeAt(t) /\ OfficialAt(t) /\ (children = 0 => PrivateAt(t))

\* A test that a step does not concern keeps its account.
LEMMA TestFrame ==
  ASSUME NEW u \in Test, TestAt(u), state'[u] = state[u], official'[u] = official[u], LifeAt(u)',
         children' = 0 => children = 0 /\ private'[u] = private[u]
  PROVE  TestAt(u)'
BY DEF TestAt, OfficialAt, PrivateAt

\* A step of the binary that leaves its tests alone.
LEMMA BinaryFrame ==
  ASSUME TypeOK, Tests, NEW p \in Package, NEW s, Proceeds(p, s), UNCHANGED <<state, official, children>>,
         \A t \in Test : private'[t] = private[t],
         process[p] # "dead", s = "unbuilt" => process[p] = "built",
         s = "built" => FALSE,
         s \in Gone => \A t \in TestsOf(p) : state[t] \in Settled,
         process[p] = "main" => s \in Gone
  PROVE  Tests'
<1>1. process \in [Package -> ProcessState] /\ process' = [process EXCEPT ![p] = s]
  BY DEF TypeOK, Proceeds
<1>2. ASSUME NEW u \in Test PROVE TestAt(u)'
  <2>1. TestAt(u) /\ LifeAt(u) /\ PackageOf[u] \in Package
    BY TestFacts DEF Tests, TestAt
  <2>2. LifeAt(u)'
    <3>1. CASE PackageOf[u] # p
      BY <1>1, <2>1, <3>1 DEF LifeAt
    <3>2. CASE PackageOf[u] = p
      <4>1. process'[PackageOf[u]] = s /\ u \in TestsOf(p)
        BY <1>1, <3>2 DEF TestsOf
      <4>2. s = "unbuilt" => state[u] = "waiting"
        BY <2>1, <3>2 DEF LifeAt
      <4>3. state[u] = "running" => s \in Gone
        BY <2>1, <3>2 DEF LifeAt
      <4>4. state[u] = "crashed" => process[p] = "dead"
        BY <2>1, <3>2 DEF LifeAt
      <4>5. s \in Gone => state[u] \in Settled
        BY <4>1
      <4>6. QED
        BY <4>1, <4>2, <4>3, <4>4, <4>5 DEF LifeAt, Settled
    <3>3. QED
      BY <3>1, <3>2
  <2>3. QED
    BY <2>1, <2>2, TestFrame
<1>3. QED
  BY <1>2 DEF Tests, TestAt

\* A test that ends has one action and one kind to show for it.
LEMMA EndsStable ==
  ASSUME TypeOK, Tests, NEW t \in Test, NEW s, NEW kind, NEW action, Ends(t, s, kind, action),
         <<s, kind, action>> \in { <<"passed", "normalReturn", "pass">>, <<"skipped", "normalReturn", "skip">>,
           <<"failed", IF KindOf[t] = "example" THEN "normalReturn" ELSE "assertionFailure", "fail">> }
  PROVE  Tests'
<1>1. /\ state' = [state EXCEPT ![t] = s] /\ official' = [official EXCEPT ![t] = Append(official[t], action)]
      /\ private' = [private EXCEPT ![t] = Append(private[t], kind)] /\ UNCHANGED <<process, children>>
      /\ state[t] = "running" /\ process[PackageOf[t]] = "main"
  BY DEF Ends, Becomes, Tell, Emit, Running
<1>2. /\ DOMAIN state = Test /\ DOMAIN official = Test /\ DOMAIN private = Test \cup {Main}
  BY DEF TypeOK
<1>3. ASSUME NEW u \in Test, u # t PROVE TestAt(u)'
  <2>1. TestAt(u)
    BY DEF Tests, TestAt
  <2>2. state'[u] = state[u] /\ official'[u] = official[u] /\ private'[u] = private[u]
    BY <1>1, <1>2, <1>3
  <2>3. LifeAt(u)'
    BY <1>1, <2>1, <2>2 DEF TestAt, LifeAt
  <2>4. QED
    BY <1>1, <2>1, <2>2, <2>3, TestFrame
<1>4. TestAt(t)'
  <2>1. official[t] = <<"run">> /\ (children = 0 => private[t] = <<"start">>)
    BY <1>1 DEF Tests, OfficialAt, PrivateAt
  <2>2. state'[t] = s /\ official'[t] = <<"run", action>> /\ (children = 0 => private'[t] = <<"start", kind>>)
    BY <1>1, <1>2, <2>1, AppendPair
  <2>3. LifeAt(t)'
    BY <1>1, <2>2 DEF LifeAt, Gone
  <2>4. OfficialAt(t)'
    BY <2>2 DEF OfficialAt
  <2>5. children' = 0 => PrivateAt(t)'
    BY <1>1, <2>2 DEF PrivateAt
  <2>6. QED
    BY <2>3, <2>4, <2>5 DEF TestAt
<1>5. QED
  BY <1>3, <1>4 DEF Tests, TestAt

\* A dying process takes the tests it was running with it.
LEMMA DiesStable ==
  ASSUME TypeOK, Tests, NEW p \in Package, NEW S \in SUBSET Test, process[p] \in {"main", "returned", "leaving"},
         \A u \in S : Running(u) /\ PackageOf[u] = p, Dies(p, S),
         \A u \in Test : \/ private'[u] = private[u]
                         \/ u \in S /\ \E kind \in PrivateTerminal : private'[u] = Append(private[u], kind)
  PROVE  Tests'
<1>1. /\ process' = [process EXCEPT ![p] = IF process[p] = "leaving" THEN "lost" ELSE "dead"]
      /\ process \in [Package -> ProcessState] /\ official \in [Test -> Seq(Action)] /\ UNCHANGED children
  BY DEF Dies, Proceeds, TypeOK
<1>2. ASSUME NEW u \in Test, PackageOf[u] # p PROVE TestAt(u)'
  <2>1. TestAt(u) /\ PackageOf[u] \in Package
    BY TestFacts DEF Tests, TestAt
  <2>2. state'[u] = state[u] /\ official'[u] = official[u] /\ private'[u] = private[u]
    BY <1>1, <1>2 DEF Dies, Tell, TestsOf
  <2>3. LifeAt(u)'
    BY <1>1, <1>2, <2>1, <2>2 DEF TestAt, LifeAt
  <2>4. QED
    BY <1>1, <2>1, <2>2, <2>3, TestFrame
<1>3. ASSUME NEW u \in Test, PackageOf[u] = p, state[u] # "running" PROVE TestAt(u)'
  <2>1. TestAt(u) /\ LifeAt(u)
    BY DEF Tests, TestAt
  <2>2. u \notin S
    BY <1>3 DEF Running
  <2>3. state'[u] = state[u] /\ official'[u] = official[u] /\ private'[u] = private[u]
    BY <1>1, <1>3, <2>2 DEF Dies, Tell, TestsOf
  <2>4. process'[p] = IF process[p] = "leaving" THEN "lost" ELSE "dead"
    BY <1>1
  <2>5. LifeAt(u)'
    <3>1. CASE process[p] = "leaving"
      BY <1>3, <2>1, <2>3, <2>4, <3>1 DEF LifeAt, Gone, Settled
    <3>2. CASE process[p] # "leaving"
      BY <1>3, <2>1, <2>3, <2>4, <3>2 DEF LifeAt, Gone, Settled
    <3>3. QED
      BY <3>1, <3>2
  <2>6. QED
    BY <1>1, <2>1, <2>3, <2>5, TestFrame
<1>4. ASSUME NEW u \in Test, PackageOf[u] = p, state[u] = "running" PROVE TestAt(u)'
  <2>1. process[p] = "main" /\ official[u] = <<"run">> /\ (children = 0 => private[u] = <<"start">>)
    BY <1>4 DEF Tests, LifeAt, OfficialAt, PrivateAt
  <2>2. state'[u] = "crashed" /\ process'[p] = "dead"
    BY <1>1, <1>4, <2>1 DEF Dies
  <2>3. official'[u] = official[u] \/ official'[u] = Append(official[u], "fail")
    BY <1>1 DEF Dies, Tell
  <2>4. official'[u] \in {<<"run">>, <<"run", "fail">>}
    BY <2>1, <2>3, AppendPair
  <2>5. children = 0 => private'[u] = <<"start">> \/ \E kind \in PrivateTerminal : private'[u] = <<"start", kind>>
    BY <2>1, AppendPair
  <2>6. LifeAt(u)'
    BY <1>4, <2>2 DEF LifeAt, Gone
  <2>7. OfficialAt(u)'
    BY <2>2, <2>4 DEF OfficialAt
  <2>8. children' = 0 => PrivateAt(u)'
    BY <1>1, <2>2, <2>5 DEF PrivateAt
  <2>9. QED
    BY <2>6, <2>7, <2>8 DEF TestAt
<1>5. QED
  BY <1>2, <1>3, <1>4 DEF Tests, TestAt

\* Every step keeps the account of every test.
LEMMA TestsStep == TypeOK /\ Tests /\ [Next]_vars => Tests'
<1> SUFFICES ASSUME TypeOK, Tests, [Next]_vars PROVE Tests'
  OBVIOUS
<1>1. ASSUME NEW p \in Package, BuildFails(p) \/ InitialiserCrashes(p) PROVE Tests'
  <2>1. process[p] = "built" /\ UNCHANGED <<state, private, official, children>>
    BY <1>1 DEF BuildFails, InitialiserCrashes
  <2>2. PICK s \in {"unbuilt", "dead"} : Proceeds(p, s)
    BY <1>1 DEF BuildFails, InitialiserCrashes
  <2>3. QED
    BY <2>1, <2>2, BinaryFrame DEF Gone
<1>2. ASSUME NEW p \in Package, TestMain(p) \/ RunReturned(p) \/ NormalReturn(p) PROVE Tests'
  <2>1. UNCHANGED <<state, official, children>> /\ \E kind \in MainWrites : Emit(Main, kind)
    BY <1>2 DEF TestMain, RunReturned, NormalReturn, MainWrites
  <2>2. \A t \in Test : private'[t] = private[t]
    BY <2>1, TestFacts DEF Emit, TypeOK
  <2>3. CASE TestMain(p)
    BY <2>1, <2>2, <2>3, BinaryFrame DEF TestMain, Gone
  <2>4. CASE RunReturned(p)
    BY <2>1, <2>2, <2>4, BinaryFrame DEF RunReturned, Gone
  <2>5. CASE NormalReturn(p)
    <3>1. process[p] = "returned" /\ Proceeds(p, "leaving")
      BY <2>5 DEF NormalReturn
    <3>2. \A t \in TestsOf(p) : state[t] \in Settled
      BY <3>1 DEF Tests, LifeAt, TestsOf, Gone
    <3>3. QED
      BY <2>1, <2>2, <3>1, <3>2, BinaryFrame
  <2>6. QED
    BY <1>2, <2>3, <2>4, <2>5
<1>3. ASSUME NEW p \in Package, Exit(p) PROVE Tests'
  <2>1. process[p] = "leaving" /\ Proceeds(p, "exited") /\ UNCHANGED <<state, private, official, children>>
    BY <1>3 DEF Exit
  <2>2. \A t \in TestsOf(p) : state[t] \in Settled
    BY <2>1 DEF Tests, LifeAt, TestsOf, Gone
  <2>3. QED
    BY <2>1, <2>2, BinaryFrame
<1>4. ASSUME NEW p \in Package, Aborts(p) PROVE Tests'
  BY <1>4, DiesStable DEF Aborts
<1>5. ASSUME NEW t \in Test, EmitStart(t) PROVE Tests'
  <2>1. /\ state' = [state EXCEPT ![t] = "running"] /\ official' = [official EXCEPT ![t] = Append(official[t], "run")]
        /\ private' = [private EXCEPT ![t] = Append(private[t], "start")] /\ UNCHANGED <<process, children>>
        /\ state[t] = "waiting" /\ process[PackageOf[t]] = "main"
    BY <1>5 DEF EmitStart, Becomes, Tell, Emit
  <2>2. DOMAIN state = Test /\ DOMAIN official = Test /\ DOMAIN private = Test \cup {Main}
    BY DEF TypeOK
  <2>3. ASSUME NEW u \in Test, u # t PROVE TestAt(u)'
    <3>1. TestAt(u) /\ state'[u] = state[u] /\ official'[u] = official[u] /\ private'[u] = private[u]
      BY <2>1, <2>2, <2>3 DEF Tests, TestAt
    <3>2. LifeAt(u)'
      BY <2>1, <3>1 DEF TestAt, LifeAt
    <3>3. QED
      BY <2>1, <3>1, <3>2, TestFrame
  <2>4. TestAt(t)'
    <3>1. official[t] = <<>> /\ (children = 0 => private[t] = <<>>)
      BY <2>1 DEF Tests, OfficialAt, PrivateAt
    <3>2. state'[t] = "running" /\ official'[t] = <<"run">> /\ (children = 0 => private'[t] = <<"start">>)
      BY <2>1, <2>2, <3>1, AppendFirst
    <3>3. QED
      BY <2>1, <3>2 DEF TestAt, LifeAt, OfficialAt, PrivateAt, Gone
  <2>5. QED
    BY <2>3, <2>4 DEF Tests, TestAt
<1>6. ASSUME NEW t \in Test, Returns(t) \/ FailsAssertion(t) \/ Skips(t) \/ OutputDiffers(t) PROVE Tests'
  BY <1>6, EndsStable DEF Returns, FailsAssertion, Skips, OutputDiffers
<1>7. ASSUME NEW t \in Test, CatchPanic(t) \/ CleanupPanics(t) PROVE Tests'
  <2>1. PICK kind \in PrivateTerminal : Emit(t, kind)
    BY <1>7 DEF CatchPanic, CleanupPanics, PrivateTerminal
  <2>2. /\ Dies(PackageOf[t], {t}) /\ PackageOf[t] \in Package /\ Running(t) /\ process[PackageOf[t]] = "main"
    BY <1>7, TestFacts DEF CatchPanic, CleanupPanics, Running
  <2>3. \A u \in Test : \/ private'[u] = private[u]
                        \/ u \in {t} /\ \E k \in PrivateTerminal : private'[u] = Append(private[u], k)
    BY <2>1 DEF Emit, TypeOK
  <2>4. QED
    BY <2>2, <2>3, DiesStable
<1>8. ASSUME NEW t \in Test, ChildRuns(t) PROVE Tests'
  <2>1. UNCHANGED <<state, process, official>> /\ children' # 0
    BY <1>8 DEF ChildRuns, TypeOK
  <2>2. ASSUME NEW u \in Test PROVE TestAt(u)'
    BY <2>1 DEF Tests, TestAt, LifeAt, OfficialAt
  <2>3. QED
    BY <2>2 DEF Tests, TestAt
<1>9. CASE TimesOut \/ UNCHANGED vars
  <2>1. UNCHANGED <<state, process, private, official, children>>
    BY <1>9 DEF TimesOut, vars
  <2>2. QED
    BY <2>1 DEF Tests, LifeAt, OfficialAt, PrivateAt
<1>10. QED
  BY <1>1, <1>2, <1>3, <1>4, <1>5, <1>6, <1>7, <1>8, <1>9 DEF Next, BinaryStep, TestStep

-----------------------------------------------------------------------------
(* Counting packages. *)

\* The helper's count of the packages is their number.
LEMMA Packages == IsFiniteSet(Package) /\ PackageCount = Cardinality(Package) /\ PackageCount \in Nat
<1>1. PackageOf \in Surjection(Test, Package)
  BY InventoryAssumption DEF Surjection
<1>2. IsFiniteSet(Package)
  BY <1>1, InventoryAssumption, FS_Surjection
<1>3. QED
  BY <1>2, InventoryAssumption, FS_CardinalityType DEF PackageCount

\* Any set of packages is finite, and no larger than all of them.
LEMMA InFinite ==
  ASSUME NEW P, P \subseteq Package
  PROVE  IsFiniteSet(P) /\ Cardinality(P) \in Nat /\ Cardinality(P) <= PackageCount
         /\ (Cardinality(P) = PackageCount => P = Package)
BY Packages, FS_Subset, FS_CardinalityType

\* A process that moves leaves the set it was in and enters the one it is in.
LEMMA Moves ==
  ASSUME TypeOK, NEW p \in Package, NEW s, Proceeds(p, s), NEW S
  PROVE  /\ Cardinality(In(S)) \in Nat /\ Cardinality(In(S)') \in Nat
         /\ (process[p] \in S <=> s \in S) => Cardinality(In(S)') = Cardinality(In(S))
         /\ process[p] \notin S /\ s \in S => Cardinality(In(S)') = Cardinality(In(S)) + 1
         /\ process[p] \in S /\ s \notin S => Cardinality(In(S)) = Cardinality(In(S)') + 1
<1>1. \A q \in Package : process'[q] = IF q = p THEN s ELSE process[q]
  BY DEF TypeOK, Proceeds
<1>2. In(S) \subseteq Package /\ In(S)' \subseteq Package
  BY DEF In
<1>3. IsFiniteSet(In(S)) /\ IsFiniteSet(In(S)') /\ Cardinality(In(S)) \in Nat /\ Cardinality(In(S)') \in Nat
  BY <1>2, InFinite
<1>4. (process[p] \in S <=> s \in S) => In(S)' = In(S)
  BY <1>1 DEF In
<1>5. ASSUME process[p] \notin S, s \in S PROVE Cardinality(In(S)') = Cardinality(In(S)) + 1
  <2>1. In(S)' = In(S) \cup {p} /\ p \notin In(S)
    BY <1>1, <1>5 DEF In
  <2>2. Cardinality(In(S) \cup {p}) = Cardinality(In(S)) + 1
    BY <1>3, <2>1, FS_AddElement
  <2>3. QED
    BY <2>1, <2>2
<1>6. ASSUME process[p] \in S, s \notin S PROVE Cardinality(In(S)) = Cardinality(In(S)') + 1
  <2>1. In(S) = In(S)' \cup {p} /\ p \notin In(S)'
    BY <1>1, <1>6 DEF In
  <2>2. Cardinality(In(S)' \cup {p}) = Cardinality(In(S)') + 1
    BY <1>3, <2>1, FS_AddElement
  <2>3. QED
    BY <2>1, <2>2
<1>7. QED
  BY <1>3, <1>4, <1>5, <1>6

\* A stream of Main is a stream of its kinds.
LEMMA MainStream ==
  ASSUME TypeOK, NEW kind
  PROVE  private[Main] \in Seq(MainWrites) /\ Written(kind) \in Nat
BY CountType DEF TypeOK, Written

\* Before the first step nothing is written, and every process is only built.
LEMMA TestRunInit == Init => TInv
<1> SUFFICES ASSUME Init PROVE TInv
  OBVIOUS
<1>1. TypeOK
  BY TypeInit
<1>2. Tests
  BY TestFacts DEF Init, Tests, LifeAt, OfficialAt, PrivateAt, Gone
<1>3. private[Main] = <<>>
  BY DEF Init
<1>4. ASSUME NEW kind PROVE Written(kind) = 0
  <2>1. {i \in DOMAIN <<>> : <<>>[i] = kind} = {}
    OBVIOUS
  <2>2. CountOf(<<>>, kind) = 0
    BY <2>1, FS_EmptySet DEF CountOf
  <2>3. QED
    BY <1>3, <2>2 DEF Written
<1>5. Begun = {} /\ \A S : "built" \notin S => In(S) = {}
  BY TestFacts DEF Init, Begun, In, Gone, TestsOf
<1>6. Cardinality(Begun) = 0 /\ children = 0
  BY <1>5, FS_EmptySet DEF Init
<1>7. StartsCounted
  BY <1>4, <1>6 DEF StartsCounted
<1>8. In({"built"}) = Package
  BY DEF Init, In
<1>9. MainCounts
  <2>1. Cardinality(In({"main"})) = 0
    BY <1>5, FS_EmptySet
  <2>2. Cardinality(In({"returned"})) = 0
    BY <1>5, FS_EmptySet
  <2>3. Cardinality(In({"leaving", "exited", "lost"})) = 0
    BY <1>5, FS_EmptySet
  <2>4. Cardinality(In({"built"})) = PackageCount /\ PackageCount \in Nat
    BY <1>8, Packages
  <2>5. QED
    BY <1>4, <2>1, <2>2, <2>3, <2>4 DEF MainCounts
<1>10. OrderedMain(private[Main])
  BY <1>3 DEF OrderedMain
<1>11. QED
  BY <1>1, <1>2, <1>7, <1>9, <1>10 DEF TInv

-----------------------------------------------------------------------------
(* Counting the events of the TestMains. *)

\* A TestMain that writes is counted.
LEMMA WrittenMore ==
  ASSUME TypeOK, NEW k \in MainWrites, Emit(Main, k), NEW kind
  PROVE  /\ private'[Main] = Append(private[Main], k)
         /\ Written(kind)' = IF kind = k THEN Written(kind) + 1 ELSE Written(kind)
<1>1. private'[Main] = Append(private[Main], k) /\ private[Main] \in Seq(MainWrites)
  BY DEF Emit, TypeOK
<1>2. CountOf(Append(private[Main], k), kind) =
        IF kind = k THEN CountOf(private[Main], kind) + 1 ELSE CountOf(private[Main], kind)
  BY <1>1, CountAppend
<1>3. QED
  BY <1>1, <1>2 DEF Written

\* What a test writes is no event of a TestMain.
LEMMA WrittenSame ==
  ASSUME private'[Main] = private[Main], NEW kind
  PROVE  Written(kind)' = Written(kind)
BY DEF Written

\* A step that starts no process keeps the count of the starts.
LEMMA StartsKept ==
  ASSUME TypeOK, StartsCounted, children' = children,
         Written("mainStart")' \in Nat, Written("mainStart")' >= Written("mainStart"),
         \A q \in Package : process'[q] \in {"main"} \cup Gone => process[q] \in {"main"} \cup Gone,
         \A t \in Test : state'[t] # "waiting" => state[t] # "waiting" \/ process[PackageOf[t]] = "main"
  PROVE  StartsCounted'
<1>1. Begun' \subseteq Begun
  BY DEF Begun, TestsOf
<1>2. Begun \subseteq Package
  BY DEF Begun
<1>3. IsFiniteSet(Begun) /\ Cardinality(Begun) \in Nat
  BY <1>2, InFinite
<1>4. Cardinality(Begun') <= Cardinality(Begun) /\ Cardinality(Begun') \in Nat
  BY <1>1, <1>3, FS_Subset, FS_CardinalityType
<1>5. Written("mainStart") \in Nat /\ children \in Nat
  BY MainStream DEF TypeOK
<1>6. QED
  BY <1>3, <1>4, <1>5 DEF StartsCounted

\* A process that enters TestMain says so.
LEMMA StartsMain ==
  ASSUME TypeOK, StartsCounted, NEW p \in Package, TestMain(p)
  PROVE  StartsCounted'
<1>1. Emit(Main, "mainStart") /\ Proceeds(p, "main") /\ UNCHANGED <<state, children>>
  BY DEF TestMain
<1>2. Begun' \subseteq Begun \cup {p}
  BY <1>1 DEF Begun, TestsOf, Proceeds, TypeOK
<1>3. Begun \subseteq Package /\ Begun' \subseteq Package
  BY DEF Begun
<1>4. IsFiniteSet(Begun) /\ Cardinality(Begun) \in Nat /\ Cardinality(Begun') \in Nat
  BY <1>3, InFinite
<1>5. IsFiniteSet(Begun \cup {p}) /\ Cardinality(Begun \cup {p}) <= Cardinality(Begun) + 1
  BY <1>4, FS_AddElement
<1>6. Cardinality(Begun') <= Cardinality(Begun \cup {p}) /\ Cardinality(Begun \cup {p}) \in Nat
  BY <1>2, <1>5, FS_Subset, FS_CardinalityType
<1>7. Written("mainStart") \in Nat /\ children \in Nat
  BY MainStream DEF TypeOK
<1>8. "mainStart" \in MainWrites
  BY DEF MainWrites
<1>9. Written("mainStart")' = Written("mainStart") + 1
  BY <1>1, <1>8, WrittenMore
<1>10. QED
  BY <1>1, <1>4, <1>5, <1>6, <1>7, <1>9 DEF StartsCounted

\* A child that is run writes its start, too.
LEMMA StartsChild ==
  ASSUME TypeOK, StartsCounted, NEW t \in Test, ChildRuns(t)
  PROVE  StartsCounted'
<1>1. UNCHANGED <<state, process>> /\ children' = children + 1
  BY DEF ChildRuns
<1>2. Begun' = Begun
  BY <1>1 DEF Begun
<1>3. Written("mainStart")' >= Written("mainStart") + 1
  BY ChildWrites DEF Written
<1>4. private'[Main] \in Seq(MainWrites)
  BY ChildWrites
<1>5. Written("mainStart")' \in Nat
  BY <1>4, CountType DEF Written
<1>6. Written("mainStart") \in Nat /\ children \in Nat
  BY MainStream DEF TypeOK
<1>7. Cardinality(Begun) \in Nat
  <2>1. Begun \subseteq Package
    BY DEF Begun
  <2>2. QED
    BY <2>1, InFinite
<1>8. QED
  BY <1>1, <1>2, <1>3, <1>5, <1>6, <1>7 DEF StartsCounted

\* Every step keeps the count of the starts.
LEMMA StartsStep == TypeOK /\ StartsCounted /\ [Next]_vars => StartsCounted'
<1> SUFFICES ASSUME TypeOK, StartsCounted, [Next]_vars PROVE StartsCounted'
  OBVIOUS
<1> DEFINE Quiet == private'[Main] = private[Main]
           Kept == /\ \A q \in Package : process'[q] \in {"main"} \cup Gone => process[q] \in {"main"} \cup Gone
                   /\ \A t \in Test : state'[t] # "waiting" => state[t] # "waiting" \/ process[PackageOf[t]] = "main"
<1>1. Written("mainStart") \in Nat
  BY MainStream
<1>2. ASSUME Quiet, Kept, children' = children PROVE StartsCounted'
  <2>1. Written("mainStart")' = Written("mainStart")
    BY <1>2, WrittenSame
  <2>2. Written("mainStart")' \in Nat /\ Written("mainStart")' >= Written("mainStart")
    BY <1>1, <2>1
  <2>3. QED
    BY <1>2, <2>2, StartsKept
<1>3. ASSUME NEW p \in Package, BuildFails(p) \/ InitialiserCrashes(p) \/ Exit(p) PROVE StartsCounted'
  <2>1. process[p] = "leaving" \/ \E s \in {"unbuilt", "dead"} : Proceeds(p, s)
    BY <1>3 DEF BuildFails, InitialiserCrashes, Exit
  <2>2. \E s : Proceeds(p, s)
    BY <1>3 DEF BuildFails, InitialiserCrashes, Exit
  <2>3. UNCHANGED <<state, private, children>>
    BY <1>3 DEF BuildFails, InitialiserCrashes, Exit
  <2>4. Kept
    BY <2>1, <2>2, <2>3 DEF Proceeds, TypeOK, Gone
  <2>5. QED
    BY <1>2, <2>3, <2>4
<1>4. ASSUME NEW p \in Package, RunReturned(p) \/ NormalReturn(p) PROVE StartsCounted'
  <2>1. process[p] \in {"main"} \cup Gone /\ (\E s : Proceeds(p, s)) /\ UNCHANGED <<state, children>>
    BY <1>4 DEF RunReturned, NormalReturn, Gone
  <2>2. Kept
    BY <2>1 DEF Proceeds, TypeOK
  <2>3. PICK k \in {"mainRunReturned", "mainNormalReturn"} : Emit(Main, k)
    BY <1>4 DEF RunReturned, NormalReturn
  <2>4. k \in MainWrites /\ k # "mainStart"
    BY DEF MainWrites
  <2>5. Written("mainStart")' = Written("mainStart")
    BY <2>3, <2>4, WrittenMore
  <2>6. Written("mainStart")' \in Nat /\ Written("mainStart")' >= Written("mainStart")
    BY <1>1, <2>5
  <2>7. QED
    BY <2>1, <2>2, <2>6, StartsKept
<1>5. ASSUME NEW p \in Package, NEW S \in SUBSET Test, Dies(p, S),
             process[p] \in {"main", "returned", "leaving"}, Quiet,
             \A t \in S : state[t] = "running"
      PROVE  StartsCounted'
  <2>1. process' = [process EXCEPT ![p] = IF process[p] = "leaving" THEN "lost" ELSE "dead"] /\ UNCHANGED children
    BY <1>5 DEF Dies, Proceeds
  <2>2. \A t \in Test : state'[t] # "waiting" => state[t] # "waiting"
    BY <1>5 DEF Dies
  <2>3. Kept
    BY <1>5, <2>1, <2>2 DEF TypeOK, Gone
  <2>4. QED
    BY <1>2, <1>5, <2>1, <2>3
<1>6. ASSUME NEW p \in Package, Aborts(p) PROVE StartsCounted'
  BY <1>5, <1>6 DEF Aborts
<1>7. ASSUME NEW t \in Test, NEW kind, Emit(t, kind) PROVE Quiet
  BY <1>7, TestFacts DEF Emit, TypeOK
<1>8. ASSUME NEW t \in Test, EmitStart(t) PROVE StartsCounted'
  <2>1. process[PackageOf[t]] = "main" /\ Becomes(t, "running") /\ UNCHANGED <<process, children>> /\ Emit(t, "start")
    BY <1>8 DEF EmitStart
  <2>2. Kept
    BY <2>1 DEF Becomes, TypeOK
  <2>3. QED
    BY <1>2, <1>7, <2>1, <2>2
<1>9. ASSUME NEW t \in Test, Returns(t) \/ FailsAssertion(t) \/ Skips(t) \/ OutputDiffers(t) PROVE StartsCounted'
  <2>1. PICK s, kind, action : Ends(t, s, kind, action)
    BY <1>9 DEF Returns, FailsAssertion, Skips, OutputDiffers
  <2>2. state[t] = "running" /\ Becomes(t, s) /\ UNCHANGED <<process, children>> /\ Emit(t, kind)
    BY <2>1 DEF Ends, Running
  <2>3. Kept
    BY <2>2 DEF Becomes, TypeOK
  <2>4. QED
    BY <1>2, <1>7, <2>2, <2>3
<1>10. ASSUME NEW t \in Test, CatchPanic(t) \/ CleanupPanics(t) PROVE StartsCounted'
  <2>1. PICK kind : Emit(t, kind)
    BY <1>10 DEF CatchPanic, CleanupPanics
  <2>2. Dies(PackageOf[t], {t}) /\ PackageOf[t] \in Package /\ state[t] = "running" /\ process[PackageOf[t]] = "main"
    BY <1>10, TestFacts DEF CatchPanic, CleanupPanics, Running
  <2>3. QED
    BY <1>5, <1>7, <2>1, <2>2
<1>11. CASE TimesOut \/ UNCHANGED vars
  <2>1. UNCHANGED <<state, process, private, children>>
    BY <1>11 DEF TimesOut, vars
  <2>2. QED
    BY <1>2, <2>1
<1>12. QED
  BY <1>3, <1>4, <1>6, <1>8, <1>9, <1>10, <1>11, StartsMain, StartsChild DEF Next, BinaryStep, TestStep

\* A process that moves without a word, by its end or a death.
LEMMA SilentMove ==
  ASSUME TypeOK, MainCounts, NEW p \in Package, NEW s, Proceeds(p, s), private'[Main] = private[Main],
         \/ process[p] = "built" /\ s \in {"unbuilt", "dead"}
         \/ process[p] \in {"main", "returned"} /\ s = "dead"
         \/ process[p] = "leaving" /\ s \in {"exited", "lost"}
  PROVE  MainCounts'
<1>1. \A kind \in MainWrites : Written(kind)' = Written(kind) /\ Written(kind) \in Nat
  BY WrittenSame, MainStream
<1>2. ASSUME NEW b \in {"built", "main", "returned"}
      PROVE  /\ Cardinality(In({b})') <= Cardinality(In({b}))
             /\ Cardinality(In({b})) \in Nat /\ Cardinality(In({b})') \in Nat
  <2>1. s # b
    OBVIOUS
  <2>2. /\ Cardinality(In({b})) \in Nat /\ Cardinality(In({b})') \in Nat
        /\ (process[p] \in {b} <=> s \in {b}) => Cardinality(In({b})') = Cardinality(In({b}))
        /\ process[p] \in {b} /\ s \notin {b} => Cardinality(In({b})) = Cardinality(In({b})') + 1
    BY Moves
  <2>3. QED
    BY <2>1, <2>2
<1>3. Cardinality(In({"leaving", "exited", "lost"})') = Cardinality(In({"leaving", "exited", "lost"}))
  <2>1. process[p] \in {"leaving", "exited", "lost"} <=> s \in {"leaving", "exited", "lost"}
    OBVIOUS
  <2>2. QED
    BY <2>1, Moves
<1>4. PackageCount \in Nat
  BY Packages
<1>5. QED
  BY <1>1, <1>2, <1>3, <1>4 DEF MainCounts, MainWrites

\* A process that enters, leaves its tests behind or returns.
LEMMA WritingMove ==
  ASSUME TypeOK, MainCounts, NEW p \in Package, NEW s, NEW k, Proceeds(p, s), Emit(Main, k),
         \/ process[p] = "built" /\ s = "main" /\ k = "mainStart"
         \/ process[p] = "main" /\ s = "returned" /\ k = "mainRunReturned"
         \/ process[p] = "returned" /\ s = "leaving" /\ k = "mainNormalReturn"
  PROVE  MainCounts'
<1> DEFINE L == {"leaving", "exited", "lost"}
<1>1. k \in MainWrites
  BY DEF MainWrites
<1>2. ASSUME NEW kind \in MainWrites
      PROVE  Written(kind) \in Nat /\ Written(kind)' = IF kind = k THEN Written(kind) + 1 ELSE Written(kind)
  BY <1>1, WrittenMore, MainStream
<1>3. ASSUME NEW S
      PROVE  /\ Cardinality(In(S)) \in Nat /\ Cardinality(In(S)') \in Nat
             /\ (process[p] \in S <=> s \in S) => Cardinality(In(S)') = Cardinality(In(S))
             /\ process[p] \notin S /\ s \in S => Cardinality(In(S)') = Cardinality(In(S)) + 1
             /\ process[p] \in S /\ s \notin S => Cardinality(In(S)) = Cardinality(In(S)') + 1
  BY Moves
<1>4. PackageCount \in Nat
  BY Packages
<1>5. CASE process[p] = "built" /\ s = "main" /\ k = "mainStart"
  <2>1. Cardinality(In({"built"})) = Cardinality(In({"built"})') + 1 /\ Cardinality(In({"built"})') \in Nat
    BY <1>3, <1>5
  <2>2. Cardinality(In({"main"})') = Cardinality(In({"main"})) + 1 /\ Cardinality(In({"main"})) \in Nat
    BY <1>3, <1>5
  <2>3. Cardinality(In({"returned"})') = Cardinality(In({"returned"})) /\ Cardinality(In({"returned"})) \in Nat
    BY <1>3, <1>5
  <2>4. Cardinality(In(L)') = Cardinality(In(L)) /\ Cardinality(In(L)) \in Nat
    BY <1>3, <1>5
  <2>5. QED
    BY <1>2, <1>4, <1>5, <2>1, <2>2, <2>3, <2>4 DEF MainCounts, MainWrites
<1>6. CASE process[p] = "main" /\ s = "returned" /\ k = "mainRunReturned"
  <2>1. Cardinality(In({"built"})') = Cardinality(In({"built"})) /\ Cardinality(In({"built"})) \in Nat
    BY <1>3, <1>6
  <2>2. Cardinality(In({"main"})) = Cardinality(In({"main"})') + 1 /\ Cardinality(In({"main"})') \in Nat
    BY <1>3, <1>6
  <2>3. Cardinality(In({"returned"})') = Cardinality(In({"returned"})) + 1 /\ Cardinality(In({"returned"})) \in Nat
    BY <1>3, <1>6
  <2>4. Cardinality(In(L)') = Cardinality(In(L)) /\ Cardinality(In(L)) \in Nat
    BY <1>3, <1>6
  <2>5. QED
    BY <1>2, <1>4, <1>6, <2>1, <2>2, <2>3, <2>4 DEF MainCounts, MainWrites
<1>7. CASE process[p] = "returned" /\ s = "leaving" /\ k = "mainNormalReturn"
  <2>1. Cardinality(In({"built"})') = Cardinality(In({"built"})) /\ Cardinality(In({"built"})) \in Nat
    BY <1>3, <1>7
  <2>2. Cardinality(In({"main"})') = Cardinality(In({"main"})) /\ Cardinality(In({"main"})) \in Nat
    BY <1>3, <1>7
  <2>3. Cardinality(In({"returned"})) = Cardinality(In({"returned"})') + 1 /\ Cardinality(In({"returned"})') \in Nat
    BY <1>3, <1>7
  <2>4. Cardinality(In(L)') = Cardinality(In(L)) + 1 /\ Cardinality(In(L)) \in Nat
    BY <1>3, <1>7
  <2>5. QED
    BY <1>2, <1>4, <1>7, <2>1, <2>2, <2>3, <2>4 DEF MainCounts, MainWrites
<1>8. QED
  BY <1>5, <1>6, <1>7

\* The counts keep the order addMainEventCount asks for.
LEMMA OrderKept ==
  ASSUME TypeOK, OrderedMain(private[Main]), NEW k \in MainWrites, Emit(Main, k), MainCounts', TypeOK'
  PROVE  OrderedMain(private[Main])'
<1> DEFINE f == Append(private[Main], k)
<1>1. private'[Main] = f
  BY WrittenMore
<1>2. private[Main] \in Seq(MainWrites) /\ f \in Seq(MainWrites) /\ PackageCount \in Nat
  BY <1>1, Packages DEF TypeOK
<1>3. \A kind : Written(kind)' = CountOf(f, kind)
  BY <1>1 DEF Written
<1>4. \A kind : CountOf(f, kind) \in Nat
  BY <1>2, CountType
<1>5. /\ Cardinality(In({"built"}))' \in Nat /\ Cardinality(In({"main"}))' \in Nat
      /\ Cardinality(In({"returned"}))' \in Nat
  BY InFinite DEF In
<1>6. /\ CountOf(f, "mainStart") <= PackageCount
      /\ CountOf(f, "mainRunReturned") <= CountOf(f, "mainStart")
      /\ CountOf(f, "mainNormalReturn") <= CountOf(f, "mainRunReturned")
  BY <1>2, <1>3, <1>4, <1>5 DEF MainCounts
<1>7. CountOf(f, k) <= PackageCount
  BY <1>2, <1>4, <1>6 DEF MainWrites
<1>8. OrderedMain(f)
  BY <1>2, <1>6, <1>7, OrderedAppend
<1>9. QED
  BY <1>1, <1>8

\* Every step keeps the counts and the order of the events of the TestMains.
LEMMA CountsStep ==
  ASSUME TypeOK, TypeOK', MainCounts, OrderedMain(private[Main]), [Next]_vars, children' = 0
  PROVE  MainCounts' /\ OrderedMain(private[Main])'
<1>1. ASSUME private'[Main] = private[Main], process' = process PROVE MainCounts' /\ OrderedMain(private[Main])'
  <2>1. \A kind : Written(kind)' = Written(kind)
    BY <1>1, WrittenSame
  <2>2. \A S : In(S)' = In(S)
    BY <1>1 DEF In
  <2>3. QED
    BY <1>1, <2>1, <2>2 DEF MainCounts
<1>2. ASSUME NEW p \in Package, BuildFails(p) \/ InitialiserCrashes(p) \/ Exit(p)
      PROVE  MainCounts' /\ OrderedMain(private[Main])'
  <2>1. UNCHANGED private
    BY <1>2 DEF BuildFails, InitialiserCrashes, Exit
  <2>2. MainCounts'
    BY <1>2, <2>1, SilentMove DEF BuildFails, InitialiserCrashes, Exit
  <2>3. QED
    BY <2>1, <2>2
<1>3. ASSUME NEW p \in Package, TestMain(p) \/ RunReturned(p) \/ NormalReturn(p)
      PROVE  MainCounts' /\ OrderedMain(private[Main])'
  <2>1. MainCounts'
    BY <1>3, WritingMove DEF TestMain, RunReturned, NormalReturn
  <2>2. PICK k \in MainWrites : Emit(Main, k)
    BY <1>3 DEF TestMain, RunReturned, NormalReturn, MainWrites
  <2>3. QED
    BY <2>1, <2>2, OrderKept
<1>4. ASSUME NEW p \in Package, NEW S, Dies(p, S), process[p] \in {"main", "returned", "leaving"},
             private'[Main] = private[Main]
      PROVE  MainCounts' /\ OrderedMain(private[Main])'
  <2>1. PICK s : Proceeds(p, s) /\ s = IF process[p] = "leaving" THEN "lost" ELSE "dead"
    BY <1>4 DEF Dies
  <2>2. MainCounts'
    BY <1>4, <2>1, SilentMove
  <2>3. QED
    BY <1>4, <2>2
<1>5. ASSUME NEW p \in Package, Aborts(p) PROVE MainCounts' /\ OrderedMain(private[Main])'
  BY <1>4, <1>5 DEF Aborts
<1>6. ASSUME NEW t \in Test, NEW kind, Emit(t, kind) PROVE private'[Main] = private[Main]
  BY <1>6, TestFacts DEF Emit, TypeOK
<1>7. ASSUME NEW t \in Test, EmitStart(t) \/ Returns(t) \/ FailsAssertion(t) \/ Skips(t) \/ OutputDiffers(t)
      PROVE  MainCounts' /\ OrderedMain(private[Main])'
  <2>1. UNCHANGED process /\ \E kind : Emit(t, kind)
    BY <1>7 DEF EmitStart, Returns, FailsAssertion, Skips, OutputDiffers, Ends
  <2>2. QED
    BY <1>1, <1>6, <2>1
<1>8. ASSUME NEW t \in Test, CatchPanic(t) \/ CleanupPanics(t) PROVE MainCounts' /\ OrderedMain(private[Main])'
  <2>1. PICK kind : Emit(t, kind)
    BY <1>8 DEF CatchPanic, CleanupPanics
  <2>2. Dies(PackageOf[t], {t}) /\ PackageOf[t] \in Package /\ process[PackageOf[t]] = "main"
    BY <1>8, TestFacts DEF CatchPanic, CleanupPanics, Running
  <2>3. QED
    BY <1>4, <1>6, <2>1, <2>2
<1>9. ASSUME NEW t \in Test, ChildRuns(t) PROVE FALSE
  BY <1>9 DEF ChildRuns, TypeOK
<1>10. CASE TimesOut \/ UNCHANGED vars
  <2>1. UNCHANGED <<process, private>>
    BY <1>10 DEF TimesOut, vars
  <2>2. QED
    BY <1>1, <2>1
<1>11. QED
  BY <1>2, <1>3, <1>5, <1>7, <1>8, <1>9, <1>10 DEF Next, BinaryStep, TestStep

\* Every step keeps the whole invariant.
LEMMA TestRunStep == TInv /\ [Next]_vars => TInv'
<1> SUFFICES ASSUME TInv, [Next]_vars PROVE TInv'
  OBVIOUS
<1>1. TypeOK /\ TypeOK' /\ Tests' /\ StartsCounted'
  BY TypeStep, TestsStep, StartsStep DEF TInv
<1>2. children' = 0 => children = 0
  <2>1. children' = children \/ children' = children + 1
    BY DEF Next, BinaryStep, TestStep, BuildFails, InitialiserCrashes, TestMain, RunReturned, NormalReturn, Exit,
       Aborts, EmitStart, Returns, FailsAssertion, Skips, OutputDiffers, Ends, CatchPanic, CleanupPanics, Dies,
       ChildRuns, TimesOut, vars
  <2>2. QED
    BY <1>1, <2>1 DEF TypeOK
<1>3. children' = 0 => MainCounts' /\ OrderedMain(private[Main])'
  BY <1>1, <1>2, CountsStep DEF TInv
<1>4. QED
  BY <1>1, <1>3 DEF TInv

\* The invariant of every run: the events of every test are those of its life, every
\* TestMain that was entered is counted, and without children the counts of the
\* TestMains are those of the processes and in the order addMainEventCount asks for.
THEOREM TestRunInvariant == Spec => []TInv
BY TestRunInit, TestRunStep, PTL DEF Spec

-----------------------------------------------------------------------------
(* What the classifier makes of the events. *)

Verdict == Classify(private, official)
Entries == {ClassifyEntry(t, private[t], official[t], MainComplete(private[Main])) : t \in Test}

\* The branches of Classify, one by one.
LEMMA VerdictIs ==
  /\ Verdict \in {"passed", "assertionFailure"} => ~MainRuntime(private[Main]) /\ Verdict = Combine(Entries)
  /\ CollectPrivate(private) /\ CollectOfficial(official) /\ OrderedMain(private[Main]) /\ ~Contradictory(private[Main])
       => Verdict = IF MainRuntime(private[Main]) THEN "runtimeError" ELSE Combine(Entries)
BY DEF Verdict, Classify, Entries

\* A run that is called passed or failed ended in time, was built and is classified so.
LEMMA StatusSays ==
  ASSUME FinalStatus \in {"passed", "assertionFailure"}
  PROVE  /\ ~timedOut /\ ~BuildFailed /\ Verdict = FinalStatus
         /\ FinalStatus = "passed" => ~RunFailed
<1>1. FinalStatus = IF timedOut THEN "timedOut"
                    ELSE IF BuildFailed THEN "compileError"
                    ELSE IF Silent(private, official) /\ RunFailed THEN "compileError"
                    ELSE IF (Verdict = "passed") = RunFailed THEN "toolError"
                    ELSE Verdict
  BY DEF FinalStatus, RunStatus, Verdict
<1>2. ~timedOut /\ ~BuildFailed /\ Verdict = FinalStatus
  BY <1>1
<1>3. ASSUME FinalStatus = "passed" PROVE ~RunFailed
  <2>1. ((Verdict = "passed") = RunFailed) => FinalStatus = "toolError"
    BY <1>1, <1>2, <1>3
  <2>2. Verdict = "passed"
    BY <1>2, <1>3
  <2>3. RunFailed \in BOOLEAN
    BY DEF RunFailed
  <2>4. RunFailed => (Verdict = "passed") = RunFailed
    BY <2>2, <2>3
  <2>5. "passed" # "toolError"
    OBVIOUS
  <2>6. QED
    BY <1>3, <2>1, <2>4, <2>5
<1>4. QED
  BY <1>2, <1>3

\* A run in time of binaries that were built and did something is classified, unless go test contradicts.
LEMMA StatusIs ==
  ASSUME ~timedOut, ~BuildFailed, NEW t \in Test, official[t] # <<>>
  PROVE  /\ Verdict = "passed" /\ ~RunFailed => FinalStatus = "passed"
         /\ Verdict # "passed" /\ RunFailed => FinalStatus = Verdict
         /\ Verdict # "passed" /\ ~RunFailed => FinalStatus = "toolError"
<1>1. ~Silent(private, official)
  BY DEF Silent
<1>2. FinalStatus = IF (Verdict = "passed") = RunFailed THEN "toolError" ELSE Verdict
  BY <1>1 DEF FinalStatus, RunStatus, Verdict
<1>3. RunFailed \in BOOLEAN /\ (Verdict = "passed") \in BOOLEAN
  BY DEF RunFailed
<1>4. ASSUME Verdict = "passed", ~RunFailed PROVE FinalStatus = "passed"
  <2>1. (Verdict = "passed") # RunFailed
    BY <1>3, <1>4
  <2>2. QED
    BY <1>2, <1>4, <2>1
<1>5. ASSUME Verdict # "passed", RunFailed PROVE FinalStatus = Verdict
  <2>1. (Verdict = "passed") # RunFailed
    BY <1>3, <1>5
  <2>2. QED
    BY <1>2, <2>1
<1>6. ASSUME Verdict # "passed", ~RunFailed PROVE FinalStatus = "toolError"
  <2>1. (Verdict = "passed") = RunFailed
    BY <1>3, <1>6
  <2>2. QED
    BY <1>2, <2>1
<1>7. QED
  BY <1>4, <1>5, <1>6

\* A skip is never a verdict on its test, nor a test without its two official events.
LEMMA EntryRuntime ==
  ASSUME NEW t, NEW kinds, NEW actions, NEW mainComplete,
         Len(actions) # 2 \/ actions = <<"run", "skip">>
  PROVE  ClassifyEntry(t, kinds, actions, mainComplete) = "runtimeError"
<1>1. CASE Len(actions) # 2
  BY <1>1 DEF ClassifyEntry
<1>2. CASE actions = <<"run", "skip">>
  <2>1. actions[2] = "skip"
    BY <1>2
  <2>2. ASSUME NEW k
        PROVE  ClassifyExample(k, "skip", mainComplete) = "runtimeError" /\ ClassifyTest(k, "skip") = "runtimeError"
    BY DEF ClassifyExample, ClassifyTest
  <2>3. QED
    BY <2>1, <2>2 DEF ClassifyEntry
<1>3. QED
  BY <1>1, <1>2

\* A test that go test passes is no assertion failure, and passed if it says so itself.
LEMMA EntryPass ==
  ASSUME NEW t, NEW kinds, NEW mainComplete
  PROVE  /\ ClassifyEntry(t, kinds, <<"run", "pass">>, mainComplete) # "assertionFailure"
         /\ kinds = <<"start", "normalReturn">> => ClassifyEntry(t, kinds, <<"run", "pass">>, mainComplete) = "passed"
<1> DEFINE actions == <<"run", "pass">>
<1>1. Len(actions) = 2 /\ actions[2] = "pass"
  OBVIOUS
<1>2. ASSUME NEW k
      PROVE  /\ ClassifyExample(k, "pass", mainComplete) # "assertionFailure"
             /\ ClassifyTest(k, "pass") # "assertionFailure"
             /\ k = "normalReturn" => /\ ClassifyExample(k, "pass", mainComplete) = "passed"
                                      /\ ClassifyTest(k, "pass") = "passed"
  BY DEF ClassifyExample, ClassifyTest
<1>3. kinds = <<"start", "normalReturn">> => Len(kinds) = 2 /\ kinds[2] = "normalReturn"
  OBVIOUS
<1> HIDE DEF actions
<1>4. /\ ClassifyEntry(t, kinds, actions, mainComplete) # "assertionFailure"
      /\ kinds = <<"start", "normalReturn">> => ClassifyEntry(t, kinds, actions, mainComplete) = "passed"
  BY <1>1, <1>2, <1>3 DEF ClassifyEntry
<1>5. QED
  BY <1>4 DEF actions

\* A test that fails as its kind does is an assertion failure in a complete run.
LEMMA EntryFail ==
  ASSUME NEW t
  PROVE  ClassifyEntry(t, <<"start", IF KindOf[t] = "example" THEN "normalReturn" ELSE "assertionFailure">>,
                       <<"run", "fail">>, TRUE) = "assertionFailure"
<1> DEFINE kind == IF KindOf[t] = "example" THEN "normalReturn" ELSE "assertionFailure"
           kinds == <<"start", kind>>
           actions == <<"run", "fail">>
<1>1. Len(actions) = 2 /\ actions[2] = "fail" /\ Len(kinds) = 2 /\ kinds[2] = kind
  OBVIOUS
<1>2. ClassifyExample("normalReturn", "fail", TRUE) = "assertionFailure"
      /\ ClassifyTest("assertionFailure", "fail") = "assertionFailure"
  BY DEF ClassifyExample, ClassifyTest
<1>3. kind = IF KindOf[t] = "example" THEN "normalReturn" ELSE "assertionFailure"
  OBVIOUS
<1> HIDE DEF kind, kinds, actions
<1>4. ClassifyEntry(t, kinds, actions, TRUE) = "assertionFailure"
  BY <1>1, <1>2, <1>3 DEF ClassifyEntry
<1>5. QED
  BY <1>4 DEF kind, kinds, actions

\* The normal returns are as many as the packages just when every process has come so far.
LEMMA ReturnedProcesses ==
  ASSUME MainCounts
  PROVE  Written("mainNormalReturn") = PackageCount <=> \A p \in Package : process[p] \in {"leaving", "exited", "lost"}
<1> DEFINE L == {"leaving", "exited", "lost"}
<1>1. In(L) \subseteq Package
  BY DEF In
<1>2. Cardinality(In(L)) = PackageCount <=> In(L) = Package
  BY <1>1, InFinite, Packages
<1>3. In(L) = Package <=> \A p \in Package : process[p] \in L
  BY DEF In
<1>4. QED
  BY <1>2, <1>3 DEF MainCounts

\* When every process has returned the TestMains are complete.
LEMMA CompleteMain ==
  ASSUME TypeOK, MainCounts, \A p \in Package : process[p] \in {"leaving", "exited", "lost"}
  PROVE  MainComplete(private[Main])
<1>1. Written("mainNormalReturn") = PackageCount
  BY ReturnedProcesses
<1>2. /\ Cardinality(In({"built"})) \in Nat /\ Cardinality(In({"main"})) \in Nat
      /\ Cardinality(In({"returned"})) \in Nat
  BY InFinite DEF In
<1>3. PackageCount \in Nat /\ Written("mainStart") \in Nat /\ Written("mainRunReturned") \in Nat
  BY Packages, MainStream
<1>4. Written("mainStart") = PackageCount /\ Written("mainRunReturned") = PackageCount
  <2>1. /\ Written("mainStart") + Cardinality(In({"built"})) <= PackageCount
        /\ Written("mainRunReturned") + Cardinality(In({"main"})) <= Written("mainStart")
        /\ PackageCount + Cardinality(In({"returned"})) <= Written("mainRunReturned")
    BY <1>1 DEF MainCounts
  <2>2. QED
    BY ONLY <1>2, <1>3, <2>1
<1>5. CountOf(private[Main], "panic") = 0
  <2>1. "panic" \notin MainWrites
    BY DEF MainWrites
  <2>2. QED
    BY <2>1, CountAbsent DEF TypeOK
<1>6. QED
  BY <1>1, <1>4, <1>5 DEF MainComplete, MainKind, Written

\* No run is called passed in which a binary ended badly or a test did not pass, with
\* children or without.
LEMMA PassStep == ASSUME TInv PROVE PassIsReal
<1> SUFFICES ASSUME Finished, FinalStatus = "passed"
             PROVE  ~timedOut /\ (\A p \in Package : process[p] = "exited") /\ \A t \in Test : state[t] = "passed"
  BY DEF PassIsReal
<1>1. ~timedOut /\ ~RunFailed /\ Verdict = "passed"
  BY StatusSays
<1>2. \A p \in Package : process[p] = "exited"
  BY <1>1 DEF Finished, RunFailed
<1>3. "runtimeError" \notin Entries
  <2>1. Combine(Entries) = "passed"
    BY <1>1, VerdictIs
  <2>2. "runtimeError" \in Entries => Combine(Entries) = "runtimeError"
    BY DEF Combine
  <2>3. QED
    BY <2>1, <2>2
<1>4. ASSUME NEW t \in Test PROVE state[t] = "passed"
  <2>1. LifeAt(t) /\ OfficialAt(t) /\ PackageOf[t] \in Package
    BY TestFacts DEF TInv, Tests
  <2>2. state[t] \in Settled
    BY <1>2, <2>1 DEF LifeAt, Gone
  <2>3. state[t] # "failed"
    BY <1>1 DEF RunFailed
  <2>4. official[t] # <<"run", "skip">>
    BY <1>3, EntryRuntime DEF Entries
  <2>5. QED
    BY <2>1, <2>2, <2>3, <2>4 DEF OfficialAt, Settled
<1>5. QED
  BY <1>1, <1>2, <1>4

\* A run called an assertion failure had every binary to its end, every test
\* settled and one of them failed.  No child can have been run in it: the count
\* of the starts would exceed that of the packages.
LEMMA AssertionStep == ASSUME TInv PROVE AssertionIsReal
<1> SUFFICES ASSUME Finished, FinalStatus = "assertionFailure"
             PROVE  /\ Whole
                    /\ \A t \in Test : state[t] \in {"passed", "failed"}
                    /\ \E t \in Test : state[t] = "failed"
  BY DEF AssertionIsReal
<1>1. ~timedOut /\ Verdict = "assertionFailure"
  BY StatusSays
<1>2. ~MainRuntime(private[Main]) /\ "runtimeError" \notin Entries /\ "assertionFailure" \in Entries
  <2>1. ~MainRuntime(private[Main]) /\ Combine(Entries) = "assertionFailure"
    BY <1>1, VerdictIs
  <2>2. "runtimeError" \in Entries => Combine(Entries) = "runtimeError"
    BY DEF Combine
  <2>3. "runtimeError" \notin Entries /\ "assertionFailure" \notin Entries => Combine(Entries) = "passed"
    BY DEF Combine
  <2>4. QED
    BY <2>1, <2>2, <2>3
<1>3. ASSUME NEW t \in Test
      PROVE  state[t] \in {"passed", "failed", "crashed"} /\ official[t] # <<"run", "skip">> /\ Len(official[t]) = 2
  <2>1. Len(official[t]) = 2 /\ official[t] # <<"run", "skip">>
    BY <1>2, EntryRuntime DEF Entries
  <2>2. state[t] \in TestState /\ OfficialAt(t)
    BY DEF TInv, TypeOK, Tests
  <2>3. official[t] # <<>> /\ official[t] # <<"run">>
    BY <2>1
  <2>4. QED
    BY <2>1, <2>2, <2>3 DEF OfficialAt, TestState
<1>4. Begun = Package
  <2>1. ASSUME NEW p \in Package PROVE p \in Begun
    <3>1. PICK t \in Test : PackageOf[t] = p
      BY InventoryAssumption
    <3>2. state[t] # "waiting" /\ t \in TestsOf(p)
      BY <1>3, <3>1 DEF TestsOf
    <3>3. QED
      BY <3>2 DEF Begun
  <2>2. QED
    BY <2>1 DEF Begun
<1>5. PackageCount \in Nat /\ PackageCount # 0
  <2>1. Package # {}
    BY InventoryAssumption
  <2>2. QED
    BY <2>1, Packages, FS_EmptySet
<1>6. Written("mainStart") >= PackageCount + children
  BY <1>4, Packages DEF TInv, StartsCounted
<1>7. Written("mainStart") \in Nat /\ children \in Nat
  BY MainStream DEF TInv, TypeOK
<1>8. MainComplete(private[Main])
  <2>1. Written("mainStart") > 0
    BY <1>5, <1>6, <1>7
  <2>2. QED
    BY <1>2, <2>1 DEF MainRuntime, Written
<1>9. Written("mainStart") = PackageCount /\ Written("mainNormalReturn") = PackageCount
  BY <1>8 DEF MainComplete, MainKind, Written
<1>10. children = 0
  BY <1>5, <1>6, <1>7, <1>9
<1>11. \A p \in Package : process[p] \in {"leaving", "exited", "lost"}
  BY <1>9, <1>10, ReturnedProcesses DEF TInv
<1>12. Whole
  BY <1>1, <1>11 DEF Whole, Finished, Over
<1>13. ASSUME NEW t \in Test PROVE state[t] \in {"passed", "failed"}
  <2>1. LifeAt(t) /\ PackageOf[t] \in Package
    BY TestFacts DEF TInv, Tests
  <2>2. state[t] \in Settled
    BY <1>11, <2>1 DEF LifeAt, Gone
  <2>3. QED
    BY <1>3, <2>2 DEF Settled
<1>14. \E t \in Test : state[t] = "failed"
  <2>1. PICK t \in Test : ClassifyEntry(t, private[t], official[t], MainComplete(private[Main])) = "assertionFailure"
    BY <1>2 DEF Entries
  <2>2. official[t] # <<"run", "pass">>
    BY <2>1, EntryPass
  <2>3. state[t] # "passed"
    BY <2>2 DEF TInv, Tests, OfficialAt
  <2>4. QED
    BY <1>13, <2>3
<1>15. QED
  BY <1>12, <1>13, <1>14

\* Without children the events of every test and of the TestMains are in order.
LEMMA PlainVerdict ==
  ASSUME TInv, children = 0
  PROVE  Verdict = IF MainRuntime(private[Main]) THEN "runtimeError" ELSE Combine(Entries)
<1>1. ASSUME NEW t \in Test PROVE WellFormed(private[t], "start", PrivateTerminal)
  <2>1. PrivateAt(t) /\ state[t] \in TestState
    BY DEF TInv, TypeOK, Tests
  <2>2. WellFormed(<<>>, "start", PrivateTerminal) /\ WellFormed(<<"start">>, "start", PrivateTerminal)
    BY DEF WellFormed
  <2>3. \A kind \in PrivateTerminal : WellFormed(<<"start", kind>>, "start", PrivateTerminal)
    BY DEF WellFormed
  <2>4. private[t] \in {<<>>, <<"start">>} \/ \E kind \in PrivateTerminal : private[t] = <<"start", kind>>
    BY <2>1 DEF PrivateAt, TestState, PrivateTerminal
  <2>5. QED
    BY <2>2, <2>3, <2>4
<1>2. ASSUME NEW t \in Test PROVE WellFormed(official[t], "run", OfficialTerminal)
  <2>1. OfficialAt(t) /\ state[t] \in TestState
    BY DEF TInv, TypeOK, Tests
  <2>2. WellFormed(<<>>, "run", OfficialTerminal) /\ WellFormed(<<"run">>, "run", OfficialTerminal)
    BY DEF WellFormed
  <2>3. \A action \in OfficialTerminal : WellFormed(<<"run", action>>, "run", OfficialTerminal)
    BY DEF WellFormed
  <2>4. official[t] \in {<<>>, <<"run">>} \/ \E action \in OfficialTerminal : official[t] = <<"run", action>>
    BY <2>1 DEF OfficialAt, TestState, OfficialTerminal
  <2>5. QED
    BY <2>2, <2>3, <2>4
<1>3. ~Contradictory(private[Main])
  <2>1. "panic" \notin MainWrites /\ private[Main] \in Seq(MainWrites)
    BY DEF MainWrites, TInv, TypeOK
  <2>2. CountOf(private[Main], "panic") = 0
    BY <2>1, CountAbsent
  <2>3. QED
    BY <2>2 DEF Contradictory
<1>4. CollectPrivate(private) /\ CollectOfficial(official)
  BY <1>1, <1>2 DEF CollectPrivate, CollectOfficial
<1>5. QED
  BY <1>3, <1>4, VerdictIs DEF TInv

\* A whole run without skips is classified by its failures.
LEMMA WholeVerdict ==
  ASSUME TInv, children = 0, \A p \in Package : process[p] \in {"exited", "lost"},
         \A t \in Test : state[t] \in {"passed", "failed"}
  PROVE  /\ (\A t \in Test : state[t] = "passed") => Verdict = "passed"
         /\ (\E t \in Test : state[t] = "failed") => Verdict = "assertionFailure"
<1>1. MainComplete(private[Main])
  BY CompleteMain DEF TInv
<1>2. MainComplete(private[Main]) \in BOOLEAN
  BY DEF MainComplete
<1>3. Verdict = Combine(Entries)
  BY <1>1, PlainVerdict DEF MainRuntime
<1>4. ASSUME NEW t \in Test
      PROVE  ClassifyEntry(t, private[t], official[t], MainComplete(private[Main])) =
               IF state[t] = "passed" THEN "passed" ELSE "assertionFailure"
  <2>1. OfficialAt(t) /\ PrivateAt(t)
    BY DEF TInv, Tests
  <2>2. CASE state[t] = "passed"
    <3>1. official[t] = <<"run", "pass">> /\ private[t] = <<"start", "normalReturn">>
      BY <2>1, <2>2 DEF OfficialAt, PrivateAt
    <3>2. QED
      BY <2>2, <3>1, EntryPass
  <2>3. CASE state[t] = "failed"
    <3>1. /\ official[t] = <<"run", "fail">>
          /\ private[t] = <<"start", IF KindOf[t] = "example" THEN "normalReturn" ELSE "assertionFailure">>
      BY <2>1, <2>3 DEF OfficialAt, PrivateAt
    <3>2. MainComplete(private[Main]) = TRUE
      BY <1>1, <1>2
    <3>3. ClassifyEntry(t, private[t], official[t], MainComplete(private[Main])) = "assertionFailure"
      BY <3>1, <3>2, EntryFail
    <3>4. QED
      BY <2>3, <3>3
  <2>4. QED
    BY <2>2, <2>3
<1>5. ASSUME \A t \in Test : state[t] = "passed" PROVE Verdict = "passed"
  <2>1. "runtimeError" \notin Entries /\ "assertionFailure" \notin Entries
    BY <1>4, <1>5 DEF Entries
  <2>2. Combine(Entries) = "passed"
    BY <2>1 DEF Combine
  <2>3. QED
    BY <1>3, <2>2
<1>6. ASSUME \E t \in Test : state[t] = "failed" PROVE Verdict = "assertionFailure"
  <2>1. "runtimeError" \notin Entries
    BY <1>4 DEF Entries
  <2>2. "assertionFailure" \in Entries
    BY <1>4, <1>6 DEF Entries
  <2>3. Combine(Entries) = "assertionFailure"
    BY <2>1, <2>2 DEF Combine
  <2>4. QED
    BY <1>3, <2>3
<1>7. QED
  BY <1>5, <1>6

\* A test that took its binary down makes the run a runtime error.
LEMMA CrashVerdict ==
  ASSUME TInv, children = 0, NEW t \in Test, state[t] = "crashed"
  PROVE  Verdict = "runtimeError" /\ process[PackageOf[t]] = "dead"
<1>1. process[PackageOf[t]] = "dead" /\ PackageOf[t] \in Package /\ t \in TestsOf(PackageOf[t])
  BY TestFacts DEF TInv, Tests, LifeAt
<1>2. Written("mainNormalReturn") # PackageCount
  BY <1>1, ReturnedProcesses DEF TInv
<1>3. ~MainComplete(private[Main])
  BY <1>2 DEF MainComplete, MainKind, Written
<1>4. Written("mainStart") > 0
  <2>1. PackageOf[t] \in Begun /\ Begun \subseteq Package
    BY <1>1 DEF Begun
  <2>2. IsFiniteSet(Begun) /\ Cardinality(Begun) \in Nat /\ Begun # {}
    BY <2>1, InFinite
  <2>3. Cardinality(Begun) # 0
    BY <2>2, FS_EmptySet
  <2>4. Written("mainStart") \in Nat /\ Written("mainStart") >= Cardinality(Begun) + children
    BY MainStream DEF TInv, StartsCounted
  <2>5. QED
    BY <2>2, <2>3, <2>4
<1>5. MainRuntime(private[Main])
  BY <1>3, <1>4 DEF MainRuntime, Written
<1>6. QED
  BY <1>1, <1>5, PlainVerdict

\* What happened plainly is said plainly.
LEMMA PlainStep == ASSUME TInv PROVE PlainRunsAreClassified
<1> SUFFICES ASSUME Finished, children = 0, ~timedOut, ~BuildFailed
             PROVE  /\ (\A t \in Test : state[t] = "passed") /\ ~RunFailed => FinalStatus = "passed"
                    /\ /\ Whole /\ \A t \in Test : state[t] \in {"passed", "failed"}
                       /\ \E t \in Test : state[t] = "failed"
                       => FinalStatus = "assertionFailure"
                    /\ (\E t \in Test : state[t] = "crashed") => FinalStatus = "runtimeError"
                    /\ (\E t \in Test : state[t] = "skipped") => FinalStatus \in {"runtimeError", "toolError"}
  BY DEF PlainRunsAreClassified
<1>1. ASSUME NEW t \in Test, state[t] # "waiting" PROVE official[t] # <<>>
  <2>1. OfficialAt(t) /\ state[t] \in TestState
    BY DEF TInv, TypeOK, Tests
  <2>2. QED
    BY <1>1, <2>1 DEF OfficialAt, TestState
<1>2. ASSUME \A t \in Test : state[t] = "passed", ~RunFailed PROVE FinalStatus = "passed"
  <2>1. \A p \in Package : process[p] = "exited"
    BY <1>2 DEF Finished, RunFailed
  <2>2. Verdict = "passed"
    BY <1>2, <2>1, WholeVerdict
  <2>3. PICK t \in Test : official[t] # <<>>
    BY <1>1, <1>2, InventoryAssumption
  <2>4. QED
    BY <1>2, <2>2, <2>3, StatusIs
<1>3. ASSUME Whole, \A t \in Test : state[t] \in {"passed", "failed"}, \E t \in Test : state[t] = "failed"
      PROVE  FinalStatus = "assertionFailure"
  <2>1. Verdict = "assertionFailure"
    BY <1>3, WholeVerdict DEF Whole
  <2>2. PICK t \in Test : state[t] = "failed"
    BY <1>3
  <2>3. RunFailed /\ official[t] # <<>>
    BY <1>1, <2>2 DEF RunFailed
  <2>4. Verdict # "passed" /\ RunFailed => FinalStatus = Verdict
    BY <2>3, StatusIs
  <2>5. QED
    BY <2>1, <2>3, <2>4
<1>4. ASSUME NEW t \in Test, state[t] = "crashed" PROVE FinalStatus = "runtimeError"
  <2>1. Verdict = "runtimeError" /\ process[PackageOf[t]] = "dead" /\ PackageOf[t] \in Package
    BY <1>4, CrashVerdict, TestFacts
  <2>2. RunFailed /\ official[t] # <<>>
    BY <1>1, <1>4, <2>1 DEF RunFailed, Over
  <2>3. Verdict # "passed" /\ RunFailed => FinalStatus = Verdict
    BY <2>2, StatusIs
  <2>4. QED
    BY <2>1, <2>2, <2>3
<1>5. ASSUME NEW t \in Test, state[t] = "skipped" PROVE FinalStatus \in {"runtimeError", "toolError"}
  <2>1. official[t] = <<"run", "skip">>
    BY <1>5 DEF TInv, Tests, OfficialAt
  <2>2. "runtimeError" \in Entries
    BY <2>1, EntryRuntime DEF Entries
  <2>3. Combine(Entries) = "runtimeError"
    BY <2>2 DEF Combine
  <2>4. Verdict = "runtimeError"
    BY <2>3, PlainVerdict
  <2>5. official[t] # <<>>
    BY <1>1, <1>5
  <2>6. /\ Verdict # "passed" /\ RunFailed => FinalStatus = Verdict
        /\ Verdict # "passed" /\ ~RunFailed => FinalStatus = "toolError"
    BY <2>5, StatusIs
  <2>7. QED
    BY <2>4, <2>6
<1>6. QED
  BY <1>2, <1>3, <1>4, <1>5

-----------------------------------------------------------------------------
(* The theorems. *)

\* No run is called passed, on which a mutant survives and a baseline is good,
\* unless every binary exited and every test of the inventory passed
\* (classifiedRunStatus).
THEOREM PassedRunsPassed == Spec => []PassIsReal
BY TestRunInvariant, PassStep, PTL

\* No run is called an assertion failure, on which a mutant is killed, unless
\* every binary ran to its end, every test settled and one of them failed,
\* whatever crashed, panicked or was run as a child (Classify).
THEOREM AssertionsAreReal == Spec => []AssertionIsReal
BY TestRunInvariant, AssertionStep, PTL

\* A run without children, in time and built, is called what it was, for every
\* interleaving of its packages (classifiedRunStatus).
THEOREM PlainRunsAreSaid == Spec => []PlainRunsAreClassified
BY TestRunInvariant, PlainStep, PTL
=============================================================================
