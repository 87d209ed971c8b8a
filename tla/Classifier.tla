----------------------------- MODULE Classifier -----------------------------
(***************************************************************************)
(* How the typed runner turns one run of go test into a Status             *)
(* (internal/runner/classifier.go and classifiedRunStatus): the private    *)
(* events the rewritten tests wrote into the FIFO are joined with the      *)
(* official events of go test -json, over the closed inventory of tests.   *)
(*                                                                         *)
(* Nothing but the order of the events of one test, and that of the events *)
(* of all TestMains, is told apart, so a stream is kept split by its ids:  *)
(* private[t] and private[Main] hold the kinds, official[t] the actions.   *)
(* Every event carries the nonce of this run, whose FIFO is made for it.   *)
(***************************************************************************)
EXTENDS Integers, Sequences, FiniteSets

CONSTANTS Test, Package, PackageOf, KindOf, Main

(* the inventory lists the tests found; only a package with one of them is given
   the helper and so a TestMain (selectRunnablePackages) *)
ASSUME InventoryAssumption ==
  /\ Test # {} /\ IsFiniteSet(Test) /\ Main \notin Test
  /\ PackageOf \in [Test -> Package] /\ Package = {PackageOf[t] : t \in Test}
  /\ KindOf \in [Test -> {"test", "fuzz", "example"}]

PrivateTerminal == {"normalReturn", "assertionFailure", "panic"}
OfficialTerminal == {"pass", "fail", "skip"}
MainKind == {"mainStart", "mainRunReturned", "mainNormalReturn", "panic"}

(* inventoryPackageCount *)
PackageCount == Cardinality({PackageOf[t] : t \in Test})

(* addPrivateEvent and addOfficialEvent accept an opening event, then at most
   one terminal event, whatever comes between from other tests *)
WellFormed(events, opening, terminal) ==
  /\ Len(events) <= 2
  /\ Len(events) >= 1 => events[1] = opening
  /\ Len(events) = 2 => events[2] \in terminal

CollectPrivate(private) == \A t \in Test : WellFormed(private[t], "start", PrivateTerminal)
CollectOfficial(official) == \A t \in Test : WellFormed(official[t], "run", OfficialTerminal)

CountOf(events, kind) == Cardinality({i \in DOMAIN events : events[i] = kind})

(* addMainEventCount holds after every event of a TestMain, over all packages *)
OrderedMain(events) ==
  \A n \in DOMAIN events :
    LET count(kind) == CountOf(SubSeq(events, 1, n), kind) IN
    /\ events[n] \in MainKind
    /\ count(events[n]) <= PackageCount
    /\ count("mainRunReturned") <= count("mainStart")
    /\ count("mainNormalReturn") <= count("mainRunReturned")
    /\ count("panic") <= count("mainStart")

Contradictory(events) ==
  CountOf(events, "mainNormalReturn") = PackageCount /\ CountOf(events, "panic") # 0

MainComplete(events) ==
  /\ \A kind \in MainKind \ {"panic"} : CountOf(events, kind) = PackageCount
  /\ CountOf(events, "panic") = 0

MainRuntimeBug(events) == CountOf(events, "panic") > 0
MainRuntime(events) == CountOf(events, "mainStart") > 0 /\ ~MainComplete(events)

ClassifyTestBug(terminal, action) ==
  CASE terminal = "assertionFailure" /\ action = "fail" -> "assertionFailure"
    [] terminal = "normalReturn" /\ action # "fail" -> "passed"
    [] OTHER -> "runtimeError"

ClassifyTest(terminal, action) ==
  CASE terminal = "assertionFailure" /\ action = "fail" -> "assertionFailure"
    [] terminal = "normalReturn" /\ action = "pass" -> "passed"
    [] OTHER -> "runtimeError"

ClassifyExample(terminal, action, mainComplete) ==
  CASE terminal = "normalReturn" /\ action = "fail" /\ mainComplete -> "assertionFailure"
    [] terminal = "normalReturn" /\ action = "pass" -> "passed"
    [] OTHER -> "runtimeError"

(* a test without both of both events, a panic and a skip are runtime errors *)
ClassifyEntry(t, kinds, actions, mainComplete) ==
  IF Len(kinds) # 2 \/ Len(actions) # 2 THEN "runtimeError"
  ELSE IF KindOf[t] = "example" THEN ClassifyExample(kinds[2], actions[2], mainComplete)
  ELSE ClassifyTest(kinds[2], actions[2])

(* combineStatus: a runtime error wins, then an assertion failure *)
Combine(statuses) ==
  CASE "runtimeError" \in statuses -> "runtimeError"
    [] "runtimeError" \notin statuses /\ "assertionFailure" \in statuses -> "assertionFailure"
    [] OTHER -> "passed"

Classify(private, official) ==
  LET main == private[Main]
      entry(t) == ClassifyEntry(t, private[t], official[t], MainComplete(main))
  IN IF ~CollectPrivate(private) \/ ~CollectOfficial(official) THEN "toolError"
     ELSE IF ~OrderedMain(main) \/ Contradictory(main) THEN "toolError"
     ELSE IF MainRuntime(main) THEN "runtimeError"
     ELSE Combine({entry(t) : t \in Test})

(* compileWithoutStructuredEvents *)
Silent(private, official) ==
  (\A id \in Test \cup {Main} : private[id] = <<>>) /\ (\A t \in Test : official[t] = <<>>)

(* classifiedRunStatus: cached is impossible under -count=1 and is left out *)
RunStatus(private, official, runFailed, timedOut, buildFailed) ==
  IF timedOut THEN "timedOut"
  ELSE IF buildFailed THEN "compileError"
  ELSE IF Silent(private, official) /\ runFailed THEN "compileError"
  ELSE IF (Classify(private, official) = "passed") = runFailed THEN "toolError"
  ELSE Classify(private, official)

=============================================================================
