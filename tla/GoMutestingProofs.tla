------------------------- MODULE GoMutestingProofs -------------------------
(* What is proved of the go-mutesting adapter, for any number of candidates    *)
(* and edits, whatever its runners report and whenever its context ends.       *)
EXTENDS GoMutesting, TLAPS

(* The inductive invariant. Both copies are pure until the tests run; a reply  *)
(* is over what its guard saw once the guard was verified; and an error stays  *)
(* until the end, so that none means that nothing has gone wrong so far.       *)

Record == [status : Status, runs : [{1, 2} -> [status : RunnerStatus, over : Copies]]]

TypeInv ==
    /\ project \in 0..MaxEdits /\ step \in Step /\ context \in {"Live", "Expired", "Cancelled"}
    /\ error \in Error /\ limited \in BOOLEAN /\ template \in 0..MaxEdits /\ target \in 0..Candidates
    /\ work \in Copies /\ guard \in Copies
    /\ replies \in Seq(Report) /\ records \in Seq(Record)

CopyInv ==
    /\ step = "Apply" => work = Pure(Control)
    /\ step = "Guard" => work = Pure(target)
    /\ step \in {"Tests", "Returned", "CloseGuard"} => guard = Pure(target)

InLimit(r) == r.status = "timedOut" => target # Control /\ limited
Good(r)    == r.input = Pure(target) /\ r.over = Pure(target)

\* The last reply, while its guard is still to be verified.
Unverified(i) == step = "CloseGuard" /\ i = Len(replies)

ReplyInv ==
    /\ step = "Returned" /\ error = None =>
          reply \in Report /\ reply.over = work /\ reply.input = guard /\ InLimit(reply)
    /\ \A i \in DOMAIN replies : InLimit(replies[i])
    /\ error = None => \A i \in DOMAIN replies :
          IF Unverified(i) THEN replies[i].over = work /\ replies[i].input = guard ELSE Good(replies[i])

CountInv ==
    /\ step \in {"Validate", "Template", "Discover"} => replies = <<>> /\ records = <<>>
    /\ step \in {"Fresh", "Apply", "Guard", "Tests", "Returned"} => Len(replies) < 2
    /\ step \in {"CloseGuard", "CloseWork"} /\ error = None => Len(replies) \in 1..2
    /\ step = "Judge" => Len(replies) = 2
    /\ step \in {"Fresh", "Apply", "Guard", "Tests", "Returned", "CloseGuard", "CloseWork", "Judge"} /\ error = None =>
          Len(records) = IF target = Control THEN 0 ELSE target - 1
    /\ step = "Record" => Len(records) = target
    /\ step \in {"CloseTemplate", "Finalize", "Ended"} /\ error = None => Len(records) = Candidates

ErrorInv ==
    /\ step \in {"Validate", "Template", "Discover", "Fresh", "Apply", "Guard", "Tests", "Judge", "Record"} => error = None
    /\ error = None => left = {}
    /\ step \in {"Finalize", "Ended"} /\ error = None => atClose = template
    /\ step = "Ended" /\ error = None => context = "Live"
    /\ error = "Cancelled" => context = "Cancelled"
    /\ error = "TimedOut" => context = "Expired"
    /\ error = "BaselineFailed" =>
          step \in {"CloseTemplate", "Finalize", "Ended"} /\ Len(replies) = 2 /\ target = Control

RecordInv ==
    \A c \in DOMAIN records :
        /\ records[c].status # "toolError" => \A i \in {1, 2} :
              records[c].runs[i].over = Pure(c) /\ NormalizedStatus(records[c].runs[i].status) = records[c].status
        /\ records[c].status = "timedOut" => limited

GInv == TypeInv /\ CopyInv /\ ReplyInv /\ CountInv /\ ErrorInv /\ RecordInv

-----------------------------------------------------------------------------
\* Appending adds one element at the end.
LEMMA AppendFacts ==
  ASSUME NEW S, NEW s \in Seq(S), NEW e \in S
  PROVE  /\ Append(s, e) \in Seq(S) /\ Len(Append(s, e)) = Len(s) + 1
         /\ DOMAIN Append(s, e) = 1..(Len(s) + 1) /\ DOMAIN s = 1..Len(s) /\ Len(s) \in Nat
         /\ \A i \in 1..Len(s) : Append(s, e)[i] = s[i]
         /\ Append(s, e)[Len(s) + 1] = e
  OBVIOUS

\* Nothing is copied, replied or recorded yet.
LEMMA InitGInv == Init => GInv
<1> SUFFICES ASSUME Init
             PROVE  GInv
  OBVIOUS
<1>1. TypeInv
  BY GoMutestingAssumption DEF Init, TypeInv, Step, Error, None, Control, NoCopy, Copies
<1>2. replies = <<>> /\ records = <<>> /\ Len(replies) = 0 /\ DOMAIN replies = {} /\ DOMAIN records = {}
  BY DEF Init
<1>3. step = "Validate" /\ error = None /\ left = {} /\ None = "none"
  BY DEF Init, None
<1>4. CopyInv /\ ReplyInv /\ CountInv /\ ErrorInv /\ RecordInv
  BY <1>2, <1>3 DEF CopyInv, ReplyInv, CountInv, ErrorInv, RecordInv
<1> QED
  BY <1>1, <1>4 DEF GInv

\* Steps that touch no copy, no reply and no record, before any exists.
LEMMA OpeningStable == GInv /\ (Validate \/ CreateTemplate \/ DiscoverRequested) => GInv'
<1> SUFFICES ASSUME GInv, Validate \/ CreateTemplate \/ DiscoverRequested
             PROVE  GInv'
  OBVIOUS
<1> USE DEF None, GoTo
<1>1. /\ step \in {"Validate", "Template", "Discover"}
      /\ replies = <<>> /\ records = <<>> /\ replies' = <<>> /\ records' = <<>> /\ error = None /\ left = {}
  BY DEF Validate, CreateTemplate, DiscoverRequested, GInv, CountInv, ErrorInv
<1>2. DOMAIN replies' = {} /\ DOMAIN records' = {} /\ Len(replies') = 0 /\ Len(records') = 0
  BY <1>1
<1>3. \/ step' \in {"Template", "Discover", "Fresh"} /\ error' = None /\ left' = left
      \/ step' \in {"Ended", "CloseTemplate"} /\ error' \in Error \ {None, "BaselineFailed"}
         /\ (error' = "Cancelled" => context = "Cancelled") /\ (error' = "TimedOut" => context = "Expired")
  BY DEF Validate, CreateTemplate, DiscoverRequested, CreateRefused, CheckContext, GInv, TypeInv, Error
<1>4. /\ UNCHANGED <<project, context, limited, work, guard>>
      /\ template' \in {template, project} /\ target' \in {target, Control}
      /\ step' = "Fresh" => target' = Control
  BY DEF Validate, CreateTemplate, DiscoverRequested, CreateRefused
<1>5. TypeInv'
  BY <1>1, <1>3, <1>4, GoMutestingAssumption DEF GInv, TypeInv, Step, Error, Control
<1>6. CopyInv' /\ ReplyInv' /\ RecordInv'
  BY <1>2, <1>3 DEF CopyInv, ReplyInv, RecordInv
<1>7. CountInv'
  BY <1>1, <1>2, <1>3, <1>4 DEF CountInv
<1>8. ErrorInv'
  BY <1>1, <1>3, <1>4 DEF ErrorInv
<1> QED
  BY <1>5, <1>6, <1>7, <1>8 DEF GInv

\* A fresh copy is the template, the candidate is applied to it, and the guard
\* is taken of it before any test runs.
LEMMA CopyingStable == GInv /\ (RunFresh \/ Apply \/ CreateGuard) => GInv'
<1> SUFFICES ASSUME GInv, RunFresh \/ Apply \/ CreateGuard
             PROVE  GInv'
  OBVIOUS
<1> USE DEF None, GoTo
<1>1. /\ step \in {"Fresh", "Apply", "Guard"} /\ error = None /\ left = {}
      /\ UNCHANGED <<project, context, limited, template, target, replies, records>>
  BY DEF RunFresh, Apply, CreateGuard, GInv, ErrorInv
<1>2. \/ step' \in {"Apply", "Guard", "Tests"} /\ error' = None /\ left' = left
      \/ step' \in {"CloseWork", "CloseTemplate"} /\ error' \in Error \ {None, "BaselineFailed"}
         /\ (error' = "Cancelled" => context = "Cancelled") /\ (error' = "TimedOut" => context = "Expired")
  BY DEF RunFresh, Apply, CreateGuard, CreateRefused, CheckContext, GInv, TypeInv, Error, ErrorInv
<1>3. work' \in Copies /\ guard' \in Copies
  <2>1. Pure(Control) \in Copies
    BY GoMutestingAssumption DEF Pure, Copies, Control, GInv, TypeInv
  <2>2. [work EXCEPT !.mutant = target] \in Copies
    BY DEF Copies, GInv, TypeInv
  <2>3. work' \in {work, Pure(Control), [work EXCEPT !.mutant = target]} /\ guard' \in {guard, work}
    BY DEF RunFresh, Apply, CreateGuard, CreateRefused
  <2> QED
    BY <2>1, <2>2, <2>3 DEF GInv, TypeInv
<1>4. TypeInv'
  BY <1>1, <1>2, <1>3 DEF GInv, TypeInv, Step, Error
<1>5. CopyInv'
  <2>1. step' = "Apply" => work' = Pure(Control)'
    BY <1>1 DEF RunFresh, Apply, CreateGuard, CreateRefused, Pure, Control
  <2>2. step' = "Guard" => work' = Pure(target)'
    <3>1. step' = "Guard" => step = "Apply" /\ work' = [work EXCEPT !.mutant = target]
      BY <1>1 DEF RunFresh, Apply, CreateGuard, CreateRefused
    <3>2. step = "Apply" => work = Pure(Control)
      BY DEF GInv, CopyInv
    <3> QED
      BY <1>1, <3>1, <3>2 DEF Pure
  <2>3. step' = "Tests" => guard' = Pure(target)'
    <3>1. step' = "Tests" => step = "Guard" /\ guard' = work
      BY <1>1 DEF RunFresh, Apply, CreateGuard, CreateRefused
    <3>2. step = "Guard" => work = Pure(target)
      BY DEF GInv, CopyInv
    <3> QED
      BY <1>1, <3>1, <3>2 DEF Pure
  <2> QED
    BY <1>2, <2>1, <2>2, <2>3 DEF CopyInv
<1>6. ReplyInv'
  BY <1>1, <1>2 DEF GInv, ReplyInv, InLimit, Good, Unverified, Pure
<1>7. CountInv'
  BY <1>1, <1>2 DEF GInv, CountInv
<1>8. ErrorInv'
  BY <1>1, <1>2 DEF GInv, ErrorInv
<1>9. RecordInv'
  BY <1>1 DEF GInv, RecordInv, Pure
<1> QED
  BY <1>4, <1>5, <1>6, <1>7, <1>8, <1>9 DEF GInv

\* The tests may spoil the copy, but not after their runner has returned.
LEMMA TestsStable == GInv /\ (RunnerReports \/ RunnerFails \/ TestsWrite) => GInv'
<1> SUFFICES ASSUME GInv, RunnerReports \/ RunnerFails \/ TestsWrite
             PROVE  GInv'
  OBVIOUS
<1> USE DEF None
<1>1. /\ step = "Tests" /\ error = None /\ step' \in {"Tests", "Returned"}
      /\ UNCHANGED <<project, context, limited, template, target, guard, replies, records, left, atClose>>
  BY DEF RunnerReports, RunnerFails, TestsWrite, GInv, ErrorInv
<1>2. error' = None \/ (error' = "RunnerFailed" /\ step' = "Returned")
  BY <1>1 DEF RunnerReports, RunnerFails, TestsWrite
<1>2a. step' = "Tests" => error' = None
  BY <1>1, <1>2
<1>3. work' \in Copies
  BY DEF RunnerReports, RunnerFails, TestsWrite, GInv, TypeInv, Copies
<1>4. TypeInv'
  BY <1>1, <1>2, <1>3 DEF GInv, TypeInv, Step, Error
<1>5. CopyInv'
  BY <1>1 DEF GInv, CopyInv, Pure
<1>6. step' = "Returned" /\ error' = None =>
         reply' \in Report /\ reply'.over = work' /\ reply'.input = guard' /\ InLimit(reply)'
  <2> SUFFICES ASSUME step' = "Returned", error' = None
               PROVE  reply' \in Report /\ reply'.over = work' /\ reply'.input = guard' /\ InLimit(reply)'
    OBVIOUS
  <2>1. RunnerReports
    BY <1>1 DEF RunnerFails, TestsWrite
  <2>2. PICK s \in RunnerStatus, r \in Replay :
           /\ s = "timedOut" => OwnLimit
           /\ reply' = [status |-> s, replay |-> r, input |-> guard, over |-> work]
    BY <2>1 DEF RunnerReports
  <2>3. work' = work
    BY <2>1 DEF RunnerReports
  <2>4. reply' \in Report
    BY <2>2 DEF Report, GInv, TypeInv
  <2> QED
    BY <1>1, <2>2, <2>3, <2>4 DEF InLimit, OwnLimit
<1>7. ReplyInv'
  BY <1>1, <1>2, <1>6 DEF GInv, ReplyInv, InLimit, Good, Unverified, Pure
<1>8. CountInv'
  BY <1>1, <1>2 DEF GInv, CountInv
<1>9. ErrorInv'
  BY <1>1, <1>2, <1>2a DEF GInv, ErrorInv
<1>10. RecordInv'
  BY <1>1 DEF GInv, RecordInv, Pure
<1> QED
  BY <1>4, <1>5, <1>7, <1>8, <1>9, <1>10 DEF GInv

\* A reply is kept where no error and no end of the context came with it.
LEMMA ReturnedStable == GInv /\ RunnerReturned => GInv'
<1> SUFFICES ASSUME GInv, RunnerReturned
             PROVE  GInv'
  OBVIOUS
<1> USE DEF None
<1>1. /\ step = "Returned" /\ step' = "CloseGuard"
      /\ error' = IF CheckContext # None THEN CheckContext ELSE error
      /\ replies' = IF error' = None THEN Append(replies, reply) ELSE replies
      /\ UNCHANGED <<project, context, limited, template, target, work, guard, records, left, atClose>>
  BY DEF RunnerReturned, GoTo
<1>2. CheckContext \in {None, "TimedOut", "Cancelled"} /\ (CheckContext = "TimedOut" => context = "Expired")
      /\ (CheckContext = "Cancelled" => context = "Cancelled")
  BY DEF CheckContext, GInv, TypeInv
<1>3. error' = None => error = None
  BY <1>1, <1>2
<1>4. error' \in Error /\ error' # "BaselineFailed"
  BY <1>1, <1>2 DEF Error, GInv, TypeInv, ErrorInv
<1>5. error' = None => reply \in Report /\ reply.over = work /\ reply.input = guard /\ InLimit(reply)
  BY <1>1, <1>3 DEF GInv, ReplyInv
<1>6. replies \in Seq(Report)
  BY DEF GInv, TypeInv
<1>7. CASE error' = None
  <2>1. /\ replies' \in Seq(Report) /\ Len(replies') = Len(replies) + 1
        /\ DOMAIN replies' = 1..(Len(replies) + 1) /\ DOMAIN replies = 1..Len(replies) /\ Len(replies) \in Nat
        /\ \A i \in 1..Len(replies) : replies'[i] = replies[i]
        /\ replies'[Len(replies) + 1] = reply
    BY <1>1, <1>5, <1>6, <1>7, AppendFacts
  <2>2. TypeInv'
    BY <1>1, <1>4, <2>1 DEF GInv, TypeInv, Step
  <2>3. CopyInv'
    BY <1>1 DEF GInv, CopyInv, Pure
  <2>4. \A i \in DOMAIN replies : InLimit(replies[i])' /\ Good(replies[i])'
    <3>1. \A i \in DOMAIN replies : InLimit(replies[i]) /\ Good(replies[i])
      BY <1>1, <1>3, <1>7 DEF GInv, ReplyInv, Unverified
    <3> QED
      BY <1>1, <2>1, <3>1 DEF InLimit, Good, Pure
  <2>5. (replies'[Len(replies) + 1].status = "timedOut" => target' # Control /\ limited') /\ replies'[Len(replies) + 1].over = work'
        /\ replies'[Len(replies) + 1].input = guard'
    BY <1>1, <1>5, <1>7, <2>1 DEF InLimit, Control
  <2>6. ReplyInv'
    <3>1. \A i \in DOMAIN replies' : i \in DOMAIN replies \/ i = Len(replies) + 1
      BY <2>1
    <3>2. \A i \in DOMAIN replies' : InLimit(replies[i])'
      BY <2>1, <2>4, <2>5, <3>1 DEF InLimit, Control
    <3>3. \A i \in DOMAIN replies' : IF i = Len(replies') THEN replies'[i].over = work' /\ replies'[i].input = guard'
                                     ELSE Good(replies[i])'
      BY <2>1, <2>4, <2>5, <3>1
    <3>4. \A i \in DOMAIN replies' : Unverified(i)' <=> i = Len(replies')
      BY <1>1 DEF Unverified
    <3> QED
      BY <1>1, <3>2, <3>3, <3>4 DEF ReplyInv
  <2>7. CountInv'
    BY <1>1, <1>3, <1>7, <2>1 DEF GInv, CountInv
  <2>8. ErrorInv'
    BY <1>1, <1>3, <1>7 DEF GInv, ErrorInv
  <2>9. RecordInv'
    BY <1>1 DEF GInv, RecordInv, Pure
  <2> QED
    BY <2>2, <2>3, <2>6, <2>7, <2>8, <2>9 DEF GInv
<1>8. CASE error' # None
  <2>1. replies' = replies
    BY <1>1, <1>8
  <2>2. TypeInv'
    BY <1>1, <1>4, <2>1 DEF GInv, TypeInv, Step
  <2>3. CopyInv' /\ RecordInv'
    BY <1>1 DEF GInv, CopyInv, RecordInv, Pure
  <2>4. ReplyInv'
    BY <1>1, <1>8, <2>1 DEF GInv, ReplyInv, InLimit
  <2>5. CountInv'
    BY <1>1, <1>8, <2>1 DEF GInv, CountInv
  <2>6. ErrorInv'
    BY <1>1, <1>2, <1>4, <1>8 DEF GInv, ErrorInv
  <2> QED
    BY <2>2, <2>3, <2>4, <2>5, <2>6 DEF GInv
<1> QED
  BY <1>7, <1>8

\* Closing a snapshot never makes an error go away, and where it adds none the
\* snapshot was unchanged and is removed.
LEMMA FinishFacts ==
  ASSUME NEW name, NEW STATE unchanged, unchanged \in BOOLEAN, FinishSnapshot(name, unchanged)
  PROVE  /\ error' \in {error, "SourceChanged", "CleanupFailed"}
         /\ error' = None => error = None /\ unchanged /\ left' = left
<1>1. PICK verified \in {unchanged, FALSE}, removed \in BOOLEAN :
        /\ left' = IF removed THEN left ELSE left \cup {name}
        /\ error' = IF ~removed THEN "CleanupFailed"
                    ELSE IF ~verified THEN "SourceChanged" ELSE error
  BY DEF FinishSnapshot
<1>2. CASE ~removed
  BY <1>1, <1>2 DEF None
<1>3. CASE removed /\ ~verified
  BY <1>1, <1>3 DEF None
<1>4. CASE removed /\ verified
  <2>1. unchanged
    BY <1>1, <1>4
  <2> QED
    BY <1>1, <1>4, <2>1
<1> QED
  BY <1>1, <1>2, <1>3, <1>4

\* A reply whose guard was verified is over the pure copy.
LEMMA CloseGuardStable == GInv /\ CloseGuard => GInv'
<1> SUFFICES ASSUME GInv, CloseGuard
             PROVE  GInv'
  OBVIOUS
<1>1. /\ step = "CloseGuard" /\ step' = "CloseWork"
      /\ UNCHANGED <<project, context, limited, template, target, work, guard, reply, replies, records, atClose>>
  BY DEF CloseGuard
<1>2. /\ error' \in {error, "SourceChanged", "CleanupFailed"}
      /\ error' = None => error = None /\ work = guard /\ left' = left
  <2>1. FinishSnapshot("guard", work = guard) /\ (work = guard) \in BOOLEAN
    BY DEF CloseGuard
  <2> QED
    BY <2>1, FinishFacts
<1> USE DEF None
<1>3. TypeInv'
  BY <1>1, <1>2 DEF GInv, TypeInv, Step, Error
<1>4. CopyInv' /\ RecordInv'
  BY <1>1 DEF GInv, CopyInv, RecordInv, Pure
<1>5. ReplyInv'
  <2>1. \A i \in DOMAIN replies : InLimit(replies[i])'
    BY <1>1 DEF GInv, ReplyInv, InLimit
  <2>2. error' = None => \A i \in DOMAIN replies : Good(replies[i])'
    <3>1. error' = None => \A i \in DOMAIN replies : Good(replies[i])
      BY <1>1, <1>2 DEF GInv, ReplyInv, CopyInv, Unverified, Good
    <3> QED
      BY <1>1, <3>1 DEF Good, Pure
  <2> QED
    BY <1>1, <2>1, <2>2 DEF ReplyInv, Unverified
<1>6. CountInv'
  BY <1>1, <1>2 DEF GInv, CountInv
<1>7. ErrorInv'
  BY <1>1, <1>2 DEF GInv, ErrorInv
<1> QED
  BY <1>3, <1>4, <1>5, <1>6, <1>7 DEF GInv

\* The copy is gone; after an error so are the replies and the records.
LEMMA CloseWorkStable == GInv /\ CloseWork => GInv'
<1> SUFFICES ASSUME GInv, CloseWork
             PROVE  GInv'
  OBVIOUS
<1>1. /\ step = "CloseWork"
      /\ step' = IF error' # None THEN "CloseTemplate" ELSE IF Len(replies) < 2 THEN "Fresh" ELSE "Judge"
      /\ work' = NoCopy /\ guard' = NoCopy
      /\ IF error' = None THEN UNCHANGED <<replies, records>> ELSE replies' = <<>> /\ records' = <<>>
      /\ UNCHANGED <<project, context, limited, template, target, reply, control, atClose>>
  BY DEF CloseWork
<1>2. /\ error' \in {error, "SourceChanged", "CleanupFailed"}
      /\ error' = None => error = None /\ left' = left
  <2>1. FinishSnapshot("work", TRUE)
    BY DEF CloseWork
  <2> QED
    BY <2>1, FinishFacts
<1>3. NoCopy \in Copies
  BY GoMutestingAssumption DEF NoCopy, Copies
<1> USE DEF None
<1>4. CASE error' = None
  <2>1. replies' = replies /\ records' = records /\ error = None /\ step' \in {"Fresh", "Judge"}
    BY <1>1, <1>2, <1>4
  <2>2. TypeInv'
    BY <1>1, <1>2, <1>3, <2>1 DEF GInv, TypeInv, Step, Error
  <2>3. CopyInv' /\ RecordInv'
    BY <1>1, <2>1 DEF GInv, CopyInv, RecordInv, Pure
  <2>4. ReplyInv'
    BY <1>1, <1>4, <2>1 DEF GInv, ReplyInv, InLimit, Good, Unverified, Pure
  <2>5. CountInv'
    <3>1. Len(replies) \in 1..2 /\ Len(records) = IF target = Control THEN 0 ELSE target - 1
      BY <1>1, <2>1 DEF GInv, CountInv
    <3>2. step' = IF Len(replies) < 2 THEN "Fresh" ELSE "Judge"
      BY <1>1, <1>4
    <3> QED
      <4>1. /\ step' = "Fresh" => Len(replies') < 2
            /\ step' = "Judge" => Len(replies') = 2
            /\ Len(records') = IF target' = Control THEN 0 ELSE target' - 1
        BY <1>1, <2>1, <3>1, <3>2 DEF Control
      <4> QED
        BY <2>1, <4>1 DEF CountInv, Control
  <2>6. ErrorInv'
    BY <1>1, <1>2, <1>4, <2>1 DEF GInv, ErrorInv
  <2> QED
    BY <2>2, <2>3, <2>4, <2>5, <2>6 DEF GInv
<1>5. CASE error' # None
  <2>1. replies' = <<>> /\ records' = <<>> /\ step' = "CloseTemplate" /\ DOMAIN replies' = {} /\ DOMAIN records' = {}
    BY <1>1, <1>5
  <2>2. TypeInv'
    BY <1>1, <1>2, <1>3, <2>1 DEF GInv, TypeInv, Step, Error
  <2>3. CopyInv' /\ RecordInv' /\ ReplyInv' /\ CountInv'
    BY <1>5, <2>1 DEF CopyInv, RecordInv, ReplyInv, CountInv
  <2>4. ErrorInv'
    BY <1>1, <1>2, <1>5, <2>1 DEF GInv, ErrorInv
  <2> QED
    BY <2>2, <2>3, <2>4 DEF GInv
<1> QED
  BY <1>4, <1>5

\* The controls are judged: a failed baseline is no limit that a control ran into.
LEMMA JudgeControlsStable == GInv /\ JudgeControls => GInv'
<1> SUFFICES ASSUME GInv, JudgeControls
             PROVE  GInv'
  OBVIOUS
<1> USE DEF None, GoTo
<1>1. /\ step = "Judge" /\ target = Control /\ error = None /\ Len(replies) = 2
      /\ UNCHANGED <<project, context, limited, template, target, work, guard, reply, replies, records, left, atClose>>
  BY DEF JudgeControls, GInv, ErrorInv, CountInv
<1>2. \/ step' = "CloseTemplate" /\ error' \in {"BaselineFailed", "ControlSourceMismatch"}
      \/ step' = "Record" /\ error' = None
  BY <1>1 DEF JudgeControls
<1>3. TypeInv'
  BY <1>1, <1>2 DEF GInv, TypeInv, Step, Error
<1>4. CopyInv' /\ RecordInv'
  BY <1>1, <1>2 DEF GInv, CopyInv, RecordInv, Pure
<1>5. ReplyInv'
  BY <1>1, <1>2 DEF GInv, ReplyInv, InLimit, Good, Unverified, Pure
<1>6. CountInv'
  BY <1>1, <1>2 DEF GInv, CountInv, Control
<1>7. ErrorInv'
  BY <1>1, <1>2 DEF GInv, ErrorInv
<1> QED
  BY <1>3, <1>4, <1>5, <1>6, <1>7 DEF GInv

\* A verdict needs two good replies that agree.
LEMMA JudgeCandidateStable == GInv /\ JudgeCandidate => GInv'
<1> SUFFICES ASSUME GInv, JudgeCandidate
             PROVE  GInv'
  OBVIOUS
<1> USE DEF None
<1> DEFINE verdict == IF /\ SameTestInventory(control, replies[1])
                         /\ SameTestInventory(control, replies[2])
                      THEN Classify(replies[1], replies[2]) ELSE "toolError"
           new == [status |-> verdict,
                   runs |-> [i \in {1, 2} |-> [status |-> replies[i].status, over |-> replies[i].over]]]
<1>1. /\ step = "Judge" /\ target # Control /\ error = None /\ Len(replies) = 2 /\ step' = "Record"
      /\ records' = Append(records, new)
      /\ UNCHANGED <<project, context, error, limited, template, target, work, guard, reply, replies, left, atClose>>
  BY DEF JudgeCandidate, GInv, ErrorInv, CountInv
<1>2. replies \in Seq(Report) /\ records \in Seq(Record) /\ target \in 0..Candidates
  BY DEF GInv, TypeInv
<1>3. replies[1] \in Report /\ replies[2] \in Report /\ 1 \in DOMAIN replies /\ 2 \in DOMAIN replies
  <2> HIDE DEF verdict, new
  <2>1. DOMAIN replies = 1..2
    BY <1>1, <1>2
  <2> QED
    BY <1>2, <2>1
<1>4. \A i \in {1, 2} : Good(replies[i]) /\ InLimit(replies[i])
  BY <1>1, <1>3 DEF GInv, ReplyInv, Unverified
<1>5. verdict # "toolError" => \A i \in {1, 2} : NormalizedStatus(replies[i].status) = verdict
  BY DEF Classify, ConsistentReplays
<1>6. verdict \in Status
  <2>1. replies[1].status \in RunnerStatus
    BY <1>3 DEF Report
  <2>2. NormalizedStatus(replies[1].status) \in Status
    BY <2>1, GoMutestingAssumption DEF NormalizedStatus, Status
  <2> QED
    BY <2>2 DEF Classify, Status
<1>7. verdict = "timedOut" => limited
  <2>1. verdict = "timedOut" => NormalizedStatus(replies[1].status) = "timedOut"
    BY <1>5
  <2>2. replies[1].status \in RunnerStatus
    BY <1>3 DEF Report
  <2>3. NormalizedStatus(replies[1].status) = "timedOut" => replies[1].status = "timedOut"
    BY <2>2, GoMutestingAssumption DEF NormalizedStatus
  <2> QED
    BY <1>4, <2>1, <2>3 DEF InLimit
<1> HIDE DEF verdict
<1>8. new \in Record
  <2>1. \A i \in {1, 2} : [status |-> replies[i].status, over |-> replies[i].over] \in [status : RunnerStatus, over : Copies]
    BY <1>3 DEF Report
  <2> QED
    BY <1>6, <2>1 DEF Record
<1>9. /\ new.status = verdict
      /\ \A i \in {1, 2} : new.runs[i].over = replies[i].over /\ new.runs[i].status = replies[i].status
  OBVIOUS
<1>10. /\ new.status # "toolError" => \A i \in {1, 2} :
             new.runs[i].over = Pure(target) /\ NormalizedStatus(new.runs[i].status) = new.status
       /\ new.status = "timedOut" => limited
  BY <1>4, <1>5, <1>7, <1>9 DEF Good
<1> HIDE DEF new
<1>11. /\ records' \in Seq(Record) /\ Len(records') = Len(records) + 1
       /\ DOMAIN records' = 1..(Len(records) + 1) /\ DOMAIN records = 1..Len(records) /\ Len(records) \in Nat
       /\ \A i \in 1..Len(records) : records'[i] = records[i]
       /\ records'[Len(records) + 1] = new
  BY <1>1, <1>2, <1>8, AppendFacts
<1>12. Len(records) + 1 = target
  BY <1>1, <1>2 DEF GInv, CountInv, Control
<1>13. TypeInv'
  BY <1>1, <1>11 DEF GInv, TypeInv, Step
<1>14. CopyInv'
  BY <1>1 DEF GInv, CopyInv, Pure
<1>15. ReplyInv'
  BY <1>1 DEF GInv, ReplyInv, InLimit, Good, Unverified, Pure
<1>16. CountInv'
  BY <1>1, <1>11, <1>12 DEF GInv, CountInv
<1>17. ErrorInv'
  BY <1>1 DEF GInv, ErrorInv
<1>18. RecordInv'
  <2> SUFFICES ASSUME NEW c \in DOMAIN records'
               PROVE  /\ records'[c].status # "toolError" => \A i \in {1, 2} :
                            records'[c].runs[i].over = Pure(c)'
                            /\ NormalizedStatus(records'[c].runs[i].status) = records'[c].status
                      /\ records'[c].status = "timedOut" => limited'
    BY DEF RecordInv
  <2>1. CASE c \in DOMAIN records
    <3>1. records'[c] = records[c]
      BY <1>11, <2>1
    <3>2. Pure(c)' = Pure(c) /\ limited' = limited
      BY <1>1 DEF Pure
    <3> QED
      BY <2>1, <3>1, <3>2 DEF GInv, RecordInv
  <2>2. CASE c = Len(records) + 1
    <3>1. records'[c] = new /\ c = target
      BY <1>11, <1>12, <2>2
    <3>2. Pure(c)' = Pure(target) /\ limited' = limited
      BY <1>1, <3>1 DEF Pure
    <3> QED
      BY <1>10, <3>1, <3>2
  <2> QED
    BY <1>11, <2>1, <2>2
<1> QED
  BY <1>13, <1>14, <1>15, <1>16, <1>17, <1>18 DEF GInv

\* The next target starts without replies, or all have been recorded.
LEMMA NextTargetStable == GInv /\ NextTarget => GInv'
<1> SUFFICES ASSUME GInv, NextTarget
             PROVE  GInv'
  OBVIOUS
<1> USE DEF None, GoTo
<1>1. /\ step = "Record" /\ error = None /\ left = {} /\ Len(records) = target /\ target \in 0..Candidates
      /\ replies' = <<>> /\ DOMAIN replies' = {} /\ Len(replies') = 0
      /\ UNCHANGED <<project, context, limited, template, work, guard, reply, control, records, left, atClose>>
  BY DEF NextTarget, GInv, ErrorInv, CountInv, TypeInv
<1>2. CheckContext \in {None, "TimedOut", "Cancelled"} /\ (CheckContext = "TimedOut" => context = "Expired")
      /\ (CheckContext = "Cancelled" => context = "Cancelled")
  BY DEF CheckContext, GInv, TypeInv
<1>3. \/ target < Candidates /\ target' = target + 1 /\ step' = "Fresh" /\ error' = None
      \/ target = Candidates /\ target' = target /\ step' = "CloseTemplate" /\ error' = CheckContext
  BY <1>1, GoMutestingAssumption DEF NextTarget
<1>4. TypeInv'
  BY <1>1, <1>2, <1>3, GoMutestingAssumption DEF GInv, TypeInv, Step, Error
<1>5. CopyInv' /\ ReplyInv'
  BY <1>1, <1>3 DEF CopyInv, ReplyInv
<1>6. RecordInv'
  BY <1>1 DEF GInv, RecordInv, Pure
<1>7. CountInv'
  BY <1>1, <1>3, GoMutestingAssumption DEF GInv, CountInv, Control
<1>8. ErrorInv'
  BY <1>1, <1>2, <1>3 DEF GInv, ErrorInv
<1> QED
  BY <1>4, <1>5, <1>6, <1>7, <1>8 DEF GInv

\* The template is verified against the project as it is then.
LEMMA ClosingStable == GInv /\ (CloseTemplate \/ FinalizeRun) => GInv'
<1> SUFFICES ASSUME GInv, CloseTemplate \/ FinalizeRun
             PROVE  GInv'
  OBVIOUS
<1>1. CASE CloseTemplate
  <2>1. /\ step = "CloseTemplate" /\ step' = "Finalize" /\ atClose' = project
        /\ UNCHANGED <<project, context, limited, template, target, work, guard, reply, replies, records>>
    BY <1>1 DEF CloseTemplate
  <2>2. /\ error' \in {error, "SourceChanged", "CleanupFailed"}
        /\ error' = None => error = None /\ project = template /\ left' = left
    <3>1. FinishSnapshot("template", project = template) /\ (project = template) \in BOOLEAN
      BY <1>1 DEF CloseTemplate
    <3> QED
      BY <3>1, FinishFacts
  <2> USE DEF None
  <2>3. TypeInv'
    BY <2>1, <2>2 DEF GInv, TypeInv, Step, Error
  <2>4. CopyInv' /\ RecordInv'
    BY <2>1 DEF GInv, CopyInv, RecordInv, Pure
  <2>5. ReplyInv'
    BY <2>1, <2>2 DEF GInv, ReplyInv, InLimit, Good, Unverified, Pure
  <2>6. CountInv'
    BY <2>1, <2>2 DEF GInv, CountInv
  <2>7. ErrorInv'
    BY <2>1, <2>2 DEF GInv, ErrorInv
  <2> QED
    BY <2>3, <2>4, <2>5, <2>6, <2>7 DEF GInv
<1>2. CASE FinalizeRun
  <2> USE DEF None, GoTo
  <2>1. /\ step = "Finalize" /\ step' = "Ended" /\ error' = IF error = None THEN CheckContext ELSE error
        /\ records' = IF error' # None THEN <<>> ELSE records
        /\ UNCHANGED <<project, context, limited, template, target, work, guard, reply, replies, left, atClose>>
    BY <1>2 DEF FinalizeRun
  <2>2. CheckContext \in {None, "TimedOut", "Cancelled"} /\ (CheckContext = "TimedOut" => context = "Expired")
        /\ (CheckContext = "Cancelled" => context = "Cancelled") /\ (CheckContext = None => context = "Live")
    BY DEF CheckContext, GInv, TypeInv
  <2>3. TypeInv'
    <3>1. records' \in Seq(Record) /\ error' \in Error
      BY <2>1, <2>2 DEF GInv, TypeInv, Error
    <3> QED
      BY <2>1, <3>1 DEF GInv, TypeInv, Step
  <2>4. RecordInv'
    <3>1. CASE records' = records
      BY <2>1, <3>1 DEF GInv, RecordInv, Pure
    <3>2. CASE records' = <<>>
      BY <3>2 DEF RecordInv
    <3> QED
      BY <2>1, <3>1, <3>2
  <2>5. CopyInv'
    BY <2>1 DEF CopyInv
  <2>6. ReplyInv'
    BY <2>1, <2>2 DEF GInv, ReplyInv, InLimit, Good, Unverified, Pure
  <2>7. CountInv'
    BY <2>1, <2>2 DEF GInv, CountInv
  <2>8. ErrorInv'
    BY <2>1, <2>2 DEF GInv, ErrorInv
  <2> QED
    BY <2>3, <2>4, <2>5, <2>6, <2>7, <2>8 DEF GInv
<1> QED
  BY <1>1, <1>2

\* An edit moves the project only, and the context ends once.
LEMMA SurroundingsStable == GInv /\ (Edit \/ Expire \/ Cancel \/ UNCHANGED vars) => GInv'
<1> SUFFICES ASSUME GInv, Edit \/ Expire \/ Cancel \/ UNCHANGED vars
             PROVE  GInv'
  OBVIOUS
<1>1. /\ UNCHANGED <<step, error, limited, template, target, work, guard, reply, replies, records, left, atClose>>
      /\ project' \in {project, project + 1} /\ (project' # project => project < MaxEdits)
      /\ context' = context \/ (context = "Live" /\ context' \in {"Expired", "Cancelled"} /\ step # "Ended")
  BY DEF Edit, Expire, Cancel, ContextEnds, vars
<1>2. TypeInv'
  BY <1>1, GoMutestingAssumption DEF GInv, TypeInv
<1>3. CopyInv' /\ RecordInv'
  BY <1>1 DEF GInv, CopyInv, RecordInv, Pure
<1>4. ReplyInv'
  BY <1>1 DEF GInv, ReplyInv, InLimit, Good, Unverified, Pure
<1>5. CountInv'
  BY <1>1 DEF GInv, CountInv
<1>6. ErrorInv'
  BY <1>1 DEF GInv, ErrorInv
<1> QED
  BY <1>2, <1>3, <1>4, <1>5, <1>6 DEF GInv

\* The invariant holds of every reachable state.
THEOREM AdapterInvariant == Spec => []GInv
<1>1. Init => GInv
  BY InitGInv
<1>2. GInv /\ [Next]_vars => GInv'
  BY OpeningStable, CopyingStable, TestsStable, ReturnedStable, CloseGuardStable, CloseWorkStable,
     JudgeControlsStable, JudgeCandidateStable, NextTargetStable, ClosingStable, SurroundingsStable
     DEF Next, Run
<1> QED
  BY <1>1, <1>2, PTL DEF Spec

\* VerdictIsEarned: a recorded verdict comes from two runs over the template with
\* this candidate applied and nothing else, that ended alike.
THEOREM VerdictsAreEarned == Spec => []VerdictIsEarned
<1>1. GInv => VerdictIsEarned
  BY DEF GInv, RecordInv, VerdictIsEarned
<1> QED
  BY AdapterInvariant, <1>1, PTL

\* ReportIsCurrent: a report speaks of the project as it was after the last run,
\* leaves no snapshot, and is given only while its context is alive.
THEOREM ReportsAreCurrent == Spec => []ReportIsCurrent
<1>1. GInv => ReportIsCurrent
  BY DEF GInv, CountInv, ErrorInv, ReportIsCurrent, Reported
<1> QED
  BY AdapterInvariant, <1>1, PTL

\* LimitsAreToldApart: exit codes and verdicts name the limit that was met.
THEOREM LimitsApart == Spec => []LimitsAreToldApart
<1>1. GInv => LimitsAreToldApart
  <2> SUFFICES ASSUME GInv
               PROVE  LimitsAreToldApart
    OBVIOUS
  <2>1. error \in Error
    BY DEF GInv, TypeInv
  <2>2. FailureCode(error) = 8 => error = "Cancelled"
    BY <2>1 DEF FailureCode, Error, None
  <2>3. FailureCode(error) = 4 => error = "BaselineFailed"
    BY <2>1 DEF FailureCode, Error, None
  <2>4. error = "BaselineFailed" => \A i \in {1, 2} : replies[i].status # "timedOut"
    <3>1. replies \in Seq(Report)
      BY DEF GInv, TypeInv
    <3>2. error = "BaselineFailed" => Len(replies) = 2 /\ target = Control
      BY DEF GInv, ErrorInv
    <3>3. error = "BaselineFailed" => 1 \in DOMAIN replies /\ 2 \in DOMAIN replies
      BY <3>1, <3>2
    <3> QED
      BY <3>2, <3>3 DEF GInv, ReplyInv, InLimit
  <2> QED
    BY <2>2, <2>3, <2>4 DEF GInv, ErrorInv, RecordInv, LimitsAreToldApart
<1> QED
  BY AdapterInvariant, <1>1, PTL
=============================================================================
