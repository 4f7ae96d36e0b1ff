------------------------ MODULE WorkflowEngineProofs ------------------------
(***************************************************************************)
(* Theorems about WorkflowEngine for every registry, every set of          *)
(* outcomes and every number of overlapping commands; at the end, those    *)
(* for commands that do not overlap.                                       *)
(***************************************************************************)
EXTENDS WorkflowEngine, SequenceTheorems, TLAPS

-----------------------------------------------------------------------------
(* Call stacks.                                                            *)

\* Replacing the top frame keeps a stack a stack; every frame of it is the new
\* one or was there before.
LEMMA ReplacedTop ==
  ASSUME NEW s \in Seq(Frame), s # <<>>, NEW f \in Frame
  PROVE  LET t == [s EXCEPT ![Len(s)] = f]
         IN  /\ t \in Seq(Frame)
             /\ Len(t) = Len(s)
             /\ t[Len(t)] = f
             /\ \A i \in 1..(Len(t) - 1) : t[i] = s[i]
<1>1. Len(s) \in Nat \ {0}
  OBVIOUS
<1> QED
  BY <1>1

\* Returning from a call leaves the frames below the top as they are.
LEMMA PoppedStack ==
  ASSUME NEW s \in Seq(Frame), s # <<>>
  PROVE  LET t == SubSeq(s, 1, Len(s) - 1)
         IN  /\ t \in Seq(Frame)
             /\ Len(t) = Len(s) - 1
             /\ \A i \in 1..Len(t) : t[i] = s[i]
<1>1. Len(s) \in Nat \ {0}
  BY EmptySeq
<1>2. PICK n \in Nat : n = Len(s) - 1
  BY <1>1
<1>3. \A i \in 1..n : s[i] \in Frame
  BY <1>1, <1>2, ElementOfSeq
<1>4. /\ SubSeq(s, 1, n) \in Seq(Frame)
      /\ Len(SubSeq(s, 1, n)) = IF 1 <= n THEN n - 1 + 1 ELSE 0
      /\ \A i \in 1..(n - 1 + 1) : SubSeq(s, 1, n)[i] = s[1 + i - 1]
  BY <1>3, SubSeqProperties
<1>5. Len(SubSeq(s, 1, n)) = n
  BY <1>4
<1>6. \A i \in 1..n : SubSeq(s, 1, n)[i] = s[i]
  <2>1. n - 1 + 1 = n /\ \A i \in 1..n : 1 + i - 1 = i
    OBVIOUS
  <2> QED
    BY <1>4, <2>1
<1> QED
  BY <1>2, <1>4, <1>5, <1>6

\* A call adds one frame above the others.
LEMMA PushedStack ==
  ASSUME NEW s \in Seq(Frame), NEW f \in Frame
  PROVE  LET t == Append(s, f)
         IN  /\ t \in Seq(Frame)
             /\ Len(t) = Len(s) + 1
             /\ t[Len(t)] = f
             /\ \A i \in 1..Len(s) : t[i] = s[i]
  BY AppendProperties, LenProperties

\* A call starts from a frame.
LEMMA FreshFrameType == \A w \in Workflow : FreshFrame(w) \in Frame
  BY DEF FreshFrame, Frame, Stage

\* A frame whose loop goes on with the next dependency.
LEMMA AdvancedFrame ==
  ASSUME NEW f \in Frame
  PROVE  [f EXCEPT !.stage = "materialize", !.next = @ + 1] \in Frame
<1>1. f.next + 1 \in Nat \ {0} /\ "materialize" \in Stage
  BY DEF Frame, Stage
<1> QED
  BY <1>1 DEF Frame

\* A running process has a top frame.
LEMMA TopType ==
  ASSUME TypeOK, NEW p \in Process, Running(p)
  PROVE  /\ frames[p] \in Seq(Frame)
         /\ Depth(p) \in Nat \ {0}
         /\ Top(p) \in Frame
         /\ Top(p).wf \in Workflow
         /\ Top(p).next \in Nat \ {0}
<1>1. frames[p] \in Seq(Frame) /\ frames[p] # <<>>
  BY DEF TypeOK, Running
<1>2. Depth(p) \in Nat \ {0}
  BY <1>1, EmptySeq DEF Depth
<1>3. Top(p) \in Frame
  BY <1>1, <1>2, ElementOfSeq DEF Depth, Top
<1> QED
  BY <1>1, <1>2, <1>3 DEF Frame

\* Inside the loop, the next dependency is a workflow.
LEMMA NextDependencyType ==
  ASSUME TypeOK, NEW p \in Process, Running(p), MoreDependencies(p)
  PROVE  /\ Top(p).next \in DOMAIN Dependencies[Top(p).wf]
         /\ NextDependency(p) \in Workflow
<1>1. Dependencies[Top(p).wf] \in Seq(Workflow)
  BY TopType, EngineAssumption
<1>2. Top(p).next \in 1..Len(Dependencies[Top(p).wf])
  BY <1>1, TopType DEF MoreDependencies
<1> QED
  BY <1>1, <1>2, ElementOfSeq, LenProperties DEF NextDependency

-----------------------------------------------------------------------------
(* Type correctness.                                                       *)

\* Every step keeps the types.
LEMMA TypeStep == TypeOK /\ [Next]_vars => TypeOK'
<1> SUFFICES ASSUME TypeOK, [Next]_vars PROVE TypeOK'
  OBVIOUS
<1>1. ASSUME NEW p \in Process, NEW w \in Workflow, Command(p, w)
      PROVE  TypeOK'
  <2>1. <<FreshFrame(w)>> \in Seq(Frame)
    BY FreshFrameType
  <2> QED
    BY <1>1, <2>1 DEF TypeOK, Command
<1>2. ASSUME NEW p \in Process, SkipCompleted(p)
      PROVE  TypeOK'
  <2>1. [Top(p) EXCEPT !.next = @ + 1] \in Frame
    BY <1>2, TopType DEF SkipCompleted, Frame
  <2>2. WithTop(p, [Top(p) EXCEPT !.next = @ + 1]) \in Seq(Frame)
    BY <1>2, <2>1, TopType, ReplacedTop DEF SkipCompleted, WithTop, Depth, Running
  <2> QED
    BY <1>2, <2>2 DEF TypeOK, SkipCompleted
<1>3. ASSUME NEW p \in Process, Descend(p)
      PROVE  TypeOK'
  <2>1. [Top(p) EXCEPT !.stage = "refresh"] \in Frame
    BY <1>3, TopType DEF Descend, Frame, Stage
  <2>2. WithTop(p, [Top(p) EXCEPT !.stage = "refresh"]) \in Seq(Frame)
    BY <1>3, <2>1, TopType, ReplacedTop DEF Descend, WithTop, Depth, Running
  <2>3. FreshFrame(NextDependency(p)) \in Frame
    BY <1>3, NextDependencyType, FreshFrameType DEF Descend
  <2>4. Append(WithTop(p, [Top(p) EXCEPT !.stage = "refresh"]),
               FreshFrame(NextDependency(p))) \in Seq(Frame)
    BY <2>2, <2>3, AppendProperties
  <2> QED
    BY <1>3, <2>4 DEF TypeOK, Descend
<1>4. ASSUME NEW p \in Process, Refresh(p)
      PROVE  TypeOK'
  <2>1. [Top(p) EXCEPT !.stage = "materialize", !.next = @ + 1] \in Frame
    BY <1>4, TopType, AdvancedFrame DEF Refresh
  <2>2. WithTop(p, [Top(p) EXCEPT !.stage = "materialize", !.next = @ + 1]) \in Seq(Frame)
    BY <1>4, <2>1, TopType, ReplacedTop DEF Refresh, WithTop, Depth, Running
  <2> QED
    BY <1>4, <2>2, EmptySeq DEF TypeOK, Refresh
<1>5. ASSUME NEW p \in Process, StartBody(p)
      PROVE  TypeOK'
  <2>1. [Top(p) EXCEPT !.stage = "body"] \in Frame
    BY <1>5, TopType DEF StartBody, Frame, Stage
  <2>2. WithTop(p, [Top(p) EXCEPT !.stage = "body"]) \in Seq(Frame)
    BY <1>5, <2>1, TopType, ReplacedTop DEF StartBody, WithTop, Depth, Running
  <2> QED
    BY <1>5, <2>2 DEF TypeOK, StartBody
<1>6. ASSUME NEW p \in Process, Compute(p)
      PROVE  TypeOK'
  <2>1. PICK outcome \in RecordableOutcomes[Top(p).wf] : WriteEvidence(p, outcome)
    BY <1>6 DEF Compute
  <2>2. outcome \in Outcome
    BY <1>6, <2>1, TopType, EngineAssumption DEF Compute
  <2>3. [Top(p) EXCEPT !.stage = "record", !.outcome = outcome] \in Frame
    BY <1>6, <2>2, TopType DEF Compute, Frame, Stage
  <2>4. WithTop(p, [Top(p) EXCEPT !.stage = "record", !.outcome = outcome]) \in Seq(Frame)
    BY <1>6, <2>3, TopType, ReplacedTop DEF Compute, WithTop, Depth, Running
  <2> QED
    BY <2>1, <2>2, <2>4 DEF TypeOK, WriteEvidence
<1>7. ASSUME NEW p \in Process, WriteResult(p)
      PROVE  TypeOK'
  <2>1. Top(p) \in Frame /\ Top(p).wf \in Workflow
    BY <1>7, TopType DEF WriteResult
  <2>2. [Top(p) EXCEPT !.stage = "diagnose"] \in Frame
    BY <2>1 DEF Frame, Stage
  <2>3. WithTop(p, [Top(p) EXCEPT !.stage = "diagnose"]) \in Seq(Frame)
    BY <1>7, <2>2, TopType, ReplacedTop DEF WriteResult, WithTop, Depth, Running
  <2>4. Popped(p) \in Seq(Frame)
    BY <1>7, TopType, PoppedStack DEF WriteResult, Popped, Depth, Running
  <2>5. AfterRecord(p) \in Seq(Frame)
    BY <2>3, <2>4, EmptySeq DEF AfterRecord
  <2>6. Top(p).outcome \in Outcome \cup {NoOutcome}
    BY <2>1 DEF Frame
  <2> QED
    BY <1>7, <2>1, <2>5, <2>6 DEF TypeOK, WriteResult
<1>8. ASSUME NEW p \in Process, Diagnose(p)
      PROVE  TypeOK'
  <2>1. Popped(p) \in Seq(Frame)
    BY <1>8, TopType, PoppedStack DEF Diagnose, Popped, Depth, Running
  <2> QED
    BY <1>8, <2>1, TopType DEF TypeOK, Diagnose
<1>9. ASSUME NEW p \in Process, Abort(p)
      PROVE  TypeOK'
  BY <1>9, EmptySeq DEF TypeOK, Abort
<1>10. CASE UNCHANGED vars
  BY <1>10 DEF TypeOK, vars
<1> QED
  BY <1>1, <1>2, <1>3, <1>4, <1>5, <1>6, <1>7, <1>8, <1>9, <1>10 DEF Next, Work

(***************************************************************************)
(* Result and evidence files, diagnostics and call stacks keep their types,*)
(* whatever commands overlap and wherever they are killed.                 *)
(***************************************************************************)
THEOREM TypeCorrect == Spec => []TypeOK
<1>1. Init => TypeOK
  <2> SUFFICES ASSUME Init PROVE TypeOK
    OBVIOUS
  <2>1. frames \in [Process -> Seq(Frame)]
    BY EmptySeq DEF Init
  <2> QED
    BY <2>1 DEF Init, TypeOK
<1> QED
  BY <1>1, TypeStep, PTL DEF Spec

-----------------------------------------------------------------------------
(* What a step may never take away.                                        *)

\* The outcome of a body that is about to be written is an outcome.
LEMMA ComputedOutcome ==
  ASSUME TypeOK, NEW p \in Process, Running(p),
         NEW outcome \in RecordableOutcomes[Top(p).wf]
  PROVE  outcome \in Outcome /\ outcome # NoOutcome
<1>1. RecordableOutcomes[Top(p).wf] \subseteq Outcome
  BY TopType, EngineAssumption
<1> QED
  BY <1>1, EngineAssumption

\* Evidence, once written, is only ever replaced by other evidence.
LEMMA EvidenceStays ==
  ASSUME TypeOK, [Next]_vars, NEW w \in Workflow, evidence[w] # NoOutcome
  PROVE  evidence'[w] # NoOutcome
<1>1. ASSUME NEW p \in Process, Compute(p) PROVE evidence'[w] # NoOutcome
  <2>1. PICK outcome \in RecordableOutcomes[Top(p).wf] : WriteEvidence(p, outcome)
    BY <1>1 DEF Compute
  <2>2. outcome # NoOutcome
    BY <1>1, ComputedOutcome DEF Compute
  <2> QED
    BY <2>1, <2>2 DEF WriteEvidence, TypeOK
<1>2. CASE UNCHANGED evidence
  BY <1>2
<1>3. Next => UNCHANGED evidence \/ \E p \in Process : Compute(p)
  BY DEF Next, Work, Command, SkipCompleted, Descend, Refresh, StartBody, WriteResult,
         Diagnose, Abort
<1> QED
  BY <1>1, <1>2, <1>3 DEF vars

\* A dependency that has passed stays settled: losing its PASS is on record.
LEMMA SettledStays ==
  ASSUME TypeOK, [Next]_vars, NEW d \in Workflow, Settled(d)
  PROVE  Settled(d)'
<1>1. ASSUME NEW p \in Process, WriteResult(p) PROVE Settled(d)'
  <2>1. Top(p).wf \in Workflow
    BY <1>1, TopType DEF WriteResult
  <2>2. CASE Top(p).wf = d /\ result[d] = "PASS" /\ Top(p).outcome # "PASS"
    BY <1>1, <2>2 DEF WriteResult, Settled
  <2>3. CASE Top(p).wf = d /\ Top(p).outcome = "PASS"
    BY <1>1, <2>1, <2>3 DEF WriteResult, Settled, TypeOK
  <2>4. CASE d \in regressed
    BY <1>1, <2>4 DEF WriteResult, Settled
  <2>5. CASE Top(p).wf # d
    BY <1>1, <2>1, <2>5 DEF WriteResult, Settled, TypeOK
  <2> QED
    BY <2>2, <2>3, <2>4, <2>5 DEF Settled
<1>2. CASE UNCHANGED <<result, regressed>>
  BY <1>2 DEF Settled
<1>3. Next => UNCHANGED <<result, regressed>> \/ \E p \in Process : WriteResult(p)
  BY DEF Next, Work, Command, SkipCompleted, Descend, Refresh, StartBody, Compute,
         WriteEvidence, Diagnose, Abort
<1> QED
  BY <1>1, <1>2, <1>3 DEF vars

\* The dependencies of a workflow are workflows.
LEMMA DependencyType ==
  ASSUME NEW w \in Workflow
  PROVE  /\ \A k \in DOMAIN Dependencies[w] : Dependencies[w][k] \in Workflow
         /\ \A d \in DependenciesOf(w) : d \in Workflow
<1>1. Dependencies[w] \in Seq(Workflow)
  BY EngineAssumption
<1>2. \A k \in DOMAIN Dependencies[w] : Dependencies[w][k] \in Workflow
  BY <1>1, ElementOfSeq, LenProperties
<1> QED
  BY <1>2 DEF DependenciesOf

\* What a frame knows stays true, whoever takes the next step.
LEMMA FrameOKStays ==
  ASSUME TypeOK, [Next]_vars, NEW f \in Frame, FrameOK(f)
  PROVE  FrameOK(f)'
<1>1. f.wf \in Workflow
  BY DEF Frame
<1>2. \A k \in DOMAIN Dependencies[f.wf] :
        k < f.next => Settled(Dependencies[f.wf][k])'
  BY <1>1, DependencyType, SettledStays DEF FrameOK
<1>3. f.stage \in {"body", "record"} => \A d \in DependenciesOf(f.wf) : Settled(d)'
  BY <1>1, DependencyType, SettledStays DEF FrameOK
<1>4. f.stage = "record" => evidence'[f.wf] # NoOutcome
  BY <1>1, EvidenceStays DEF FrameOK
<1> QED
  BY <1>2, <1>3, <1>4 DEF FrameOK

\* A step that gives process p the stack t, each frame of which was on its
\* stack before or is justified now, keeps every stack justified.
LEMMA FramesKept ==
  ASSUME TypeOK, TypeOK', FramesOK, [Next]_vars, NEW p \in Process, NEW t,
         frames' = [frames EXCEPT ![p] = t],
         \A i \in 1..Len(t) :
            (i \in 1..Len(frames[p]) /\ t[i] = frames[p][i]) \/ FrameOK(t[i])'
  PROVE  FramesOK'
<1> SUFFICES ASSUME NEW q \in Process, NEW i \in 1..Len(frames'[q])
             PROVE  FrameOK(frames[q][i])'
  BY DEF FramesOK
<1>1. ASSUME i \in 1..Len(frames[q]), frames'[q][i] = frames[q][i]
      PROVE  FrameOK(frames[q][i])'
  <2>1. PICK f \in Frame : f = frames[q][i]
    BY <1>1, ElementOfSeq DEF TypeOK
  <2>2. FrameOK(f)
    BY <1>1, <2>1 DEF FramesOK
  <2>3. FrameOK(f)'
    BY <2>2, FrameOKStays
  <2> QED
    BY <1>1, <2>1, <2>3 DEF FrameOK
<1>2. CASE q = p
  <2>1. frames'[q] = t
    BY <1>2 DEF TypeOK
  <2>2. CASE i \in 1..Len(frames[p]) /\ t[i] = frames[p][i]
    BY <1>1, <1>2, <2>1, <2>2
  <2>3. CASE FrameOK(t[i])'
    BY <2>1, <2>3 DEF FrameOK
  <2> QED
    BY <2>1, <2>2, <2>3
<1>3. CASE q # p
  <2>1. frames'[q] = frames[q]
    BY <1>3 DEF TypeOK
  <2> QED
    BY <1>1, <2>1
<1> QED
  BY <1>2, <1>3

-----------------------------------------------------------------------------
(* The inductive invariant: what is recorded rests on what passed because  *)
(* what is about to be recorded does.                                      *)

IInv == TypeOK /\ FramesOK /\ ResultHasEvidence /\ ClosedUnlessRegressed

\* What the frame on top of the stack of p knows.
LEMMA TopOK ==
  ASSUME TypeOK, FramesOK, NEW p \in Process, Running(p)
  PROVE  FrameOK(Top(p))
<1>1. Depth(p) \in 1..Len(frames[p])
  BY TopType DEF Depth
<1> QED
  BY <1>1 DEF FramesOK, Top

\* A step that replaces the frame on top of the stack of p.
LEMMA TopReplacedKept ==
  ASSUME TypeOK, TypeOK', FramesOK, [Next]_vars, NEW p \in Process, Running(p),
         NEW f \in Frame, frames' = [frames EXCEPT ![p] = WithTop(p, f)], FrameOK(f)'
  PROVE  FramesOK'
<1>1. PICK t : t = WithTop(p, f)
  OBVIOUS
<1>2. /\ Len(t) = Len(frames[p])
      /\ t[Len(t)] = f
      /\ \A i \in 1..(Len(t) - 1) : t[i] = frames[p][i]
  BY <1>1, TopType, ReplacedTop DEF WithTop, Depth, Running
<1>3. ASSUME NEW i \in 1..Len(t), i # Len(t)
      PROVE  i \in 1..Len(frames[p]) /\ t[i] = frames[p][i]
  BY <1>2, <1>3, TopType DEF Depth
<1>4. FrameOK(t[Len(t)])'
  BY <1>2 DEF FrameOK
<1>5. ASSUME NEW i \in 1..Len(t), i = Len(t)
      PROVE  FrameOK(t[i])'
  BY <1>4, <1>5
<1> QED
  BY <1>1, <1>3, <1>5, FramesKept

\* A step that returns from the frame on top of the stack of p.
LEMMA PoppedKept ==
  ASSUME TypeOK, TypeOK', FramesOK, [Next]_vars, NEW p \in Process, Running(p),
         frames' = [frames EXCEPT ![p] = Popped(p)]
  PROVE  FramesOK'
<1>1. PICK t : t = Popped(p)
  OBVIOUS
<1>2. /\ Len(t) = Len(frames[p]) - 1
      /\ \A i \in 1..Len(t) : t[i] = frames[p][i]
  BY <1>1, TopType, PoppedStack DEF Popped, Depth, Running
<1>3. \A i \in 1..Len(t) : i \in 1..Len(frames[p]) /\ t[i] = frames[p][i]
  BY <1>2, TopType DEF Depth
<1> QED
  BY <1>1, <1>3, FramesKept

\* A step that ends the command of p.
LEMMA EndedKept ==
  ASSUME TypeOK, TypeOK', FramesOK, [Next]_vars, NEW p \in Process,
         frames' = [frames EXCEPT ![p] = <<>>]
  PROVE  FramesOK'
<1>1. PICK t : t = <<>>
  OBVIOUS
<1>2. \A i \in 1..Len(t) : i \in 1..Len(frames[p]) /\ t[i] = frames[p][i]
  BY <1>1
<1> QED
  BY <1>1, <1>2, FramesKept

\* A frame that has just been called knows nothing and need not.
LEMMA FreshFrameOK ==
  ASSUME NEW w \in Workflow
  PROVE  FrameOK(FreshFrame(w))'
<1>1. Dependencies[w] \in Seq(Workflow)
  BY EngineAssumption
<1>2. \A k \in DOMAIN Dependencies[w] : ~(k < 1)
  BY <1>1, LenProperties
<1> QED
  BY <1>2 DEF FrameOK, FreshFrame

\* Every step keeps every stack justified.
LEMMA FramesStep ==
  ASSUME TypeOK, TypeOK', FramesOK, [Next]_vars
  PROVE  FramesOK'
<1>1. ASSUME NEW p \in Process, NEW w \in Workflow, Command(p, w)
      PROVE  FramesOK'
  <2>1. PICK t : t = <<FreshFrame(w)>>
    OBVIOUS
  <2>2. FrameOK(FreshFrame(w))'
    BY FreshFrameOK
  <2>3. \A i \in 1..Len(t) : t[i] = FreshFrame(w)
    BY <2>1
  <2>4. \A i \in 1..Len(t) : FrameOK(t[i])'
    BY <2>2, <2>3
  <2> QED
    BY <1>1, <2>1, <2>4, FramesKept DEF Command
<1>2. ASSUME NEW p \in Process, SkipCompleted(p)
      PROVE  FramesOK'
  <2>0. [Top(p) EXCEPT !.next = @ + 1] \in Frame
    BY <1>2, TopType DEF SkipCompleted, Frame
  <2>1. PICK f \in Frame : f = [Top(p) EXCEPT !.next = @ + 1]
    BY <2>0
  <2>2. /\ f.wf = Top(p).wf /\ f.next = Top(p).next + 1 /\ f.stage = "materialize"
        /\ f.next \in Nat /\ Top(p).next \in Nat
    BY <1>2, <2>1, TopType DEF SkipCompleted, Frame
  <2>3. FrameOK(Top(p))
    BY <1>2, TopOK DEF SkipCompleted
  <2>4. Settled(NextDependency(p))
    BY <1>2 DEF SkipCompleted, Status, Settled
  <2>5. \A k \in DOMAIN Dependencies[f.wf] :
          k < f.next => k < Top(p).next \/ k = Top(p).next
    BY <1>2, <2>2, TopType, EngineAssumption, LenProperties DEF SkipCompleted
  <2>6. FrameOK(f)
    BY <2>2, <2>3, <2>4, <2>5 DEF FrameOK, NextDependency
  <2>7. FrameOK(f)'
    BY <2>6, FrameOKStays
  <2> QED
    BY <1>2, <2>1, <2>7, TopReplacedKept DEF SkipCompleted
<1>3. ASSUME NEW p \in Process, Descend(p)
      PROVE  FramesOK'
  <2>1. PICK f \in Frame : f = [Top(p) EXCEPT !.stage = "refresh"]
    BY <1>3, TopType DEF Descend, Frame, Stage
  <2>2. f.wf = Top(p).wf /\ f.next = Top(p).next /\ f.stage = "refresh"
    BY <1>3, <2>1, TopType DEF Descend, Frame
  <2>3. f.next \in DOMAIN Dependencies[f.wf] /\ NextDependency(p) \in Workflow
    BY <1>3, <2>2, NextDependencyType DEF Descend
  <2>4. FrameOK(Top(p))
    BY <1>3, TopOK DEF Descend
  <2>5. FrameOK(f)
    BY <2>2, <2>3, <2>4 DEF FrameOK
  <2>6. FrameOK(f)'
    BY <2>5, FrameOKStays
  <2>7. PICK g \in Frame : g = FreshFrame(NextDependency(p))
    BY <2>3, FreshFrameType
  <2>8. FrameOK(g)'
    <3>1. PICK d \in Workflow : d = NextDependency(p)
      BY <2>3
    <3>2. FrameOK(FreshFrame(d))'
      BY FreshFrameOK
    <3>3. g = FreshFrame(d)
      BY <2>7, <3>1
    <3> QED
      BY <3>2, <3>3
  <2>9. PICK r : r = WithTop(p, f)
    OBVIOUS
  <2>10. /\ r \in Seq(Frame)
         /\ Len(r) = Len(frames[p])
         /\ r[Len(r)] = f
         /\ \A i \in 1..(Len(r) - 1) : r[i] = frames[p][i]
    BY <1>3, <2>9, TopType, ReplacedTop DEF Descend, WithTop, Depth, Running
  <2>11. PICK t : t = Append(r, g)
    OBVIOUS
  <2>12. /\ Len(t) = Len(r) + 1
         /\ t[Len(t)] = g
         /\ \A i \in 1..Len(r) : t[i] = r[i]
    BY <2>10, <2>11, PushedStack
  <2>13. Len(r) \in Nat \ {0}
    BY <1>3, <2>10, TopType DEF Descend, Depth
  <2>14. ASSUME NEW i \in 1..Len(t)
         PROVE  (i \in 1..Len(frames[p]) /\ t[i] = frames[p][i]) \/ FrameOK(t[i])'
    <3>1. CASE i = Len(t)
      <4>1. t[i] = g
        BY <2>12, <3>1
      <4> QED
        BY <2>8, <4>1
    <3>2. CASE i = Len(r)
      <4>1. t[i] = f
        BY <2>10, <2>12, <2>13, <3>2
      <4> QED
        BY <2>6, <4>1
    <3>3. CASE i \in 1..(Len(r) - 1)
      BY <2>10, <2>12, <2>13, <3>3
    <3> QED
      BY <2>12, <2>13, <3>1, <3>2, <3>3
  <2>15. frames' = [frames EXCEPT ![p] = t]
    BY <1>3, <2>1, <2>7, <2>9, <2>11 DEF Descend
  <2> QED
    BY <2>14, <2>15, FramesKept
<1>4. ASSUME NEW p \in Process, Refresh(p)
      PROVE  FramesOK'
  <2>1. CASE Status(NextDependency(p)) = "COMPLETED"
    <3>1. PICK f \in Frame : f = [Top(p) EXCEPT !.stage = "materialize", !.next = @ + 1]
      BY <1>4, TopType, AdvancedFrame DEF Refresh
    <3>2. Top(p) \in Frame /\ Top(p).wf \in Workflow /\ Top(p).next \in Nat
      BY <1>4, TopType DEF Refresh
    <3>3. f.wf = Top(p).wf /\ f.next = Top(p).next + 1 /\ f.stage = "materialize"
      BY <3>1, <3>2 DEF Frame
    <3>4. FrameOK(Top(p))
      BY <1>4, TopOK DEF Refresh
    <3>5. Settled(NextDependency(p))
      BY <2>1 DEF Status, Settled
    <3>6. \A k \in DOMAIN Dependencies[f.wf] :
            k < f.next => k < Top(p).next \/ k = Top(p).next
      BY <3>2, <3>3, EngineAssumption, LenProperties
    <3>7. FrameOK(f)
      BY <3>3, <3>4, <3>5, <3>6 DEF FrameOK, NextDependency
    <3>8. FrameOK(f)'
      BY <3>7, FrameOKStays
    <3> QED
      BY <1>4, <2>1, <3>1, <3>8, TopReplacedKept DEF Refresh
  <2>2. CASE Status(NextDependency(p)) # "COMPLETED"
    BY <1>4, <2>2, EndedKept DEF Refresh
  <2> QED
    BY <2>1, <2>2
<1>5. ASSUME NEW p \in Process, StartBody(p)
      PROVE  FramesOK'
  <2>1. PICK f \in Frame : f = [Top(p) EXCEPT !.stage = "body"]
    BY <1>5, TopType DEF StartBody, Frame, Stage
  <2>2. f.wf = Top(p).wf /\ f.next = Top(p).next /\ f.stage = "body"
    BY <1>5, <2>1, TopType DEF StartBody, Frame
  <2>3. FrameOK(Top(p))
    BY <1>5, TopOK DEF StartBody
  <2>4. \A k \in DOMAIN Dependencies[f.wf] : k < f.next
    BY <1>5, <2>2, TopType, EngineAssumption, LenProperties DEF StartBody, MoreDependencies
  <2>5. FrameOK(f)
    BY <2>2, <2>3, <2>4 DEF FrameOK, DependenciesOf
  <2>6. FrameOK(f)'
    BY <2>5, FrameOKStays
  <2> QED
    BY <1>5, <2>1, <2>6, TopReplacedKept DEF StartBody
<1>6. ASSUME NEW p \in Process, Compute(p)
      PROVE  FramesOK'
  <2>1. PICK outcome \in RecordableOutcomes[Top(p).wf] : WriteEvidence(p, outcome)
    BY <1>6 DEF Compute
  <2>2. outcome \in Outcome /\ outcome # NoOutcome
    BY <1>6, ComputedOutcome DEF Compute
  <2>3. Top(p) \in Frame /\ Top(p).wf \in Workflow
    BY <1>6, TopType DEF Compute
  <2>4. PICK f \in Frame : f = [Top(p) EXCEPT !.stage = "record", !.outcome = outcome]
    BY <2>2, <2>3 DEF Frame, Stage
  <2>5. /\ f.wf = Top(p).wf /\ f.next = Top(p).next
        /\ f.stage = "record" /\ f.outcome = outcome
    BY <2>3, <2>4 DEF Frame
  <2>6. FrameOK(Top(p)) /\ Top(p).stage = "body"
    BY <1>6, <2>1, TopOK DEF Compute, WriteEvidence
  <2>7. evidence'[f.wf] # NoOutcome
    BY <2>1, <2>2, <2>3, <2>5 DEF WriteEvidence, TypeOK
  <2>8. /\ \A k \in DOMAIN Dependencies[f.wf] :
             k < f.next => Settled(Dependencies[f.wf][k])'
        /\ \A d \in DependenciesOf(f.wf) : Settled(d)'
    BY <2>3, <2>5, <2>6, DependencyType, SettledStays DEF FrameOK
  <2>9. FrameOK(f)'
    BY <2>1, <2>5, <2>7, <2>8 DEF FrameOK
  <2> QED
    BY <1>6, <2>1, <2>4, <2>9, TopReplacedKept DEF Compute, WriteEvidence
<1>7. ASSUME NEW p \in Process, WriteResult(p)
      PROVE  FramesOK'
  <2>1. CASE frames' = [frames EXCEPT ![p] = <<>>]
    BY <2>1, EndedKept
  <2>2. CASE frames' = [frames EXCEPT ![p] = Popped(p)]
    BY <1>7, <2>2, PoppedKept DEF WriteResult
  <2>3. CASE frames' = [frames EXCEPT ![p] = WithTop(p, [Top(p) EXCEPT !.stage = "diagnose"])]
    <3>1. Top(p) \in Frame /\ FrameOK(Top(p))
      BY <1>7, TopType, TopOK DEF WriteResult
    <3>2. PICK f \in Frame : f = [Top(p) EXCEPT !.stage = "diagnose"]
      BY <3>1 DEF Frame, Stage
    <3>3. f.wf = Top(p).wf /\ f.next = Top(p).next /\ f.stage = "diagnose"
      BY <3>1, <3>2 DEF Frame
    <3>4. FrameOK(f)
      BY <3>1, <3>3 DEF FrameOK
    <3>5. FrameOK(f)'
      BY <3>4, FrameOKStays
    <3> QED
      BY <1>7, <2>3, <3>2, <3>5, TopReplacedKept DEF WriteResult
  <2> QED
    BY <1>7, <2>1, <2>2, <2>3 DEF WriteResult, AfterRecord
<1>8. ASSUME NEW p \in Process, Diagnose(p)
      PROVE  FramesOK'
  BY <1>8, PoppedKept DEF Diagnose
<1>9. ASSUME NEW p \in Process, Abort(p)
      PROVE  FramesOK'
  BY <1>9, EndedKept DEF Abort
<1>10. CASE UNCHANGED vars
  BY <1>10 DEF vars, FramesOK, FrameOK, Settled
<1> QED
  BY <1>1, <1>2, <1>3, <1>4, <1>5, <1>6, <1>7, <1>8, <1>9, <1>10 DEF Next, Work

\* Every step keeps the evidence of what is recorded.
LEMMA EvidenceStep ==
  ASSUME TypeOK, FramesOK, ResultHasEvidence, [Next]_vars
  PROVE  ResultHasEvidence'
<1> SUFFICES ASSUME NEW w \in Workflow, result'[w] # NoOutcome
             PROVE  evidence'[w] # NoOutcome
  BY DEF ResultHasEvidence
<1>1. CASE result[w] # NoOutcome
  BY <1>1, EvidenceStays DEF ResultHasEvidence
<1>2. CASE result'[w] # result[w]
  <2>1. PICK p \in Process : WriteResult(p)
    BY <1>2 DEF Next, Work, Command, SkipCompleted, Descend, Refresh, StartBody, Compute,
                WriteEvidence, Diagnose, Abort, vars
  <2>2. Top(p).wf = w
    BY <1>2, <2>1, TopType DEF WriteResult, TypeOK
  <2>3. FrameOK(Top(p)) /\ Top(p).stage = "record"
    BY <2>1, TopOK DEF WriteResult
  <2> QED
    BY <2>1, <2>2, <2>3 DEF WriteResult, FrameOK
<1> QED
  BY <1>1, <1>2

\* What WriteResult takes from the frame it is executed by.
LEMMA RecordedFrame ==
  ASSUME TypeOK, FramesOK, NEW p \in Process, WriteResult(p)
  PROVE  /\ Top(p).wf \in Workflow
         /\ Top(p).outcome \in RecordableOutcomes[Top(p).wf]
         /\ \A d \in DependenciesOf(Top(p).wf) : Settled(d)
  BY TopOK, TopType DEF WriteResult, FrameOK

\* Every step keeps recorded outcomes on settled dependencies.
LEMMA ClosedStep ==
  ASSUME TypeOK, FramesOK, ClosedUnlessRegressed, [Next]_vars
  PROVE  ClosedUnlessRegressed'
<1> SUFFICES ASSUME NEW w \in Workflow, result'[w] # NoOutcome,
                    NEW d \in DependenciesOf(w)
             PROVE  Settled(d)'
  BY DEF ClosedUnlessRegressed
<1>1. d \in Workflow
  BY DependencyType
<1>2. CASE result[w] # NoOutcome
  BY <1>1, <1>2, SettledStays DEF ClosedUnlessRegressed
<1>3. CASE result'[w] # result[w]
  <2>1. PICK p \in Process : WriteResult(p)
    BY <1>3 DEF Next, Work, Command, SkipCompleted, Descend, Refresh, StartBody, Compute,
                WriteEvidence, Diagnose, Abort, vars
  <2>2. Top(p).wf = w
    BY <1>3, <2>1, RecordedFrame DEF WriteResult, TypeOK
  <2>3. Settled(d)
    BY <2>1, <2>2, RecordedFrame
  <2> QED
    BY <1>1, <2>3, SettledStays
<1> QED
  BY <1>2, <1>3

(***************************************************************************)
(* The inductive invariant holds of every number of overlapping commands.  *)
(***************************************************************************)
THEOREM InductiveInvariant == Spec => []IInv
<1>1. Init => IInv
  <2> SUFFICES ASSUME Init PROVE IInv
    OBVIOUS
  <2>1. TypeOK
    BY EmptySeq DEF Init, TypeOK
  <2>2. FramesOK
    BY EmptySeq DEF Init, FramesOK
  <2>3. ResultHasEvidence /\ ClosedUnlessRegressed
    BY DEF Init, ResultHasEvidence, ClosedUnlessRegressed
  <2> QED
    BY <2>1, <2>2, <2>3 DEF IInv
<1>2. IInv /\ [Next]_vars => IInv'
  BY TypeStep, FramesStep, EvidenceStep, ClosedStep DEF IInv
<1> QED
  BY <1>1, <1>2, PTL DEF Spec

(***************************************************************************)
(* run_experiment never leaves a recorded outcome above a dependency that  *)
(* has not passed, unless that dependency had passed and a later command   *)
(* took its PASS away: for every registry and any overlapping commands.    *)
(***************************************************************************)
THEOREM ClosedCorrect == Spec => []ClosedUnlessRegressed
<1>1. IInv => ClosedUnlessRegressed
  BY DEF IInv
<1> QED
  BY <1>1, InductiveInvariant, PTL

(***************************************************************************)
(* _persist leaves no result file without an evidence file, wherever it is *)
(* killed and whatever it races with.                                      *)
(***************************************************************************)
THEOREM EvidenceCorrect == Spec => []ResultHasEvidence
<1>1. IInv => ResultHasEvidence
  BY DEF IInv
<1> QED
  BY <1>1, InductiveInvariant, PTL

(***************************************************************************)
(* The engine implements the ledger: every step of every command is a      *)
(* Record of WorkflowLedger or leaves the result files alone.              *)
(***************************************************************************)
THEOREM LedgerCorrect == Spec => ImplementsLedger
<1>1. Init => Ledger!Init
  BY DEF Init, Ledger!Init
<1>2. IInv /\ [Next]_vars => [Ledger!Next]_(Ledger!ledger)
  <2> SUFFICES ASSUME IInv, [Next]_vars PROVE [Ledger!Next]_(Ledger!ledger)
    OBVIOUS
  <2>1. TypeOK /\ FramesOK
    BY DEF IInv
  <2>2. ASSUME NEW p \in Process, WriteResult(p)
        PROVE  Ledger!Next
    <3>1. /\ Top(p).wf \in Workflow
          /\ Top(p).outcome \in RecordableOutcomes[Top(p).wf]
          /\ \A d \in DependenciesOf(Top(p).wf) : Settled(d)
      BY <2>1, <2>2, RecordedFrame
    <3>2. \A d \in Ledger!DependenciesOf(Top(p).wf) : Ledger!Settled(d)
      BY <3>1 DEF DependenciesOf, Ledger!DependenciesOf, Settled, Ledger!Settled
    <3>3. Ledger!Record(Top(p).wf, Top(p).outcome)
      BY <2>2, <3>2 DEF WriteResult, Ledger!Record
    <3> QED
      BY <3>1, <3>3 DEF Ledger!Next
  <2>3. CASE UNCHANGED <<result, regressed>>
    BY <2>3 DEF Ledger!ledger
  <2>4. Next => UNCHANGED <<result, regressed>> \/ \E p \in Process : WriteResult(p)
    BY DEF Next, Work, Command, SkipCompleted, Descend, Refresh, StartBody, Compute,
           WriteEvidence, Diagnose, Abort
  <2> QED
    BY <2>2, <2>3, <2>4 DEF vars
<1> QED
  BY <1>1, <1>2, InductiveInvariant, PTL DEF Spec, ImplementsLedger, Ledger!Spec

(***************************************************************************)
(* A workflow one of whose dependencies has no body that can record PASS   *)
(* is never recorded, whatever is run how often: _materialize_dependencies *)
(* raises in every command for it.  With the registry of the code and any  *)
(* positive minimum_paired_cutoffs this is statistical-synthesis, whose    *)
(* dependency cross-corpus records INSUFFICIENT_EVIDENCE only.             *)
(***************************************************************************)
THEOREM NeverRecorded ==
  ASSUME NEW w \in Workflow, NEW d \in DependenciesOf(w),
         "PASS" \notin RecordableOutcomes[d]
  PROVE  Spec => [](result[w] = NoOutcome)
<1> DEFINE NeverSettled == ~Settled(d)
<1>1. Init => NeverSettled
  BY DependencyType, EngineAssumption DEF Init, Settled, Outcome
<1>2. IInv /\ NeverSettled /\ [Next]_vars => NeverSettled'
  <2> SUFFICES ASSUME IInv, NeverSettled, [Next]_vars, Settled(d)' PROVE FALSE
    OBVIOUS
  <2>1. TypeOK /\ FramesOK
    BY DEF IInv
  <2>2. PICK p \in Process : WriteResult(p)
    BY DEF Next, Work, Command, SkipCompleted, Descend, Refresh, StartBody, Compute,
           WriteEvidence, Diagnose, Abort, vars, Settled
  <2>3. Top(p).outcome \in RecordableOutcomes[Top(p).wf]
    BY <2>1, <2>2, RecordedFrame
  <2> QED
    BY <2>1, <2>2, <2>3 DEF WriteResult, Settled, TypeOK
<1>3. IInv /\ NeverSettled => result[w] = NoOutcome
  BY DEF IInv, ClosedUnlessRegressed
<1> QED
  BY <1>1, <1>2, <1>3, InductiveInvariant, PTL DEF Spec

-----------------------------------------------------------------------------
(* Commands that do not overlap: the properties of WorkflowEngine for one  *)
(* process, for every registry.                                            *)

\* Commands run one after the other.
Sequential == \A p, q \in Process : p = q

-----------------------------------------------------------------------------
(* What a call stack knows when nobody else writes: the dependencies its   *)
(* loops have passed still have their PASS, the workflows above one        *)
(* another come in descending order, and one that is executed as a         *)
(* dependency has no PASS until its own is recorded.                       *)

Knows(f) ==
  /\ \A k \in DOMAIN Dependencies[f.wf] :
       k < f.next => result[Dependencies[f.wf][k]] = "PASS"
  /\ f.stage \in {"body", "record"} => \A d \in DependenciesOf(f.wf) : result[d] = "PASS"
  /\ f.stage = "record" => f.outcome = evidence[f.wf]

Wanted(f) == f.stage # "diagnose" => result[f.wf] # "PASS"

StackOK(s) ==
  /\ \A i \in 1..Len(s) : Knows(s[i])
  /\ \A i, j \in 1..Len(s) : i < j => Position[s[j].wf] < Position[s[i].wf]
  /\ \A i \in 2..Len(s) : Wanted(s[i])

StacksOK == \A p \in Process : StackOK(frames[p])

\* A dependency is another workflow, of a lower position.
LEMMA DependencyBelow ==
  ASSUME NEW w \in Workflow
  PROVE  /\ \A k \in DOMAIN Dependencies[w] : Dependencies[w][k] # w
         /\ \A d \in DependenciesOf(w) : d # w
<1>1. \A k \in DOMAIN Dependencies[w] : Position[Dependencies[w][k]] < Position[w]
  BY RegistryOrderAssumption
<1>2. Position[w] \in Nat
  BY RegistryOrderAssumption
<1>3. \A k \in DOMAIN Dependencies[w] : Dependencies[w][k] # w
  BY <1>1, <1>2
<1> QED
  BY <1>3 DEF DependenciesOf

\* Every frame has a position.
LEMMA FramePosition == \A f \in Frame : f.wf \in Workflow /\ Position[f.wf] \in Nat
  BY RegistryOrderAssumption DEF Frame

-----------------------------------------------------------------------------
(* Stacks that change while the files do not.                              *)

\* The frame on top goes on with the same workflow.
LEMMA StackReplaced ==
  ASSUME NEW s \in Seq(Frame), s # <<>>, StackOK(s), NEW f \in Frame,
         f.wf = s[Len(s)].wf, Knows(f), f.stage # "diagnose" => s[Len(s)].stage # "diagnose"
  PROVE  StackOK([s EXCEPT ![Len(s)] = f])
<1>1. PICK t : t = [s EXCEPT ![Len(s)] = f]
  OBVIOUS
<1>2. /\ Len(t) = Len(s)
      /\ t[Len(t)] = f
      /\ \A i \in 1..(Len(t) - 1) : t[i] = s[i]
  BY <1>1, ReplacedTop
<1>3. Len(s) \in Nat \ {0}
  BY EmptySeq
<1>4. \A i \in 1..Len(t) : i = Len(t) \/ i \in 1..(Len(t) - 1)
  BY <1>2, <1>3
<1>5. \A i \in 1..Len(t) : t[i].wf = s[i].wf
  BY <1>2, <1>4
<1>6. \A i \in 1..Len(t) : Knows(t[i])
  BY <1>2, <1>4 DEF StackOK
<1>7. \A i \in 2..Len(t) : Wanted(t[i])
  <2> SUFFICES ASSUME NEW i \in 2..Len(t) PROVE Wanted(t[i])
    OBVIOUS
  <2>1. Wanted(s[i]) /\ i \in 1..Len(t)
    BY <1>2 DEF StackOK
  <2>2. CASE i = Len(t)
    BY <1>2, <2>1, <2>2 DEF Wanted
  <2>3. CASE i \in 1..(Len(t) - 1)
    BY <1>2, <2>1, <2>3
  <2> QED
    BY <1>4, <2>1, <2>2, <2>3
<1>8. \A i, j \in 1..Len(t) : i < j => Position[t[j].wf] < Position[t[i].wf]
  BY <1>2, <1>5 DEF StackOK
<1> QED
  BY <1>1, <1>6, <1>7, <1>8 DEF StackOK

\* The frame on top returns.
LEMMA StackPopped ==
  ASSUME NEW s \in Seq(Frame), s # <<>>, StackOK(s)
  PROVE  StackOK(SubSeq(s, 1, Len(s) - 1))
<1>1. PICK t : t = SubSeq(s, 1, Len(s) - 1)
  OBVIOUS
<1>2. Len(t) = Len(s) - 1 /\ \A i \in 1..Len(t) : t[i] = s[i]
  BY <1>1, PoppedStack
<1>3. Len(s) \in Nat
  OBVIOUS
<1>4. \A i \in 1..Len(t) : i \in 1..Len(s)
  BY <1>2, <1>3
<1>5. \A i \in 2..Len(t) : i \in 1..Len(t) /\ i \in 2..Len(s)
  BY <1>2, <1>3
<1> QED
  BY <1>1, <1>2, <1>4, <1>5 DEF StackOK

\* The frame on top calls a dependency that has no PASS.
LEMMA StackPushed ==
  ASSUME NEW s \in Seq(Frame), s # <<>>, StackOK(s), NEW f \in Frame, Knows(f),
         result[f.wf] # "PASS", Position[f.wf] < Position[s[Len(s)].wf]
  PROVE  StackOK(Append(s, f))
<1>1. PICK t : t = Append(s, f)
  OBVIOUS
<1>2. Len(t) = Len(s) + 1 /\ t[Len(t)] = f /\ \A i \in 1..Len(s) : t[i] = s[i]
  BY <1>1, PushedStack
<1>3. Len(s) \in Nat \ {0}
  BY EmptySeq
<1>4. \A i \in 1..Len(t) : i = Len(t) \/ i \in 1..Len(s)
  BY <1>2, <1>3
<1>5. \A i \in 1..Len(t) : Knows(t[i])
  BY <1>2, <1>4 DEF StackOK
<1>6. \A i \in 2..Len(t) : Wanted(t[i])
  <2> SUFFICES ASSUME NEW i \in 2..Len(t) PROVE Wanted(t[i])
    OBVIOUS
  <2>1. CASE i = Len(t)
    BY <1>2, <2>1 DEF Wanted
  <2>2. CASE i # Len(t)
    <3>1. i \in 2..Len(s) /\ t[i] = s[i]
      BY <1>2, <1>3, <2>2
    <3> QED
      BY <3>1 DEF StackOK
  <2> QED
    BY <2>1, <2>2
<1>7. \A i \in 1..Len(s) : s[i] \in Frame /\ Position[s[i].wf] \in Nat
  BY ElementOfSeq, FramePosition
<1>8. \A i \in 1..Len(s) : Position[f.wf] < Position[s[i].wf]
  <2> SUFFICES ASSUME NEW i \in 1..Len(s) PROVE Position[f.wf] < Position[s[i].wf]
    OBVIOUS
  <2>1. CASE i = Len(s)
    BY <2>1
  <2>2. CASE i # Len(s)
    <3>1. Position[s[Len(s)].wf] < Position[s[i].wf]
      BY <1>3, <2>2 DEF StackOK
    <3>2. Position[f.wf] \in Nat /\ Position[s[i].wf] \in Nat
          /\ Position[s[Len(s)].wf] \in Nat
      BY <1>3, <1>7, FramePosition
    <3> QED
      BY <3>1, <3>2
  <2> QED
    BY <2>1, <2>2
<1>9. ASSUME NEW i \in 1..Len(t), NEW j \in 1..Len(t), i < j
      PROVE  Position[t[j].wf] < Position[t[i].wf]
  <2>1. i \in 1..Len(s) /\ t[i] = s[i]
    BY <1>2, <1>3, <1>9
  <2>2. CASE j = Len(t)
    BY <1>2, <1>8, <2>1, <2>2
  <2>3. CASE j \in 1..Len(s)
    BY <1>2, <1>9, <2>1, <2>3 DEF StackOK
  <2> QED
    BY <1>4, <2>2, <2>3
<1> QED
  BY <1>1, <1>5, <1>6, <1>9 DEF StackOK

-----------------------------------------------------------------------------
(* Steps.                                                                  *)

\* What the frame on top knows, and that it is wanted when it is a dependency.
LEMMA TopKnows ==
  ASSUME TypeOK, StacksOK, NEW p \in Process, Running(p)
  PROVE  /\ StackOK(frames[p])
         /\ Knows(Top(p))
         /\ Depth(p) # 1 => Wanted(Top(p))
<1>1. Depth(p) \in Nat \ {0} /\ StackOK(frames[p])
  BY TopType DEF StacksOK
<1>2. Depth(p) = Len(frames[p]) /\ Top(p) = frames[p][Depth(p)]
  BY DEF Depth, Top
<1>3. Depth(p) \in 1..Len(frames[p])
  BY <1>1, <1>2
<1>4. Depth(p) # 1 => Depth(p) \in 2..Len(frames[p])
  <2>1. \A n \in Nat \ {0} : n # 1 => n \in 2..n
    OBVIOUS
  <2>2. Depth(p) \in Nat \ {0}
    BY <1>1
  <2>3. Depth(p) # 1 => Depth(p) \in 2..Depth(p)
    BY <2>1, <2>2
  <2> QED
    BY <1>2, <2>3
<1>5. Knows(Top(p))
  BY <1>1, <1>2, <1>3 DEF StackOK
<1>6. Depth(p) # 1 => Wanted(Top(p))
  BY <1>1, <1>2, <1>4 DEF StackOK
<1> QED
  BY <1>1, <1>5, <1>6

\* A step that leaves the files alone and gives the only process the stack t.
LEMMA StacksKept ==
  ASSUME Sequential, TypeOK, NEW p \in Process, NEW t, StackOK(t),
         frames' = [frames EXCEPT ![p] = t], UNCHANGED <<evidence, result>>
  PROVE  StacksOK'
<1>1. \A q \in Process : frames'[q] = t
  BY DEF TypeOK, Sequential
<1>2. StackOK(t)'
  BY DEF StackOK, Knows, Wanted
<1> QED
  BY <1>1, <1>2 DEF StacksOK, StackOK

\* A step that leaves the files alone and goes on with the frame on top.
LEMMA TopGoesOn ==
  ASSUME Sequential, TypeOK, StacksOK, NEW p \in Process, Running(p), NEW f \in Frame,
         frames' = [frames EXCEPT ![p] = WithTop(p, f)], UNCHANGED <<evidence, result>>,
         f.wf = Top(p).wf, Knows(f), f.stage # "diagnose", Top(p).stage # "diagnose"
  PROVE  StacksOK'
<1>1. frames[p] \in Seq(Frame) /\ frames[p] # <<>> /\ StackOK(frames[p])
  BY TopType, TopKnows DEF Running
<1>2. StackOK(WithTop(p, f))
  BY <1>1, StackReplaced DEF WithTop, Top, Depth
<1> QED
  BY <1>2, StacksKept

\* An empty stack knows nothing.
LEMMA EmptyStack == StackOK(<<>>)
  BY DEF StackOK

\* The body has written its evidence.
LEMMA ComputeKeeps ==
  ASSUME Sequential, TypeOK, TypeOK', StacksOK, NEW p \in Process, Compute(p)
  PROVE  StacksOK'
<1>1. PICK outcome \in RecordableOutcomes[Top(p).wf] : WriteEvidence(p, outcome)
  BY DEF Compute
<1>2. Running(p) /\ outcome \in Outcome
  BY <1>1, ComputedOutcome DEF Compute
<1>3. Top(p) \in Frame /\ Top(p).wf \in Workflow
  BY <1>2, TopType
<1>4. PICK f \in Frame : f = [Top(p) EXCEPT !.stage = "record", !.outcome = outcome]
  BY <1>2, <1>3 DEF Frame, Stage
<1>5. /\ f.wf = Top(p).wf /\ f.next = Top(p).next
      /\ f.stage = "record" /\ f.outcome = outcome
  BY <1>3, <1>4 DEF Frame
<1>6. PICK s \in Seq(Frame) : s = frames[p] /\ s # <<>> /\ StackOK(s)
  BY <1>2, TopType, TopKnows DEF Running
<1>7. PICK t : t = WithTop(p, f)
  OBVIOUS
<1>8. /\ Len(t) = Len(s)
      /\ t[Len(t)] = f
      /\ \A i \in 1..(Len(t) - 1) : t[i] = s[i]
  BY <1>6, <1>7, ReplacedTop DEF WithTop, Depth
<1>9. Len(s) \in Nat \ {0} /\ Top(p) = s[Len(s)]
  BY <1>6, EmptySeq DEF Top, Depth
<1>10. \A i \in 1..Len(t) : i = Len(t) \/ i \in 1..(Len(t) - 1)
  BY <1>8, <1>9
<1>11. \A i \in 1..Len(t) : t[i].wf = s[i].wf
  BY <1>5, <1>8, <1>9, <1>10
<1>12. evidence' = [evidence EXCEPT ![Top(p).wf] = outcome] /\ result' = result
  BY <1>1 DEF WriteEvidence
<1>13. ASSUME NEW i \in 1..Len(t) PROVE Knows(t[i])'
  <2>1. CASE i = Len(t)
    <3>1. Knows(Top(p)) /\ Top(p).stage = "body"
      BY <1>1, <1>2, TopKnows DEF WriteEvidence
    <3>2. evidence'[f.wf] = outcome
      BY <1>3, <1>5, <1>12 DEF TypeOK
    <3>3. t[i] = f
      BY <1>8, <2>1
    <3> QED
      BY <1>5, <1>12, <3>1, <3>2, <3>3 DEF Knows
  <2>2. CASE i \in 1..(Len(t) - 1)
    <3>1. Knows(s[i]) /\ t[i] = s[i] /\ s[i] \in Frame
      BY <1>6, <1>8, <2>2, ElementOfSeq DEF StackOK
    <3>2. Position[s[Len(s)].wf] < Position[s[i].wf]
      BY <1>6, <1>8, <1>9, <2>2 DEF StackOK
    <3>3. s[i].wf # Top(p).wf
      BY <1>9, <3>1, <3>2, FramePosition
    <3>4. evidence'[s[i].wf] = evidence[s[i].wf]
      BY <1>12, <3>1, <3>3, FramePosition DEF TypeOK
    <3> QED
      BY <1>12, <3>1, <3>4 DEF Knows
  <2> QED
    BY <1>10, <2>1, <2>2
<1>14. ASSUME NEW i \in 2..Len(t) PROVE Wanted(t[i])'
  <2>1. i \in 1..Len(t) /\ Wanted(s[i])
    BY <1>6, <1>8, <1>14 DEF StackOK
  <2>2. CASE i = Len(t)
    <3>1. Top(p).stage = "body"
      BY <1>1 DEF WriteEvidence
    <3> QED
      BY <1>5, <1>8, <1>9, <1>12, <2>1, <2>2, <3>1 DEF Wanted
  <2>3. CASE i \in 1..(Len(t) - 1)
    BY <1>8, <1>12, <2>1, <2>3 DEF Wanted
  <2> QED
    BY <1>10, <2>1, <2>2, <2>3
<1>15. \A i, j \in 1..Len(t) : i < j => Position[t[j].wf] < Position[t[i].wf]
  BY <1>6, <1>8, <1>11 DEF StackOK
<1>16. \A q \in Process : frames'[q] = t
  BY <1>1, <1>4, <1>7 DEF WriteEvidence, TypeOK, Sequential
<1>17. StackOK(t)'
  BY <1>13, <1>14, <1>15 DEF StackOK
<1> QED
  BY <1>16, <1>17 DEF StacksOK, StackOK

\* Recording an outcome of a workflow without PASS takes nothing back.
LEMMA KnowsAfterRecord ==
  ASSUME TypeOK, NEW w \in Workflow, NEW outcome, result[w] # "PASS",
         result' = [result EXCEPT ![w] = outcome], evidence' = evidence,
         NEW f \in Frame, Knows(f)
  PROVE  Knows(f)'
<1>1. f.wf \in Workflow
  BY DEF Frame
<1>2. \A d \in Workflow : result[d] = "PASS" => result'[d] = "PASS"
  BY DEF TypeOK
<1>3. \A k \in DOMAIN Dependencies[f.wf] :
        k < f.next => result'[Dependencies[f.wf][k]] = "PASS"
  BY <1>1, <1>2, DependencyType DEF Knows
<1>4. f.stage \in {"body", "record"} => \A d \in DependenciesOf(f.wf) : result'[d] = "PASS"
  BY <1>1, <1>2, DependencyType DEF Knows
<1> QED
  BY <1>3, <1>4 DEF Knows

\* The frame that records goes on to its diagnostics: its dependencies are others.
LEMMA KnowsOwnRecord ==
  ASSUME TypeOK, NEW w \in Workflow, NEW outcome,
         result' = [result EXCEPT ![w] = outcome],
         NEW f \in Frame, f.wf = w, f.stage = "diagnose", Knows(f)
  PROVE  Knows(f)'
<1>1. \A k \in DOMAIN Dependencies[w] :
        result'[Dependencies[w][k]] = result[Dependencies[w][k]]
  BY DependencyBelow, DependencyType DEF TypeOK
<1> QED
  BY <1>1 DEF Knows

\* An outcome is recorded.
LEMMA RecordKeeps ==
  ASSUME Sequential, TypeOK, TypeOK', StacksOK, NEW p \in Process, WriteResult(p)
  PROVE  StacksOK'
<1>1. PICK s \in Seq(Frame) : s = frames[p] /\ s # <<>> /\ StackOK(s)
  BY TopType, TopKnows DEF Running, WriteResult
<1>2. Len(s) \in Nat \ {0} /\ Top(p) = s[Len(s)] /\ Depth(p) = Len(s)
  BY <1>1, EmptySeq DEF Top, Depth
<1>3. /\ Top(p) \in Frame /\ Top(p).wf \in Workflow
      /\ Top(p).stage = "record" /\ Knows(Top(p))
      /\ Len(s) # 1 => result[Top(p).wf] # "PASS"
  BY <1>2, TopType, TopKnows DEF WriteResult, Wanted
<1>4. result' = [result EXCEPT ![Top(p).wf] = Top(p).outcome] /\ evidence' = evidence
  BY DEF WriteResult
<1>5. ASSUME NEW i \in 1..(Len(s) - 1)
      PROVE  /\ Knows(s[i])'
             /\ i \in 2..Len(s) => Wanted(s[i])'
  <2>1. i \in 1..Len(s) /\ Len(s) # 1 /\ i < Len(s)
    BY <1>2
  <2>2. s[i] \in Frame /\ Knows(s[i]) /\ (i \in 2..Len(s) => Wanted(s[i]))
    BY <1>1, <2>1, ElementOfSeq DEF StackOK
  <2>3. Position[s[Len(s)].wf] < Position[s[i].wf]
    BY <1>1, <1>2, <2>1 DEF StackOK
  <2>4. s[i].wf # Top(p).wf /\ s[i].wf \in Workflow
    BY <1>2, <1>3, <2>2, <2>3, FramePosition
  <2>5. Knows(s[i])'
    BY <1>3, <1>4, <2>1, <2>2, KnowsAfterRecord
  <2>6. result'[s[i].wf] = result[s[i].wf]
    BY <1>4, <2>4 DEF TypeOK
  <2> QED
    BY <2>2, <2>5, <2>6 DEF Wanted
<1>6. \A i \in 1..Len(s) : i = Len(s) \/ i \in 1..(Len(s) - 1)
  BY <1>2
<1>7. PICK t : t = AfterRecord(p)
  OBVIOUS
<1>8. StackOK(t)'
  <2>1. CASE t = <<>>
    BY <2>1 DEF StackOK
  <2>2. CASE t = Popped(p)
    <3>1. Len(t) = Len(s) - 1 /\ \A i \in 1..Len(t) : t[i] = s[i]
      BY <1>1, <2>2, PoppedStack DEF Popped, Depth
    <3>2. \A i \in 1..Len(t) : i \in 1..(Len(s) - 1) /\ i \in 1..Len(s)
      BY <1>2, <3>1
    <3>3. \A i \in 2..Len(t) : i \in 1..Len(t) /\ i \in 2..Len(s)
      BY <1>2, <3>1
    <3>4. \A i \in 1..Len(t) : Knows(t[i])'
      BY <1>5, <3>1, <3>2
    <3>5. \A i \in 2..Len(t) : Wanted(t[i])'
      BY <1>5, <3>1, <3>2, <3>3
    <3>6. \A i, j \in 1..Len(t) : i < j => Position[t[j].wf] < Position[t[i].wf]
      BY <1>1, <3>1, <3>2 DEF StackOK
    <3> QED
      BY <3>4, <3>5, <3>6 DEF StackOK
  <2>3. CASE t = WithTop(p, [Top(p) EXCEPT !.stage = "diagnose"])
    <3>1. PICK f \in Frame : f = [Top(p) EXCEPT !.stage = "diagnose"]
      BY <1>3 DEF Frame, Stage
    <3>2. f.wf = Top(p).wf /\ f.next = Top(p).next /\ f.stage = "diagnose"
      BY <1>3, <3>1 DEF Frame
    <3>3. Knows(f)
      BY <1>3, <3>2 DEF Knows
    <3>4. Knows(f)' /\ Wanted(f)'
      BY <1>3, <1>4, <3>2, <3>3, KnowsOwnRecord DEF Wanted
    <3>5. /\ Len(t) = Len(s)
          /\ t[Len(t)] = f
          /\ \A i \in 1..(Len(t) - 1) : t[i] = s[i]
      BY <1>1, <2>3, <3>1, ReplacedTop DEF WithTop, Depth
    <3>6. \A i \in 1..Len(t) : Knows(t[i])'
      BY <1>5, <1>6, <3>4, <3>5
    <3>7. \A i \in 2..Len(t) : Wanted(t[i])'
      <4> SUFFICES ASSUME NEW i \in 2..Len(t) PROVE Wanted(t[i])'
        OBVIOUS
      <4>1. i \in 1..Len(s) /\ i \in 2..Len(s)
        BY <3>5
      <4>2. CASE i = Len(s)
        BY <3>4, <3>5, <4>2
      <4>3. CASE i \in 1..(Len(s) - 1)
        BY <1>5, <3>5, <4>1, <4>3
      <4> QED
        BY <1>6, <4>1, <4>2, <4>3
    <3>8. \A i \in 1..Len(t) : t[i].wf = s[i].wf
      BY <1>2, <1>6, <3>2, <3>5
    <3>9. \A i, j \in 1..Len(t) : i < j => Position[t[j].wf] < Position[t[i].wf]
      BY <1>1, <3>5, <3>8 DEF StackOK
    <3> QED
      BY <3>6, <3>7, <3>9 DEF StackOK
  <2> QED
    BY <1>7, <2>1, <2>2, <2>3 DEF AfterRecord
<1>9. \A q \in Process : frames'[q] = t
  BY <1>7 DEF WriteResult, TypeOK, Sequential
<1> QED
  BY <1>8, <1>9 DEF StacksOK, StackOK

\* A call that starts has passed no dependency.
LEMMA FreshKnows ==
  ASSUME NEW w \in Workflow
  PROVE  Knows(FreshFrame(w))
<1>1. Dependencies[w] \in Seq(Workflow)
  BY EngineAssumption
<1>2. \A k \in DOMAIN Dependencies[w] : ~(k < 1)
  BY <1>1, LenProperties
<1> QED
  BY <1>2 DEF Knows, FreshFrame

\* The frame on top moves past a dependency that has its PASS.
LEMMA KnowsNext ==
  ASSUME TypeOK, NEW p \in Process, Running(p), Knows(Top(p)),
         Status(NextDependency(p)) = "COMPLETED",
         NEW f \in Frame, f.wf = Top(p).wf, f.next = Top(p).next + 1, f.stage = "materialize"
  PROVE  Knows(f)
<1>1. result[NextDependency(p)] = "PASS"
  BY DEF Status
<1>2. Dependencies[f.wf] \in Seq(Workflow) /\ Top(p).next \in Nat
  BY TopType, EngineAssumption
<1>3. \A k \in DOMAIN Dependencies[f.wf] : k \in Nat
  BY <1>2, LenProperties
<1>4. \A k \in Nat : k < f.next => k < Top(p).next \/ k = Top(p).next
  BY <1>2
<1> QED
  BY <1>1, <1>3, <1>4 DEF Knows, NextDependency

\* A dependency that is not COMPLETED is called.
LEMMA DescendKeeps ==
  ASSUME Sequential, TypeOK, StacksOK, NEW p \in Process, Descend(p)
  PROVE  StacksOK'
<1>1. PICK s \in Seq(Frame) : s = frames[p] /\ s # <<>> /\ StackOK(s)
  BY TopType, TopKnows DEF Running, Descend
<1>2. Len(s) \in Nat \ {0} /\ Top(p) = s[Len(s)]
  BY <1>1, EmptySeq DEF Top, Depth
<1>3. Top(p) \in Frame /\ Knows(Top(p)) /\ Top(p).stage = "materialize"
  BY TopType, TopKnows DEF Descend
<1>4. PICK f \in Frame : f = [Top(p) EXCEPT !.stage = "refresh"]
  BY <1>3 DEF Frame, Stage
<1>5. f.wf = Top(p).wf /\ f.next = Top(p).next /\ f.stage = "refresh"
  BY <1>3, <1>4 DEF Frame
<1>6. Knows(f)
  BY <1>3, <1>5 DEF Knows
<1>7. PICK r \in Seq(Frame) : r = [s EXCEPT ![Len(s)] = f]
  BY <1>1, ReplacedTop
<1>8. StackOK(r)
  BY <1>1, <1>2, <1>3, <1>5, <1>6, <1>7, StackReplaced
<1>9. Len(r) = Len(s) /\ r[Len(r)] = f /\ r # <<>>
  BY <1>1, <1>2, <1>7, ReplacedTop, EmptySeq
<1>10. PICK d \in Workflow : d = NextDependency(p)
  BY NextDependencyType DEF Descend
<1>11. result[d] # "PASS"
  <2>1. \A x \in Workflow : result[x] = "PASS" => Status(x) = "COMPLETED"
    BY EngineAssumption DEF Status, Outcome
  <2> QED
    BY <1>10, <2>1 DEF Descend
<1>12. Position[d] < Position[f.wf]
  BY <1>5, <1>10, TopType, NextDependencyType, RegistryOrderAssumption
  DEF Descend, NextDependency
<1>13. PICK g \in Frame : g = FreshFrame(d)
  BY FreshFrameType
<1>14. g.wf = d /\ Knows(g)
  BY <1>13, FreshKnows DEF FreshFrame
<1>15. StackOK(Append(r, g))
  BY <1>8, <1>9, <1>11, <1>12, <1>14, StackPushed
<1>16. frames' = [frames EXCEPT ![p] = Append(r, g)]
  BY <1>1, <1>4, <1>7, <1>10, <1>13 DEF Descend, WithTop, Depth
<1> QED
  BY <1>15, <1>16, StacksKept DEF Descend

\* Every step keeps what the stack knows.
LEMMA StacksStep ==
  ASSUME Sequential, TypeOK, TypeOK', StacksOK, [Next]_vars
  PROVE  StacksOK'
<1>1. ASSUME NEW p \in Process, NEW w \in Workflow, Command(p, w)
      PROVE  StacksOK'
  <2>1. PICK t : t = <<FreshFrame(w)>>
    OBVIOUS
  <2>2. Len(t) = 1 /\ t[1] = FreshFrame(w)
    BY <2>1
  <2>3. StackOK(t)
    BY <2>2, FreshKnows DEF StackOK
  <2> QED
    BY <1>1, <2>1, <2>3, StacksKept DEF Command
<1>2. ASSUME NEW p \in Process, SkipCompleted(p)
      PROVE  StacksOK'
  <2>1. Top(p) \in Frame /\ Knows(Top(p)) /\ Top(p).stage = "materialize"
    BY <1>2, TopType, TopKnows DEF SkipCompleted
  <2>2. PICK f \in Frame : f = [Top(p) EXCEPT !.next = @ + 1]
    <3>1. Top(p).next + 1 \in Nat \ {0}
      BY <2>1 DEF Frame
    <3> QED
      BY <2>1, <3>1 DEF Frame
  <2>3. f.wf = Top(p).wf /\ f.next = Top(p).next + 1 /\ f.stage = "materialize"
    BY <2>1, <2>2 DEF Frame
  <2>4. Knows(f)
    BY <1>2, <2>1, <2>3, KnowsNext DEF SkipCompleted
  <2> QED
    BY <1>2, <2>1, <2>2, <2>3, <2>4, TopGoesOn DEF SkipCompleted
<1>3. ASSUME NEW p \in Process, Descend(p)
      PROVE  StacksOK'
  BY <1>3, DescendKeeps
<1>4. ASSUME NEW p \in Process, Refresh(p)
      PROVE  StacksOK'
  <2>1. CASE Status(NextDependency(p)) = "COMPLETED"
    <3>1. Top(p) \in Frame /\ Knows(Top(p)) /\ Top(p).stage = "refresh"
      BY <1>4, TopType, TopKnows DEF Refresh
    <3>2. PICK f \in Frame : f = [Top(p) EXCEPT !.stage = "materialize", !.next = @ + 1]
      BY <3>1, AdvancedFrame
    <3>3. f.wf = Top(p).wf /\ f.next = Top(p).next + 1 /\ f.stage = "materialize"
      BY <3>1, <3>2 DEF Frame
    <3>4. Knows(f)
      BY <1>4, <2>1, <3>1, <3>3, KnowsNext DEF Refresh
    <3> QED
      BY <1>4, <2>1, <3>1, <3>2, <3>3, <3>4, TopGoesOn DEF Refresh
  <2>2. CASE Status(NextDependency(p)) # "COMPLETED"
    BY <1>4, <2>2, EmptyStack, StacksKept DEF Refresh
  <2> QED
    BY <2>1, <2>2
<1>5. ASSUME NEW p \in Process, StartBody(p)
      PROVE  StacksOK'
  <2>1. Top(p) \in Frame /\ Knows(Top(p)) /\ Top(p).stage = "materialize"
    BY <1>5, TopType, TopKnows DEF StartBody
  <2>2. PICK f \in Frame : f = [Top(p) EXCEPT !.stage = "body"]
    BY <2>1 DEF Frame, Stage
  <2>3. f.wf = Top(p).wf /\ f.next = Top(p).next /\ f.stage = "body"
    BY <2>1, <2>2 DEF Frame
  <2>4. \A k \in DOMAIN Dependencies[f.wf] : k < f.next
    BY <1>5, <2>3, TopType, EngineAssumption, LenProperties DEF StartBody, MoreDependencies
  <2>5. Knows(f)
    BY <2>1, <2>3, <2>4 DEF Knows, DependenciesOf
  <2> QED
    BY <1>5, <2>1, <2>2, <2>3, <2>5, TopGoesOn DEF StartBody
<1>6. ASSUME NEW p \in Process, Compute(p)
      PROVE  StacksOK'
  BY <1>6, ComputeKeeps
<1>7. ASSUME NEW p \in Process, WriteResult(p)
      PROVE  StacksOK'
  BY <1>7, RecordKeeps
<1>8. ASSUME NEW p \in Process, Diagnose(p)
      PROVE  StacksOK'
  <2>1. frames[p] \in Seq(Frame) /\ frames[p] # <<>> /\ StackOK(frames[p])
    BY <1>8, TopType, TopKnows DEF Running, Diagnose
  <2>2. StackOK(Popped(p))
    BY <2>1, StackPopped DEF Popped, Depth
  <2> QED
    BY <1>8, <2>2, StacksKept DEF Diagnose
<1>9. ASSUME NEW p \in Process, Abort(p)
      PROVE  StacksOK'
  BY <1>9, EmptyStack, StacksKept DEF Abort
<1>10. CASE UNCHANGED vars
  BY <1>10 DEF vars, StacksOK, StackOK, Knows, Wanted
<1> QED
  BY <1>1, <1>2, <1>3, <1>4, <1>5, <1>6, <1>7, <1>8, <1>9, <1>10 DEF Next, Work

\* The inductive invariant of commands that do not overlap.
LEMMA StacksCorrect ==
  ASSUME Sequential
  PROVE  Spec => [](TypeOK /\ StacksOK)
<1>1. Init => TypeOK /\ StacksOK
  <2> SUFFICES ASSUME Init PROVE TypeOK /\ StacksOK
    OBVIOUS
  <2>1. TypeOK
    BY EmptySeq DEF Init, TypeOK
  <2>2. StacksOK
    BY EmptyStack DEF Init, StacksOK
  <2> QED
    BY <2>1, <2>2
<1>2. TypeOK /\ StacksOK /\ [Next]_vars => (TypeOK /\ StacksOK)'
  BY TypeStep, StacksStep
<1> QED
  BY <1>1, <1>2, PTL DEF Spec

-----------------------------------------------------------------------------
(* What the operator of a single command line can rely on.                 *)

(***************************************************************************)
(* When commands do not overlap, a body computes and records only while    *)
(* every dependency of its workflow has its PASS: materializing the later  *)
(* dependencies takes no earlier one back, whatever the registry.          *)
(***************************************************************************)
THEOREM GateCorrect ==
  ASSUME Sequential
  PROVE  Spec => []DependencyGate
<1>1. TypeOK /\ StacksOK => DependencyGate
  BY TopKnows DEF DependencyGate, Knows, Blockers
<1> QED
  BY <1>1, StacksCorrect, PTL

(***************************************************************************)
(* When commands do not overlap, materializing dependencies executes no    *)
(* workflow that has passed, although the decision to execute it precedes  *)
(* the execution of its own dependencies.                                  *)
(***************************************************************************)
THEOREM ReuseCorrect ==
  ASSUME Sequential
  PROVE  Spec => CompletedIsReused
<1> DEFINE Reused ==
      \A p \in Process :
        Running(p) /\ Top(p).stage = "materialize"
          /\ frames'[p] # <<>> /\ frames'[p][Len(frames'[p])].stage = "body"
          => Depth(p) = 1 \/ result[Top(p).wf] # "PASS"
<1>1. TypeOK /\ StacksOK => Reused
  BY TopKnows DEF Wanted
<1>2. TypeOK /\ StacksOK /\ [Next]_vars => [Reused]_vars
  BY <1>1
<1> QED
  BY <1>2, StacksCorrect, PTL DEF Spec, CompletedIsReused

(***************************************************************************)
(* When commands do not overlap, a PASS is taken back only by the body of  *)
(* the workflow the operator named, never while dependencies of a later    *)
(* one are materialized.                                                   *)
(***************************************************************************)
THEOREM UpstreamCorrect ==
  ASSUME Sequential
  PROVE  Spec => UpstreamNeverInvalidated
<1> DEFINE Named ==
      \A w \in Workflow :
        result[w] = "PASS" /\ result'[w] # "PASS"
          => \E p \in Process : Depth(p) = 1 /\ frames[p][1].wf = w
<1>1. TypeOK /\ StacksOK /\ [Next]_vars => Named
  <2> SUFFICES ASSUME TypeOK, StacksOK, [Next]_vars,
                      NEW w \in Workflow, result[w] = "PASS", result'[w] # "PASS"
               PROVE  \E p \in Process : Depth(p) = 1 /\ frames[p][1].wf = w
    OBVIOUS
  <2>1. PICK p \in Process : WriteResult(p)
    BY DEF Next, Work, Command, SkipCompleted, Descend, Refresh, StartBody, Compute,
           WriteEvidence, Diagnose, Abort, vars
  <2>2. Top(p).wf = w
    BY <2>1, TopType DEF WriteResult, TypeOK
  <2>3. Depth(p) = 1
    BY <2>1, <2>2, TopKnows DEF WriteResult, Wanted
  <2> QED
    BY <2>2, <2>3 DEF Top
<1>2. TypeOK /\ StacksOK /\ [Next]_vars => [Named]_vars
  BY <1>1
<1> QED
  BY <1>2, StacksCorrect, PTL DEF Spec, UpstreamNeverInvalidated

(***************************************************************************)
(* When commands do not overlap, the outcome _persist records is that of   *)
(* the evidence on disk.                                                   *)
(***************************************************************************)
THEOREM RecordedEvidenceCorrect ==
  ASSUME Sequential
  PROVE  Spec => EvidenceMatchesResult
<1> DEFINE Matches == \A w \in Workflow : result'[w] # result[w] => result'[w] = evidence'[w]
<1>1. TypeOK /\ StacksOK /\ [Next]_vars => Matches
  <2> SUFFICES ASSUME TypeOK, StacksOK, [Next]_vars,
                      NEW w \in Workflow, result'[w] # result[w]
               PROVE  result'[w] = evidence'[w]
    OBVIOUS
  <2>1. PICK p \in Process : WriteResult(p)
    BY DEF Next, Work, Command, SkipCompleted, Descend, Refresh, StartBody, Compute,
           WriteEvidence, Diagnose, Abort, vars
  <2>2. Top(p).wf = w
    BY <2>1, TopType DEF WriteResult, TypeOK
  <2>3. Top(p).outcome = evidence[w]
    BY <2>1, <2>2, TopKnows DEF WriteResult, Knows
  <2> QED
    BY <2>1, <2>2, <2>3 DEF WriteResult, TypeOK
<1>2. TypeOK /\ StacksOK /\ [Next]_vars => [Matches]_vars
  BY <1>1
<1> QED
  BY <1>2, StacksCorrect, PTL DEF Spec, EvidenceMatchesResult

=============================================================================
