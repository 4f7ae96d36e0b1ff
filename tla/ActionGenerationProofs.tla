----------------------- MODULE ActionGenerationProofs -----------------------
(***************************************************************************)
(* Theorems about ActionGeneration for every corpus, number of endpoints   *)
(* and candidates, and every sequence of interruptions and changes.        *)
(***************************************************************************)
EXTENDS ActionGeneration, TLAPS

-----------------------------------------------------------------------------
(* The local variables of the process.                                     *)

\* A process that has just entered a phase.
LEMMA FreshType ==
  ASSUME NEW phase \in Phase
  PROVE  /\ Fresh(phase) \in Run
         /\ Fresh(phase).phase = phase
<1>1. 1 \in 1..(LastEndpoint + 1) /\ 0 \in 0..(LastCandidate + 1)
  BY GenerationAssumption
<1> QED
  BY <1>1 DEF Fresh, Run

\* The loop goes on with the next endpoint.
LEMMA NextEndpointType ==
  ASSUME NEW r \in Run, r.endpoint <= LastEndpoint
  PROVE  /\ NextEndpoint(r) \in Run
         /\ NextEndpoint(r).endpoint = r.endpoint + 1
         /\ NextEndpoint(r).candidate = 0
         /\ NextEndpoint(r).phase = r.phase
         /\ NextEndpoint(r).cached = r.cached
         /\ NextEndpoint(r).rejections = r.rejections
         /\ NextEndpoint(r).written = r.written
<1>1. r.endpoint + 1 \in 1..(LastEndpoint + 1) /\ 0 \in 0..(LastCandidate + 1)
  BY GenerationAssumption DEF Run
<1>2. PICK n \in 1..(LastEndpoint + 1) : n = r.endpoint + 1
  BY <1>1
<1>3. NextEndpoint(r) = [r EXCEPT !.endpoint = n, !.candidate = 0]
  BY <1>2 DEF NextEndpoint
<1> QED
  BY <1>1, <1>2, <1>3 DEF Run

\* The loop goes on with the next candidate, having written what it has.
LEMMA NextCandidateType ==
  ASSUME NEW r \in Run, r.candidate <= LastCandidate, NEW w \in SUBSET Action
  PROVE  LET t == [r EXCEPT !.written = w, !.candidate = @ + 1]
             u == [r EXCEPT !.candidate = @ + 1]
         IN  /\ t \in Run
             /\ t.endpoint = r.endpoint /\ t.candidate = r.candidate + 1
             /\ t.phase = r.phase /\ t.cached = r.cached
             /\ t.rejections = r.rejections /\ t.written = w
             /\ u \in Run
             /\ u.endpoint = r.endpoint /\ u.candidate = r.candidate + 1
             /\ u.phase = r.phase /\ u.cached = r.cached
             /\ u.rejections = r.rejections /\ u.written = r.written
<1>1. r.candidate + 1 \in 0..(LastCandidate + 1)
  BY GenerationAssumption DEF Run
<1>2. PICK n \in 0..(LastCandidate + 1) : n = r.candidate + 1
  BY <1>1
<1>3. /\ [r EXCEPT !.written = w, !.candidate = @ + 1]
           = [r EXCEPT !.written = w, !.candidate = n]
      /\ [r EXCEPT !.candidate = @ + 1] = [r EXCEPT !.candidate = n]
  BY <1>2
<1> QED
  BY <1>2, <1>3 DEF Run

\* Every phase is one a process can enter.
LEMMA PhaseTypes ==
  /\ Idle \in Run
  /\ \A phase \in {"prepare", "boot", "open", "shutdown", "certify"} :
       Fresh(phase) \in Run /\ Fresh(phase).phase = phase
  /\ Idle.phase = "idle"
  BY FreshType DEF Idle, Phase

\* What _load_endpoint_fit_cache returns are endpoints.
LEMMA CachedRejectionsType == TypeOK => CachedRejections \subseteq Endpoint
  BY DEF TypeOK, CachedRejections

\* A process that starts the loop with the rejections c.
LEMMA OpenedType ==
  ASSUME NEW c \in SUBSET Endpoint
  PROVE  LET r == [Fresh("generate") EXCEPT !.cached = c, !.rejections = c]
         IN  /\ r \in Run /\ r.phase = "generate"
             /\ r.cached = c /\ r.rejections = c
             /\ r.endpoint = 1 /\ r.candidate = 0 /\ r.written = {}
<1>1. Fresh("generate") \in Run
  BY FreshType DEF Phase
<1>2. /\ Fresh("generate").endpoint = 1 /\ Fresh("generate").candidate = 0
      /\ Fresh("generate").written = {} /\ Fresh("generate").phase = "generate"
  BY DEF Fresh
<1> QED
  BY <1>1, <1>2 DEF Run

-----------------------------------------------------------------------------
(* Type correctness.                                                       *)

\* What stays typed when a step touches the process and the emulator only.
LEMMA OutsideFiles ==
  ASSUME TypeOK, UNCHANGED <<setting, files>>, run' \in Run,
         emulators' \in 0..MaxEmulators, abandoned' \in Nat, tried' \subseteq Setting
  PROVE  TypeOK'
  BY DEF TypeOK, files

\* An emulator session keeps the types.
LEMMA SessionType ==
  ASSUME TypeOK, Session, run.phase \in {"boot", "shutdown"} => emulators > 0
  PROVE  TypeOK'
<1> USE PhaseTypes
<1> USE DEF device
<1>1. /\ emulators \in 0..MaxEmulators /\ MaxEmulators \in Nat
      /\ abandoned \in Nat /\ tried \subseteq Setting
  BY GenerationAssumption DEF TypeOK
<1>2. CASE Start \/ SkipGeneration \/ PrepareFails \/ Booted
  BY <1>1, <1>2, OutsideFiles DEF Start, SkipGeneration, PrepareFails, Booted
<1>3. CASE Launch
  BY <1>1, <1>3, OutsideFiles DEF Launch
<1>4. CASE BootDeadline \/ ShutDown
  BY <1>1, <1>4, OutsideFiles DEF BootDeadline, ShutDown
<1>5. CASE BootUnanswered \/ ShutdownUnanswered
  BY <1>1, <1>5, OutsideFiles DEF BootUnanswered, ShutdownUnanswered
<1>6. CASE GenerationFails
  <2>1. [run EXCEPT !.phase = "shutdown", !.failed = TRUE] \in Run
    BY DEF TypeOK, Run, Phase
  <2> QED
    BY <1>1, <1>6, <2>1, OutsideFiles DEF GenerationFails
<1> QED
  BY <1>2, <1>3, <1>4, <1>5, <1>6 DEF Session

\* The loop keeps the types.
LEMMA GenerationType ==
  ASSUME TypeOK, Generation
  PROVE  TypeOK'
<1> USE PhaseTypes
<1> USE DEF device
<1>1. /\ emulators \in 0..MaxEmulators /\ abandoned \in Nat /\ run \in Run
      /\ tried \subseteq Setting /\ tried \cup {setting} \subseteq Setting
  BY DEF TypeOK
<1>2. CASE NothingEligible
  BY <1>1, <1>2, OutsideFiles DEF NothingEligible
<1>3. CASE LoadCache
  BY <1>1, <1>3, CachedRejectionsType, OpenedType, OutsideFiles DEF LoadCache
<1>4. CASE SkipCached \/ EndEndpoint
  BY <1>1, <1>4, NextEndpointType, OutsideFiles DEF SkipCached, EndEndpoint, Looping
<1>5. CASE Reject
  <2>0. run.rejections \subseteq Endpoint /\ run.endpoint \in Endpoint
    BY <1>1, <1>5, GenerationAssumption DEF Reject, Looping, Run, Endpoint
  <2>1. PICK k \in SUBSET Endpoint : k = run.rejections \cup {run.endpoint}
    BY <2>0
  <2>2. [run EXCEPT !.rejections = k] \in Run
    BY <1>1, <2>1 DEF Run
  <2>3. [run EXCEPT !.rejections = k].endpoint <= LastEndpoint
    BY <1>1, <1>5 DEF Reject, Looping, Run
  <2>4. run' \in Run
    BY <1>5, <2>1, <2>2, <2>3, NextEndpointType DEF Reject
  <2>5. fitCache' = [key |-> CacheKey[setting], rejections |-> k]
    BY <1>5, <2>1 DEF Reject
  <2> QED
    BY <1>1, <1>5, <2>4, <2>5 DEF TypeOK, Reject
<1>6. CASE FitEndpoint
  <2>1. [run EXCEPT !.candidate = 1] \in Run
    BY <1>1, GenerationAssumption DEF Run
  <2> QED
    BY <1>1, <1>6, <2>1, OutsideFiles DEF FitEndpoint
<1>7. CASE SkipCandidate
  <2>1. run.candidate <= LastCandidate /\ run.written \in SUBSET Action
    BY <1>1, <1>7, GenerationAssumption DEF SkipCandidate, InCandidates, Run
  <2>2. run' \in Run
    BY <1>1, <1>7, <2>1, NextCandidateType DEF SkipCandidate
  <2> QED
    BY <1>1, <1>7, <2>2, OutsideFiles DEF SkipCandidate
<1>8. CASE WriteAction
  <2>0. run.written \subseteq Action /\ This \in Action
    <3>1. run.written \subseteq Action
      BY <1>1 DEF Run
    <3>2. Valid[setting] \subseteq Action
      BY GenerationAssumption DEF TypeOK
    <3> QED
      BY <1>8, <3>1, <3>2 DEF WriteAction
  <2>1. PICK w \in SUBSET Action : w = run.written \cup {This}
    BY <2>0
  <2>2. run' \in Run
    <3>1. run.candidate <= LastCandidate
      BY <1>1, <1>8, GenerationAssumption DEF WriteAction, InCandidates
    <3>2. run' = [run EXCEPT !.written = w, !.candidate = @ + 1]
      BY <1>1, <1>8, <2>1 DEF WriteAction, Run
    <3> QED
      BY <1>1, <3>1, <3>2, NextCandidateType
  <2>3. actions' \subseteq Action
    BY <1>8, <2>1 DEF WriteAction
  <2> QED
    BY <1>1, <1>8, <2>2, <2>3 DEF TypeOK, WriteAction, Origin
<1>9. CASE Finish
  BY <1>1, <1>9 DEF TypeOK, Finish, Origin, Run
<1> QED
  BY <1>2, <1>3, <1>4, <1>5, <1>6, <1>7, <1>8, <1>9 DEF Generation

\* The steps outside the session and the loop.
LEMMA OtherType ==
  ASSUME TypeOK, (\E s \in Setting : Reconfigure(s)) \/ Certify \/ CertifyNothing \/ Kill
  PROVE  TypeOK'
<1> USE PhaseTypes
<1>1. ASSUME NEW s \in Setting, Reconfigure(s) PROVE TypeOK'
  BY <1>1 DEF TypeOK, Reconfigure, files, device
<1>2. CASE Certify
  BY <1>2 DEF TypeOK, Certify, device
<1>3. CASE CertifyNothing
  BY <1>3, OutsideFiles DEF TypeOK, CertifyNothing, device
<1>4. CASE Kill
  <2>1. abandoned + (IF HoldingEmulator THEN 1 ELSE 0) \in Nat
    BY DEF TypeOK
  <2> QED
    BY <1>4, <2>1, OutsideFiles DEF TypeOK, Kill
<1> QED
  BY <1>1, <1>2, <1>3, <1>4

\* Every step keeps the types and accounts for the emulators.
LEMMA TypeStep ==
  TypeOK /\ EmulatorsAccountedFor /\ [Next]_vars => TypeOK' /\ EmulatorsAccountedFor'
<1> SUFFICES ASSUME TypeOK, EmulatorsAccountedFor, [Next]_vars
             PROVE  TypeOK' /\ EmulatorsAccountedFor'
  OBVIOUS
<1>0. emulators \in Nat /\ abandoned \in Nat /\ run \in Run
  BY GenerationAssumption DEF TypeOK
<1>1. TypeOK'
  <2>1. run.phase \in {"boot", "shutdown"} => emulators > 0
    BY <1>0 DEF EmulatorsAccountedFor, HoldingEmulator
  <2>2. CASE UNCHANGED vars
    BY <2>2 DEF vars, files, TypeOK
  <2> QED
    BY <2>1, <2>2, SessionType, GenerationType, OtherType DEF Next
<1>2. EmulatorsAccountedFor'
  <2> USE <1>0, PhaseTypes DEF EmulatorsAccountedFor, HoldingEmulator, device
  <2>2. CASE \E s \in Setting : Reconfigure(s)
    BY <2>2 DEF Reconfigure
  <2>3. CASE Session
    <3>1. CASE Start \/ SkipGeneration \/ PrepareFails \/ Booted
      BY <3>1 DEF Start, SkipGeneration, PrepareFails, Booted
    <3>2. CASE Launch
      BY <3>2 DEF Launch
    <3>3. CASE BootDeadline \/ ShutDown
      BY <3>3 DEF BootDeadline, ShutDown
    <3>4. CASE BootUnanswered \/ ShutdownUnanswered
      BY <3>4 DEF BootUnanswered, ShutdownUnanswered
    <3>5. CASE GenerationFails
      <4>1. run'.phase = "shutdown"
        BY <3>5 DEF GenerationFails, Run
      <4> QED
        BY <3>5, <4>1 DEF GenerationFails
    <3> QED
      BY <2>3, <3>1, <3>2, <3>3, <3>4, <3>5 DEF Session
  <2>4. CASE Generation
    <3>1. UNCHANGED device /\ run.phase \in {"open", "generate"}
      BY <2>4 DEF Generation, NothingEligible, LoadCache, SkipCached, Reject, FitEndpoint,
                  SkipCandidate, WriteAction, EndEndpoint, Finish, Looping, InCandidates
    <3>2. run'.phase \in {"generate", "shutdown"}
      <4>1. CASE NothingEligible \/ Finish
        BY <4>1 DEF NothingEligible, Finish
      <4>2. CASE LoadCache
        BY <4>2, CachedRejectionsType, OpenedType DEF LoadCache
      <4>3. CASE SkipCached \/ EndEndpoint
        BY <4>3, NextEndpointType DEF SkipCached, EndEndpoint, Looping
      <4>4. CASE Reject
        BY <4>4 DEF Reject, Looping, Run, NextEndpoint
      <4>5. CASE FitEndpoint \/ SkipCandidate \/ WriteAction
        BY <4>5 DEF FitEndpoint, SkipCandidate, WriteAction, InCandidates, Looping, Run
      <4> QED
        BY <2>4, <4>1, <4>2, <4>3, <4>4, <4>5 DEF Generation
    <3> QED
      BY <3>1, <3>2
  <2>5. CASE Certify \/ CertifyNothing
    BY <2>5 DEF Certify, CertifyNothing
  <2>6. CASE Kill
    BY <2>6 DEF Kill
  <2>7. CASE UNCHANGED vars
    BY <2>7 DEF vars
  <2> QED
    BY <2>2, <2>3, <2>4, <2>5, <2>6, <2>7 DEF Next
<1> QED
  BY <1>1, <1>2

\* A process that has not run, with no emulator and no file.
LEMMA TypeInit == Init => TypeOK /\ EmulatorsAccountedFor
<1> SUFFICES ASSUME Init PROVE TypeOK /\ EmulatorsAccountedFor
  OBVIOUS
<1>1. emulators \in 0..MaxEmulators
  BY GenerationAssumption DEF Init
<1>2. run \in Run /\ origin \in Origin
  BY PhaseTypes DEF Init, Origin
<1>3. TypeOK
  BY <1>1, <1>2 DEF Init, TypeOK
<1> QED
  BY <1>3, PhaseTypes DEF Init, EmulatorsAccountedFor, HoldingEmulator

(***************************************************************************)
(* Files, emulators and the process keep their types.                      *)
(***************************************************************************)
THEOREM TypeCorrect == Spec => []TypeOK
BY TypeInit, TypeStep, PTL DEF Spec

(***************************************************************************)
(* Whatever fails, is killed and is repeated, the emulators alive are the  *)
(* one the session holds and those a kill or an unanswered adb call left.  *)
(***************************************************************************)
THEOREM EmulatorCorrect == Spec => []EmulatorsAccountedFor
BY TypeInit, TypeStep, PTL DEF Spec

-----------------------------------------------------------------------------
(* Interrupted generation.                                                 *)

\* Only these steps change a file or leave the process inside the loop.
LEMMA LoopSteps ==
  ASSUME TypeOK, [Next]_vars
  PROVE  \/ LoadCache \/ SkipCached \/ Reject \/ FitEndpoint \/ SkipCandidate
         \/ WriteAction \/ EndEndpoint \/ Finish
         \/ UNCHANGED <<fitCache, actions, origin, tried>> /\ run'.phase # "generate"
         \/ UNCHANGED vars
<1>1. ASSUME NEW s \in Setting, Reconfigure(s)
      PROVE  UNCHANGED <<fitCache, actions, origin, tried>> /\ run'.phase # "generate"
  BY <1>1, PhaseTypes DEF Reconfigure, files
<1>2. CASE Session
  <2>1. CASE GenerationFails
    BY <2>1 DEF GenerationFails, files, TypeOK, Run
  <2>2. CASE ShutDown \/ PrepareFails \/ ShutdownUnanswered
    BY <2>2, PhaseTypes DEF ShutDown, PrepareFails, ShutdownUnanswered, files
  <2>3. CASE Start \/ SkipGeneration \/ Launch \/ Booted \/ BootDeadline \/ BootUnanswered
    BY <2>3, PhaseTypes DEF Start, SkipGeneration, Launch, Booted, BootDeadline,
                            BootUnanswered, files
  <2> QED
    BY <1>2, <2>1, <2>2, <2>3 DEF Session
<1>3. CASE NothingEligible
  BY <1>3, PhaseTypes DEF NothingEligible, files
<1>4. CASE Certify \/ CertifyNothing \/ Kill
  BY <1>4, PhaseTypes DEF Certify, CertifyNothing, Kill, files
<1> QED
  BY <1>1, <1>2, <1>3, <1>4 DEF Next, Generation

\* What is produced are actions.
LEMMA ProducedType ==
  ASSUME NEW s \in Setting, NEW a \in Produced(s)
  PROVE  /\ a[1] \in 1..LastEndpoint /\ a[2] \in 1..LastCandidate
         /\ a = <<a[1], a[2]>> /\ a[1] \notin Rejected[s] /\ a \in Valid[s]
<1>1. Valid[s] \subseteq Action
  BY GenerationAssumption
<1> QED
  BY <1>1 DEF Produced, Action, Endpoint

\* Rejections never forgotten: the loop starts with what the cache knows.
LEMMA KnownStep == TypeOK /\ RejectionsKnown /\ [Next]_vars => RejectionsKnown'
<1> SUFFICES ASSUME TypeOK, RejectionsKnown, [Next]_vars PROVE RejectionsKnown'
  OBVIOUS
<1> USE DEF RejectionsKnown
<1>1. run \in Run
  BY DEF TypeOK
<1>2. CASE LoadCache
  <2>1. run'.rejections = CachedRejections /\ UNCHANGED <<fitCache, setting>>
    BY <1>2, CachedRejectionsType, OpenedType DEF LoadCache, files
  <2> QED
    BY <2>1 DEF CachedRejections
<1>3. CASE SkipCached \/ EndEndpoint
  <2>1. /\ run'.rejections = run.rejections /\ run.phase = "generate"
        /\ UNCHANGED <<fitCache, setting>>
    BY <1>1, <1>3, NextEndpointType DEF SkipCached, EndEndpoint, Looping, files
  <2> QED
    BY <2>1
<1>4. CASE Reject
  <2>1. run'.rejections = fitCache'.rejections
    BY <1>1, <1>4 DEF Reject, NextEndpoint, Run
  <2> QED
    BY <2>1
<1>5. CASE FitEndpoint \/ SkipCandidate \/ WriteAction
  <2>1. /\ run'.rejections = run.rejections /\ run.phase = "generate"
        /\ UNCHANGED <<fitCache, setting>>
    BY <1>1, <1>5 DEF FitEndpoint, SkipCandidate, WriteAction, InCandidates, Looping, Run, files
  <2> QED
    BY <2>1
<1>6. CASE Finish
  BY <1>6, PhaseTypes DEF Finish
<1>7. CASE run'.phase # "generate"
  BY <1>7
<1>8. CASE UNCHANGED vars
  BY <1>8 DEF vars, files
<1> QED
  BY <1>2, <1>3, <1>4, <1>5, <1>6, <1>7, <1>8, LoopSteps

(***************************************************************************)
(* _persist_endpoint_fit_cache never loses a rejection found for the same  *)
(* cohort and record count, in whichever run it was found.                 *)
(***************************************************************************)
THEOREM RejectionsCorrect == Spec => RejectionsKept
<1>1. Init => RejectionsKnown
  BY DEF Init, RejectionsKnown
<1>2. TypeOK /\ RejectionsKnown /\ [Next]_vars =>
        [fitCache # NoFile =>
           /\ fitCache' # NoFile
           /\ fitCache'.key = fitCache.key => fitCache.rejections \subseteq fitCache'.rejections]_vars
  <2> SUFFICES ASSUME TypeOK, RejectionsKnown, [Next]_vars, fitCache # NoFile
               PROVE  /\ fitCache' # NoFile
                      /\ fitCache'.key = fitCache.key =>
                           fitCache.rejections \subseteq fitCache'.rejections
    BY DEF vars
  <2>1. CASE Reject
    <3> DEFINE kept == run.rejections \cup {run.endpoint}
    <3>1. /\ fitCache' = [key |-> CacheKey[setting], rejections |-> kept]
          /\ run.phase = "generate" /\ run.endpoint <= LastEndpoint
      BY <2>1 DEF Reject, Looping
    <3>2. setting \in Setting /\ kept \in SUBSET Endpoint
      BY <3>1, GenerationAssumption DEF TypeOK, Run, Endpoint
    <3>3. fitCache' # NoFile
      BY <3>1, <3>2, GenerationAssumption
    <3>4. fitCache.key = CacheKey[setting] => fitCache.rejections \subseteq kept
      BY <3>1 DEF RejectionsKnown
    <3> QED
      BY <3>1, <3>3, <3>4
  <2>2. CASE UNCHANGED fitCache
    BY <2>2
  <2>3. ~Reject => UNCHANGED fitCache
    BY LoopSteps DEF LoadCache, SkipCached, FitEndpoint, SkipCandidate, WriteAction,
                     EndEndpoint, Finish, vars, files
  <2> QED
    BY <2>1, <2>2, <2>3
<1> QED
  BY <1>1, <1>2, KnownStep, TypeCorrect, PTL DEF Spec, RejectionsKept

-----------------------------------------------------------------------------
(* Resuming: what the loop has written under setting s when it skips the   *)
(* cached endpoints k and stands at endpoint e and candidate c.            *)
Kept(s, k) == {a \in Produced(s) : a[1] \notin k}
WrittenAt(s, k, e, c) == {a \in Kept(s, k) : a[1] < e \/ (a[1] = e /\ a[2] < c)}

\* Nothing lies before the first endpoint, and everything before the end.
LEMMA WrittenEnds ==
  ASSUME NEW s \in Setting, NEW k, NEW c \in Nat
  PROVE  /\ WrittenAt(s, k, 1, 0) = {}
         /\ WrittenAt(s, k, LastEndpoint + 1, c) = Kept(s, k)
BY ProducedType, GenerationAssumption DEF WrittenAt, Kept

\* No candidate lies between the fit of an endpoint and its first candidate.
LEMMA WrittenFit ==
  ASSUME NEW s \in Setting, NEW k, NEW e \in Endpoint
  PROVE  WrittenAt(s, k, e, 1) = WrittenAt(s, k, e, 0)
BY ProducedType, GenerationAssumption DEF WrittenAt, Kept, Endpoint

\* A rejected or cached endpoint, and one whose candidates are all done, is passed.
LEMMA WrittenEndpoint ==
  ASSUME NEW s \in Setting, NEW k, NEW e \in Endpoint, NEW c \in 0..(LastCandidate + 1),
         e \in Rejected[s] \/ e \in k \/ c = LastCandidate + 1
  PROVE  WrittenAt(s, k, e + 1, 0) = WrittenAt(s, k, e, c)
<1>1. ASSUME NEW a \in Kept(s, k)
      PROVE  a[1] < e + 1 \/ (a[1] = e + 1 /\ a[2] < 0) <=> a[1] < e \/ (a[1] = e /\ a[2] < c)
  <2>1. /\ a[1] \in 1..LastEndpoint /\ a[2] \in 1..LastCandidate
        /\ a[1] \notin Rejected[s] /\ a[1] \notin k
    BY <1>1, ProducedType DEF Kept
  <2>2. a[1] = e => c = LastCandidate + 1
    BY <2>1
  <2> QED
    BY <2>1, <2>2, GenerationAssumption DEF Endpoint
<1> QED
  BY <1>1 DEF WrittenAt

\* One candidate further: the action is added when it is produced.
LEMMA WrittenCandidate ==
  ASSUME NEW s \in Setting, NEW k, NEW e \in Endpoint, NEW c \in 1..LastCandidate,
         e \notin Rejected[s], e \notin k
  PROVE  WrittenAt(s, k, e, c + 1) =
           WrittenAt(s, k, e, c) \cup (IF <<e, c>> \in Valid[s] THEN {<<e, c>>} ELSE {})
<1>1. ASSUME NEW a \in Kept(s, k)
      PROVE  a[1] < e \/ (a[1] = e /\ a[2] < c + 1) <=>
               (a[1] < e \/ (a[1] = e /\ a[2] < c)) \/ (a = <<e, c>> /\ <<e, c>> \in Valid[s])
  <2>1. /\ a[1] \in 1..LastEndpoint /\ a[2] \in 1..LastCandidate
        /\ a = <<a[1], a[2]>> /\ a \in Valid[s]
    BY <1>1, ProducedType DEF Kept
  <2>2. a = <<e, c>> <=> a[1] = e /\ a[2] = c
    BY <2>1
  <2>3. a[2] < c + 1 <=> a[2] < c \/ a[2] = c
    BY <2>1, GenerationAssumption
  <2> QED
    BY <2>1, <2>2, <2>3
<1>2. <<e, c>> \in Valid[s] => <<e, c>> \in Kept(s, k)
  BY DEF Kept, Produced
<1> QED
  BY <1>1, <1>2 DEF WrittenAt

\* What is known to be rejected under a key only grows.
LEMMA TriedGrows ==
  ASSUME TypeOK, [Next]_vars
  PROVE  /\ tried \subseteq tried'
         /\ \A key : RejectedByTried(key) \subseteq RejectedByTried(key)'
<1>1. tried \subseteq tried'
  BY LoopSteps DEF LoadCache, SkipCached, Reject, FitEndpoint, SkipCandidate, WriteAction,
                   EndEndpoint, Finish, vars
<1> QED
  BY <1>1 DEF RejectedByTried

\* A setting tried has put at most what it rejects under its key.
LEMMA TriedRejects ==
  ASSUME NEW s \in Setting, s \in tried
  PROVE  Rejected[s] \subseteq RejectedByTried(CacheKey[s])
BY DEF RejectedByTried

\* What is written to the cache was rejected by a run of its key.
LEMMA CacheStep ==
  ASSUME TypeOK, CacheOK, LoopOK, [Next]_vars
  PROVE  CacheOK'
<1>1. CASE Reject
  <2> DEFINE kept == run.rejections \cup {run.endpoint}
  <2>1. /\ fitCache' = [key |-> CacheKey[setting], rejections |-> kept]
        /\ run.phase = "generate" /\ run.endpoint \in Rejected[setting]
    BY <1>1 DEF Reject, Looping
  <2>2. setting \in Setting /\ kept \subseteq RejectedByTried(CacheKey[setting])
    BY <2>1, TriedRejects DEF TypeOK, LoopOK
  <2>3. fitCache'.key = CacheKey[setting] /\ fitCache'.rejections = kept
    BY <2>1
  <2> HIDE DEF kept
  <2>4. kept \subseteq RejectedByTried(CacheKey[setting])'
    BY <2>2, TriedGrows, <1>1 DEF Reject, RejectedByTried
  <2> QED
    BY <1>1, <2>3, <2>4 DEF CacheOK, Reject, RejectedByTried
<1>2. ~Reject => UNCHANGED fitCache
  BY LoopSteps DEF LoadCache, SkipCached, FitEndpoint, SkipCandidate, WriteAction,
                   EndEndpoint, Finish, vars, files
<1> QED
  BY <1>1, <1>2, TriedGrows DEF CacheOK, RejectedByTried

\* LoopOK, with what is written as a function of the place.
LEMMA LoopWritten ==
  LoopOK <=> (run.phase = "generate" =>
                /\ setting \in tried
                /\ run.cached \subseteq RejectedByTried(CacheKey[setting])
                /\ run.rejections \subseteq RejectedByTried(CacheKey[setting])
                /\ run.candidate # 0 => run.endpoint \notin Rejected[setting] \cup run.cached
                /\ run.written = WrittenAt(setting, run.cached, run.endpoint, run.candidate))
<1>1. \A e, c : WrittenAt(setting, run.cached, e, c)
        = {a \in Produced(setting) : a[1] \notin run.cached
                                     /\ (a[1] < e \/ (a[1] = e /\ a[2] < c))}
  BY DEF WrittenAt, Kept
<1> QED
  BY <1>1 DEF LoopOK, Passed

\* Every step of the loop, and every step into it, keeps the place.
LEMMA LoopStep ==
  ASSUME TypeOK, CacheOK, LoopOK, [Next]_vars
  PROVE  LoopOK'
<1> DEFINE known == RejectedByTried(CacheKey[setting])
           There ==
             /\ setting' = setting /\ setting \in tried'
             /\ run'.cached \subseteq known'
             /\ run'.rejections \subseteq known'
             /\ run'.candidate # 0 => run'.endpoint \notin Rejected[setting] \cup run'.cached
             /\ run'.written = WrittenAt(setting, run'.cached, run'.endpoint, run'.candidate)
<1>0. setting' = setting => known \subseteq known'
  BY TriedGrows DEF RejectedByTried
<1>1. There => LoopOK'
  BY DEF LoopOK, Passed, WrittenAt, Kept, Produced
<1> HIDE DEF known
<1>2. /\ run \in Run /\ setting \in Setting
      /\ run.endpoint \in Nat /\ run.candidate \in 0..(LastCandidate + 1)
      /\ run.endpoint <= LastEndpoint => run.endpoint \in Endpoint
  BY GenerationAssumption DEF TypeOK, Run, Endpoint
<1>3. run.phase = "generate" =>
        /\ setting \in tried /\ setting \in tried'
        /\ run.cached \subseteq known
        /\ run.rejections \subseteq known
        /\ run.candidate # 0 => run.endpoint \notin Rejected[setting] \cup run.cached
        /\ run.written = WrittenAt(setting, run.cached, run.endpoint, run.candidate)
  BY LoopWritten, TriedGrows DEF known
<1>4. CASE LoadCache
  <2>1. /\ run'.cached = CachedRejections /\ run'.rejections = CachedRejections
        /\ run'.written = {} /\ run'.endpoint = 1 /\ run'.candidate = 0
        /\ setting' = setting /\ setting \in tried'
    BY <1>4, CachedRejectionsType, OpenedType DEF LoadCache
  <2>2. CachedRejections \subseteq known
    BY <1>2 DEF CachedRejections, CacheOK, known
  <2>3. WrittenAt(setting, CachedRejections, 1, 0) = {}
    BY <1>2, WrittenEnds
  <2> QED
    BY <1>0, <1>1, <2>1, <2>2, <2>3
<1>5. CASE SkipCached \/ EndEndpoint
  <2>1. /\ Looping /\ run' = NextEndpoint(run) /\ setting' = setting
        /\ run.endpoint \in run.cached \/ run.candidate = LastCandidate + 1
    BY <1>5 DEF SkipCached, EndEndpoint
  <2>2. /\ run'.endpoint = run.endpoint + 1 /\ run'.candidate = 0
        /\ run'.cached = run.cached /\ run'.rejections = run.rejections
        /\ run'.written = run.written
    BY <1>2, <2>1, NextEndpointType DEF Looping
  <2>3. WrittenAt(setting, run.cached, run.endpoint + 1, 0)
          = WrittenAt(setting, run.cached, run.endpoint, run.candidate)
    BY <1>2, <2>1, WrittenEndpoint DEF Looping
  <2> QED
    BY <1>0, <1>1, <1>3, <2>1, <2>2, <2>3 DEF Looping
<1>6. CASE Reject
  <2> DEFINE kept == run.rejections \cup {run.endpoint}
             r == [run EXCEPT !.rejections = kept]
  <2>1. /\ Looping /\ run' = NextEndpoint(r) /\ setting' = setting
        /\ run.endpoint \in Rejected[setting]
    BY <1>6 DEF Reject
  <2>2. kept \in SUBSET Endpoint
    BY <1>2, <2>1 DEF Looping, Run
  <2>3. /\ r \in Run /\ r.endpoint = run.endpoint /\ r.cached = run.cached
        /\ r.rejections = kept /\ r.written = run.written
    BY <1>2, <2>2 DEF Run
  <2> HIDE DEF r
  <2>4. /\ run'.endpoint = run.endpoint + 1 /\ run'.candidate = 0
        /\ run'.cached = run.cached /\ run'.rejections = kept
        /\ run'.written = run.written
    BY <2>1, <2>3, NextEndpointType DEF Looping
  <2>5. WrittenAt(setting, run.cached, run.endpoint + 1, 0)
          = WrittenAt(setting, run.cached, run.endpoint, run.candidate)
    BY <1>2, <2>1, WrittenEndpoint DEF Looping
  <2>6. kept \subseteq known
    BY <1>2, <1>3, <2>1, TriedRejects DEF Looping, known
  <2> HIDE DEF kept
  <2> QED
    BY <1>0, <1>1, <1>3, <2>1, <2>4, <2>5, <2>6 DEF Looping
<1>7. CASE FitEndpoint
  <2>1. /\ Looping /\ run.candidate = 0 /\ run' = [run EXCEPT !.candidate = 1]
        /\ setting' = setting /\ run.endpoint \notin Rejected[setting] \cup run.cached
    BY <1>7 DEF FitEndpoint
  <2>2. /\ run'.endpoint = run.endpoint /\ run'.candidate = 1
        /\ run'.cached = run.cached /\ run'.rejections = run.rejections
        /\ run'.written = run.written
    BY <1>2, <2>1 DEF Run
  <2>3. WrittenAt(setting, run.cached, run.endpoint, 1)
          = WrittenAt(setting, run.cached, run.endpoint, 0)
    BY <1>2, <2>1, WrittenFit DEF Looping
  <2> QED
    BY <1>0, <1>1, <1>3, <2>1, <2>2, <2>3 DEF Looping
<1>8. CASE SkipCandidate \/ WriteAction
  <2>0. PICK added : added = IF This \in Valid[setting] THEN {This} ELSE {}
    OBVIOUS
  <2>1. /\ Looping /\ run.candidate \in 1..LastCandidate /\ setting' = setting
        /\ run.endpoint \in Endpoint
        /\ run.endpoint \notin Rejected[setting] /\ run.endpoint \notin run.cached
    BY <1>2, <1>3, <1>8 DEF SkipCandidate, WriteAction, InCandidates, Looping
  <2>2. run.written \cup {This} \in SUBSET Action
    BY <1>2, <2>1 DEF Run, This, Action
  <2>3. /\ run'.endpoint = run.endpoint /\ run'.candidate = run.candidate + 1
        /\ run'.cached = run.cached /\ run'.rejections = run.rejections
        /\ run'.written = run.written \cup added
    <3>1. CASE SkipCandidate
      <4>1. This \notin Valid[setting] /\ run' = [run EXCEPT !.candidate = @ + 1]
        BY <3>1 DEF SkipCandidate
      <4>2. run.candidate <= LastCandidate /\ run.written \in SUBSET Action
        BY <1>2, <2>1, GenerationAssumption DEF Run
      <4>3. added = {} /\ run.written \cup {} = run.written
        BY <2>0, <4>1
      <4>4. /\ run'.endpoint = run.endpoint /\ run'.candidate = run.candidate + 1
            /\ run'.cached = run.cached /\ run'.rejections = run.rejections
            /\ run'.written = run.written
        BY <1>2, <4>1, <4>2, NextCandidateType
      <4> QED
        BY <4>3, <4>4
    <3>2. CASE WriteAction
      <4>1. /\ This \in Valid[setting]
            /\ run' = [run EXCEPT !.written = run.written \cup {This}, !.candidate = @ + 1]
        BY <3>2, <1>2 DEF WriteAction, Run
      <4>2. run.candidate <= LastCandidate /\ run.written \cup {This} \in SUBSET Action
        BY <2>1, <2>2, GenerationAssumption
      <4>3. added = {This}
        BY <2>0, <4>1
      <4>4. /\ run'.endpoint = run.endpoint /\ run'.candidate = run.candidate + 1
            /\ run'.cached = run.cached /\ run'.rejections = run.rejections
            /\ run'.written = run.written \cup {This}
        BY <1>2, <4>1, <4>2, NextCandidateType
      <4> QED
        BY <4>3, <4>4
    <3> QED
      BY <1>8, <3>1, <3>2
  <2>4. WrittenAt(setting, run.cached, run.endpoint, run.candidate + 1)
          = WrittenAt(setting, run.cached, run.endpoint, run.candidate) \cup added
    BY <1>2, <2>0, <2>1, WrittenCandidate DEF This
  <2> QED
    BY <1>0, <1>1, <1>3, <2>1, <2>3, <2>4 DEF Looping
<1>9. CASE Finish \/ run'.phase # "generate"
  BY <1>9, PhaseTypes DEF Finish, LoopOK
<1>10. CASE UNCHANGED vars
  BY <1>10 DEF vars, LoopOK, Passed, Produced, RejectedByTried
<1> QED
  BY <1>4, <1>5, <1>6, <1>7, <1>8, <1>9, <1>10, LoopSteps

(***************************************************************************)
(* What actions.json may lack: the actions of the endpoints left out, all  *)
(* of which some run of the key has rejected.                              *)
(***************************************************************************)
Explained(omitted) ==
  /\ omitted \subseteq RejectedByTried(CacheKey[origin.setting])
  /\ actions \subseteq Kept(origin.setting, omitted)
  /\ origin.complete => actions = Kept(origin.setting, omitted)

LEMMA Explaining == ResumedOmitsOnlyCached <=> (actions # NoFile => \E k : Explained(k))
BY DEF ResumedOmitsOnlyCached, Explained, Kept

\* The loop leaves out no other endpoints than the cached ones.
LEMMA ResumedStep ==
  ASSUME TypeOK, LoopOK, ResumedOmitsOnlyCached, [Next]_vars
  PROVE  ResumedOmitsOnlyCached'
<1> DEFINE omitted == run.cached
<1>0. (\E k : Explained(k)') => ResumedOmitsOnlyCached'
  BY DEF ResumedOmitsOnlyCached, Explained, Kept
<1>1. setting \in Setting /\ run \in Run
  BY DEF TypeOK
<1>2. CASE WriteAction
  <2>1. /\ run.phase = "generate" /\ This \in Valid[setting]
        /\ run.candidate # 0 /\ actions' = run.written \cup {This}
        /\ origin' = [setting |-> setting, complete |-> FALSE]
        /\ tried' = tried
    BY <1>2 DEF WriteAction, InCandidates, Looping
  <2>2. This \in Kept(setting, run.cached)
    BY <2>1 DEF LoopOK, Kept, Produced, This
  <2>3. run.written \subseteq Kept(setting, run.cached)
    BY <2>1 DEF LoopOK, Kept
  <2>4. origin'.setting = setting /\ ~origin'.complete
    BY <2>1
  <2>5. run.cached \subseteq RejectedByTried(CacheKey[setting])
    BY <2>1 DEF LoopOK
  <2>6. actions' \subseteq Kept(setting, run.cached)
    BY <2>1, <2>2, <2>3
  <2>7. ASSUME NEW k, k = run.cached PROVE Explained(k)'
    BY <2>1, <2>4, <2>5, <2>6, <2>7 DEF Explained, Kept, Produced, RejectedByTried
  <2> QED
    BY <1>0, <2>7
<1>3. CASE Finish
  <2>1. /\ run.phase = "generate" /\ run.endpoint = LastEndpoint + 1
        /\ actions' = run.written
        /\ origin' = [setting |-> setting, complete |-> TRUE]
        /\ tried' = tried
    BY <1>1, <1>3, GenerationAssumption DEF Finish, Run
  <2>2. run.written = WrittenAt(setting, run.cached, LastEndpoint + 1, run.candidate)
    BY <2>1, LoopWritten
  <2>3. run.written = Kept(setting, run.cached)
    BY <1>1, <2>2, WrittenEnds, GenerationAssumption DEF Run
  <2>4. origin'.setting = setting
    BY <2>1
  <2>5. run.cached \subseteq RejectedByTried(CacheKey[setting])
    BY <2>1 DEF LoopOK
  <2>6. ASSUME NEW k, k = run.cached PROVE Explained(k)'
    BY <2>1, <2>3, <2>4, <2>5, <2>6 DEF Explained, Kept, Produced, RejectedByTried
  <2> QED
    BY <1>0, <2>6
<1>4. CASE UNCHANGED <<actions, origin>>
  <2>1. ASSUME NEW k, Explained(k) PROVE Explained(k)'
    BY <1>4, <2>1, TriedGrows DEF Explained, Kept, Produced, RejectedByTried
  <2>2. actions' # NoFile => \E k : Explained(k)
    BY <1>4, Explaining
  <2> QED
    BY <1>0, <2>1, <2>2 DEF ResumedOmitsOnlyCached
<1>5. ~(WriteAction \/ Finish) => UNCHANGED <<actions, origin>>
  BY LoopSteps DEF LoadCache, SkipCached, Reject, FitEndpoint, SkipCandidate,
                   EndEndpoint, vars, files
<1> QED
  BY <1>2, <1>3, <1>4, <1>5

(***************************************************************************)
(* run_lamda_action_generation, run again after any interruption and under *)
(* any settings, ends with the actions.json of one undisturbed run from    *)
(* nothing, but for endpoints that a run of the same cohort and record     *)
(* count has rejected.                                                     *)
(***************************************************************************)
THEOREM ResumedCorrect == Spec => []ResumedOmitsOnlyCached
<1>1. Init => CacheOK /\ LoopOK /\ ResumedOmitsOnlyCached
  BY PhaseTypes DEF Init, CacheOK, LoopOK, ResumedOmitsOnlyCached
<1>2. /\ TypeOK /\ CacheOK /\ LoopOK /\ ResumedOmitsOnlyCached /\ [Next]_vars
      => CacheOK' /\ LoopOK' /\ ResumedOmitsOnlyCached'
  BY CacheStep, LoopStep, ResumedStep
<1> QED
  BY <1>1, <1>2, TypeCorrect, PTL DEF Spec

(***************************************************************************)
(* So a finished actions.json is that of a fresh run when every run of its *)
(* cohort and record count was under the setting it was made under.        *)
(***************************************************************************)
COROLLARY ResumedUnderOneSetting ==
  ASSUME ResumedOmitsOnlyCached, actions # NoFile, origin.complete,
         \A t \in tried : CacheKey[t] = CacheKey[origin.setting] => t = origin.setting
  PROVE  actions = Produced(origin.setting)
<1>1. RejectedByTried(CacheKey[origin.setting]) \subseteq Rejected[origin.setting]
  BY DEF RejectedByTried
<1> QED
  BY <1>1 DEF ResumedOmitsOnlyCached, Produced

=============================================================================
