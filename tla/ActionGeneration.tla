-------------------------- MODULE ActionGeneration --------------------------
(***************************************************************************)
(* The body of `fedact run action-certificate-validation`: boot an Android *)
(* emulator, generate candidate actions endpoint by endpoint, shut the     *)
(* emulator down, then judge what actions.json holds                       *)
(* (workflow.py, experiments/lamda_action_generation.py,                   *)
(* data/lamda_apk_emulator.py, experiments/validation.py).                 *)
(*                                                                         *)
(* A command may raise or be killed at any point and be run again; between *)
(* two commands the release, the acquired APKs or configs/fedact.yaml may  *)
(* change.  Three things outlive a command: the cache of rejected          *)
(* endpoints, actions.json and the emulator process.                       *)
(*                                                                         *)
(* A setting is everything the generation reads.  What the fitting and the *)
(* validation of a candidate conclude is a function of it: Rejected and    *)
(* Valid.  The cache is keyed by a part of it only, CacheKey, so that two  *)
(* settings of one key may disagree.  An action is the pair of its         *)
(* endpoint and its candidate.                                             *)
(***************************************************************************)
EXTENDS Integers

CONSTANTS
  Setting,         \* release, acquired APKs and configuration
  CacheKey,        \* [Setting -> cohort and record count], all the cache is keyed by
  LastEndpoint,    \* the endpoints of the loop are 1..LastEndpoint
  LastCandidate,   \* (source, candidate) pairs per endpoint are 1..LastCandidate
  Rejected,        \* [Setting -> endpoints some stage of the fitting rejects]
  Valid,           \* [Setting -> actions whose candidate is valid and moves]
  Eligible,        \* settings with an acquired source of the dominant cohort
  MaxEmulators,    \* bound on the emulator processes alive at once
  NoFile           \* no file on disk

Endpoint == 1..LastEndpoint
Action == Endpoint \X (1..LastCandidate)

ASSUME GenerationAssumption ==
  /\ LastEndpoint \in Nat /\ LastCandidate \in Nat /\ MaxEmulators \in Nat
  /\ Rejected \in [Setting -> SUBSET Endpoint]
  /\ Valid \in [Setting -> SUBSET Action]
  /\ Eligible \subseteq Setting
  /\ \A set \in SUBSET Action : set # NoFile
  /\ \A s \in Setting, set \in SUBSET Endpoint :
       [key |-> CacheKey[s], rejections |-> set] # NoFile

VARIABLES
  setting,     \* what a command would read now
  fitCache,    \* endpoint_fit_cache.json: NoFile or [key, rejections]
  actions,     \* actions.json: NoFile or the set of actions in it
  origin,      \* history: the setting actions.json was made under, and whether
               \* the loop that made it had ended
  decisions,   \* certificate-decisions.json: NoFile or the origin of what it judges
  emulators,   \* emulator processes alive
  abandoned,   \* history: how often an emulator was left, by a command that was
               \* killed or to which adb did not answer in time
  tried,       \* history: the settings under which a loop has loaded the cache
  run          \* the process, by its phase and local variables

vars == <<setting, fitCache, actions, origin, decisions, emulators, abandoned, tried, run>>
files == <<fitCache, actions, origin, decisions>>
device == <<emulators, abandoned>>

Phase == {"idle", "prepare", "boot", "open", "generate", "shutdown", "certify"}

Run == [phase : Phase,
        failed : BOOLEAN,                  \* an exception is leaving the try block
        cached : SUBSET Endpoint,          \* cached_rejections
        rejections : SUBSET Endpoint,      \* rejections, those of this run included
        written : SUBSET Action,           \* written
        endpoint : 1..(LastEndpoint + 1),
        candidate : 0..(LastCandidate + 1)]   \* 0: the endpoint is not fitted yet

Fresh(phase) == [phase |-> phase, failed |-> FALSE, cached |-> {}, rejections |-> {},
                 written |-> {}, endpoint |-> 1, candidate |-> 0]

Idle == Fresh("idle")

Init ==
  /\ setting \in Setting
  /\ fitCache = NoFile /\ actions = NoFile /\ decisions = NoFile
  /\ origin = [setting |-> setting, complete |-> FALSE]
  /\ emulators = 0 /\ abandoned = 0 /\ tried = {}
  /\ run = Idle

\* Somebody acquires APKs, changes the release or edits the configuration.
Reconfigure(s) ==
  /\ run = Idle
  /\ setting' = s
  /\ UNCHANGED <<files, device, tried, run>>

-----------------------------------------------------------------------------
(* The emulator session: _run_lamda_action_generation_if_acquired.         *)

Start ==
  /\ run = Idle
  /\ run' = Fresh("prepare")
  /\ UNCHANGED <<setting, files, device, tried>>

\* No APK acquired, ANDROID_SDK_ROOT unset, or the AVD cannot be created.
SkipGeneration ==
  /\ run.phase = "prepare"
  /\ run' = Fresh("certify")
  /\ UNCHANGED <<setting, files, device, tried>>

\* A corrupt cached APK, or `avdmanager list` fails.
PrepareFails ==
  /\ run.phase = "prepare"
  /\ run' = Idle
  /\ UNCHANGED <<setting, files, device, tried>>

\* boot_emulator: Popen, then getprop is polled.
Launch ==
  /\ run.phase = "prepare" /\ emulators < MaxEmulators
  /\ emulators' = emulators + 1
  /\ run' = Fresh("boot")
  /\ UNCHANGED <<setting, files, abandoned, tried>>

Booted ==
  /\ run.phase = "boot"
  /\ run' = Fresh("open")
  /\ UNCHANGED <<setting, files, device, tried>>

\* The boot deadline passes: terminate, raise, and skip the generation.
BootDeadline ==
  /\ run.phase = "boot"
  /\ emulators' = emulators - 1
  /\ run' = Fresh("certify")
  /\ UNCHANGED <<setting, files, abandoned, tried>>

\* adb itself times out while polling: the same exception, without terminate.
BootUnanswered ==
  /\ run.phase = "boot"
  /\ abandoned' = abandoned + 1
  /\ run' = Fresh("certify")
  /\ UNCHANGED <<setting, files, emulators, tried>>

\* Variant: the session ends with the exception, without the finally clause.
GenerationFailsOpen ==
  /\ run.phase \in {"open", "generate"}
  /\ run' = Idle
  /\ UNCHANGED <<setting, files, device, tried>>

\* Any exception of run_lamda_action_generation goes through `finally`.
GenerationFails ==
  /\ run.phase \in {"open", "generate"}
  /\ run' = [run EXCEPT !.phase = "shutdown", !.failed = TRUE]
  /\ UNCHANGED <<setting, files, device, tried>>

\* shutdown_emulator: `emu kill`, then wait, then kill.
ShutDown ==
  /\ run.phase = "shutdown"
  /\ emulators' = emulators - 1
  /\ run' = IF run.failed THEN Idle ELSE Fresh("certify")
  /\ UNCHANGED <<setting, files, abandoned, tried>>

\* `emu kill` times out: its exception leaves before wait and kill.
ShutdownUnanswered ==
  /\ run.phase = "shutdown"
  /\ abandoned' = abandoned + 1
  /\ run' = Idle
  /\ UNCHANGED <<setting, files, emulators, tried>>

-----------------------------------------------------------------------------
(* run_lamda_action_generation.                                            *)

\* The early returns: nothing is written and an older actions.json stays.
NothingEligible ==
  /\ run.phase = "open" /\ setting \notin Eligible
  /\ run' = Fresh("shutdown")
  /\ UNCHANGED <<setting, files, device, tried>>

\* Variant: the cache is used whatever it was made from.
CachedRejectionsUnkeyed == IF fitCache = NoFile THEN {} ELSE fitCache.rejections

\* _load_endpoint_fit_cache: a cache with another cohort or record count is empty.
CachedRejections ==
  IF fitCache # NoFile /\ fitCache.key = CacheKey[setting] THEN fitCache.rejections ELSE {}

\* Variant: the rejections of earlier runs are skipped but not kept.
LoadCacheForgetting ==
  /\ run.phase = "open" /\ setting \in Eligible
  /\ run' = [Fresh("generate") EXCEPT !.cached = CachedRejections]
  /\ tried' = tried \cup {setting}
  /\ UNCHANGED <<setting, files, device>>

LoadCache ==
  /\ run.phase = "open" /\ setting \in Eligible
  /\ run' = [Fresh("generate") EXCEPT !.cached = CachedRejections,
                                      !.rejections = CachedRejections]
  /\ tried' = tried \cup {setting}
  /\ UNCHANGED <<setting, files, device>>

Looping == run.phase = "generate" /\ run.endpoint <= LastEndpoint
NextEndpoint(r) == [r EXCEPT !.endpoint = @ + 1, !.candidate = 0]

SkipCached ==
  /\ Looping /\ run.candidate = 0 /\ run.endpoint \in run.cached
  /\ run' = NextEndpoint(run)
  /\ UNCHANGED <<setting, files, device, tried>>

\* One of the stages rejects: _reject and _persist_endpoint_fit_cache.
Reject ==
  /\ Looping /\ run.candidate = 0 /\ run.endpoint \notin run.cached
  /\ run.endpoint \in Rejected[setting]
  /\ LET kept == run.rejections \cup {run.endpoint} IN
       /\ fitCache' = [key |-> CacheKey[setting], rejections |-> kept]
       /\ run' = NextEndpoint([run EXCEPT !.rejections = kept])
  /\ UNCHANGED <<setting, actions, origin, decisions, device, tried>>

FitEndpoint ==
  /\ Looping /\ run.candidate = 0 /\ run.endpoint \notin run.cached
  /\ run.endpoint \notin Rejected[setting]
  /\ run' = [run EXCEPT !.candidate = 1]
  /\ UNCHANGED <<setting, files, device, tried>>

This == <<run.endpoint, run.candidate>>

\* Variant: the loop over the candidates goes one too far.
InCandidatesPastEnd == Looping /\ run.candidate \in 1..(LastCandidate + 1)

InCandidates == Looping /\ run.candidate \in 1..LastCandidate

\* Not constructible, invalid, maliciousness unavailable, or no displacement.
SkipCandidate ==
  /\ InCandidates /\ This \notin Valid[setting]
  /\ run' = [run EXCEPT !.candidate = @ + 1]
  /\ UNCHANGED <<setting, files, device, tried>>

\* written.append(...) and _persist_written(written): the file is replaced.
WriteAction ==
  /\ InCandidates /\ This \in Valid[setting]
  /\ actions' = run.written \cup {This}
  /\ origin' = [setting |-> setting, complete |-> FALSE]
  /\ run' = [run EXCEPT !.written = @ \cup {This}, !.candidate = @ + 1]
  /\ UNCHANGED <<setting, fitCache, decisions, device, tried>>

EndEndpoint ==
  /\ Looping /\ run.candidate = LastCandidate + 1
  /\ run' = NextEndpoint(run)
  /\ UNCHANGED <<setting, files, device, tried>>

\* The last _persist_written.
Finish ==
  /\ run.phase = "generate" /\ run.endpoint > LastEndpoint
  /\ actions' = run.written
  /\ origin' = [setting |-> setting, complete |-> TRUE]
  /\ run' = Fresh("shutdown")
  /\ UNCHANGED <<setting, fitCache, decisions, device, tried>>

-----------------------------------------------------------------------------
(* run_action_certificate_validation.                                      *)

Certify ==
  /\ run.phase = "certify" /\ actions # NoFile
  /\ decisions' = origin
  /\ run' = Idle
  /\ UNCHANGED <<setting, fitCache, actions, origin, device, tried>>

\* actions.json or the selected calibration is missing, or a file does not parse.
CertifyNothing ==
  /\ run.phase = "certify"
  /\ run' = Idle
  /\ UNCHANGED <<setting, files, device, tried>>

\* The phases from the launch of an emulator to the end of its shutdown.
HoldingEmulator == run.phase \in {"boot", "open", "generate", "shutdown"}

\* The command is killed; the emulator process is not.
Kill ==
  /\ run # Idle
  /\ run' = Idle
  /\ abandoned' = abandoned + (IF HoldingEmulator THEN 1 ELSE 0)
  /\ UNCHANGED <<setting, files, emulators, tried>>

Session ==
  \/ Start \/ SkipGeneration \/ PrepareFails \/ Launch \/ Booted \/ BootDeadline
  \/ BootUnanswered \/ GenerationFails \/ ShutDown \/ ShutdownUnanswered

Generation ==
  \/ NothingEligible \/ LoadCache \/ SkipCached \/ Reject \/ FitEndpoint
  \/ SkipCandidate \/ WriteAction \/ EndEndpoint \/ Finish

Next ==
  \/ \E s \in Setting : Reconfigure(s)
  \/ Session
  \/ Generation
  \/ Certify \/ CertifyNothing
  \/ Kill

Spec == Init /\ [][Next]_vars

-----------------------------------------------------------------------------
Origin == [setting : Setting, complete : BOOLEAN]

TypeOK ==
  /\ setting \in Setting
  /\ fitCache = NoFile \/ (/\ fitCache.key \in {CacheKey[s] : s \in Setting}
                           /\ fitCache.rejections \subseteq Endpoint)
  /\ actions = NoFile \/ actions \subseteq Action
  /\ origin \in Origin
  /\ decisions = NoFile \/ decisions \in Origin
  /\ emulators \in 0..MaxEmulators
  /\ abandoned \in Nat
  /\ tried \subseteq Setting
  /\ run \in Run

\* The actions one undisturbed generation from nothing would write.
Produced(s) == {a \in Valid[s] : a[1] \notin Rejected[s]}

\* What the loops run so far under a key can have put into its cache.
RejectedByTried(key) == UNION {Rejected[s] : s \in {t \in tried : CacheKey[t] = key}}

(***************************************************************************)
(* However often the generation was interrupted and run again, under       *)
(* whatever settings: once its loop has ended, actions.json holds exactly  *)
(* what one undisturbed run from nothing would have written, but for the   *)
(* actions of endpoints that a run with the same cohort and record count   *)
(* has rejected; before that a part of it.  So the two are equal when all  *)
(* runs of the key were under one setting.  When the release or the        *)
(* configuration changed without changing the key, whole endpoints may be  *)
(* missing, although a reused result must never change the scientific one  *)
(* (docs/Roadmap.md:5239).                                                 *)
(***************************************************************************)
ResumedOmitsOnlyCached ==
  actions # NoFile =>
    \E omitted \in SUBSET RejectedByTried(CacheKey[origin.setting]) :
      LET kept == {a \in Produced(origin.setting) : a[1] \notin omitted} IN
        /\ actions \subseteq kept
        /\ origin.complete => actions = kept

(***************************************************************************)
(* Why: the cache of a key holds endpoints some run of that key rejected,  *)
(* and the loop has written what is produced before the place where it     *)
(* stands, but for the cached endpoints it skipped.                        *)
(***************************************************************************)
CacheOK == fitCache # NoFile => fitCache.rejections \subseteq RejectedByTried(fitCache.key)

Passed(a) == a[1] < run.endpoint \/ (a[1] = run.endpoint /\ a[2] < run.candidate)

LoopOK ==
  run.phase = "generate" =>
    /\ setting \in tried
    /\ run.cached \subseteq RejectedByTried(CacheKey[setting])
    /\ run.rejections \subseteq RejectedByTried(CacheKey[setting])
    /\ run.candidate # 0 => run.endpoint \notin Rejected[setting] \cup run.cached
    /\ run.written = {a \in Produced(setting) : a[1] \notin run.cached /\ Passed(a)}

(***************************************************************************)
(* The rejections found for a cohort and record count are never found      *)
(* again: a cache is only replaced by one that knows more, or by the cache *)
(* of another cohort or record count.                                      *)
(***************************************************************************)
RejectionsKept ==
  [][fitCache # NoFile =>
       /\ fitCache' # NoFile
       /\ fitCache'.key = fitCache.key => fitCache.rejections \subseteq fitCache'.rejections]_vars

\* Why: what the cache knows of its key, the loop started with.
RejectionsKnown ==
  run.phase = "generate" /\ fitCache # NoFile =>
    (fitCache.key = CacheKey[setting] => fitCache.rejections \subseteq run.rejections)

(***************************************************************************)
(* Every emulator alive is the one the running session holds, or was left  *)
(* behind by one kill or one unanswered adb call: no other exception of    *)
(* the boot, of the generation or of the shutdown leaves one, in whatever  *)
(* order sessions fail and are repeated.                                   *)
(***************************************************************************)
EmulatorsAccountedFor == emulators = abandoned + (IF HoldingEmulator THEN 1 ELSE 0)

=============================================================================
