----------------------------- MODULE Acquisition -----------------------------
(***************************************************************************)
(* `fedact acquire` (workflow.py, run_acquire) and data/androzoo.py: the   *)
(* malicious samples of the dominant cohort are downloaded in the order of *)
(* the release until a byte budget is reached, each one verified against   *)
(* its hash and published through AtomicFile.  Commands overlap, are       *)
(* killed, fail to download, and meet files whose content does not verify. *)
(***************************************************************************)
EXTENDS AtomicFile, Naturals, Sequences

CONSTANTS Cohort,     \* the cohort's malicious samples in release order
          Size,       \* bytes of each sample
          Budget,     \* maximum_total_bytes of one command
          MaxKills    \* bound on the kills of a run

Commands == Writers
Samples == Names

ASSUME AcquisitionAssumption ==
  /\ Cohort \in Seq(Samples)
  /\ Size \in [Samples -> Nat]
  /\ Budget \in Nat
  /\ MaxKills \in Nat

VARIABLES pc,           \* "idle", "next", "fetch", "open", "fill", "replace"
          outstanding,  \* positions in Cohort each command's loop has not come to
          sample,       \* sample_id of its loop
          spent,        \* total_new_bytes
          contended,    \* history: samples two commands wrote at the same time
          kills

commandVars == <<pc, outstanding, sample, spent, kills>>
vars == <<fileVars, commandVars, contended>>

Present(s) == final[s] # NoInode
Verified(s) == Present(s) /\ Whole(s)
Unverified(s) == Present(s) /\ ~ Whole(s)

\* Any file may be there before, with content that verifies or not.
Init ==
  /\ \E present \in SUBSET Samples : \E inode \in [Samples -> Inodes] :
       /\ \A s, t \in Samples : s # t => inode[s] # inode[t]
       /\ final = [s \in Samples |-> IF s \in present THEN inode[s] ELSE NoInode]
  /\ staging = [s \in Samples |-> NoInode]
  /\ whole \in SUBSET {final[s] : s \in {t \in Samples : final[t] # NoInode}}
  /\ handle = [c \in Commands |-> NoInode]
  /\ pc = [c \in Commands |-> "idle"]
  /\ outstanding = [c \in Commands |-> {}]
  /\ sample \in [Commands -> Samples]
  /\ spent = [c \in Commands |-> 0]
  /\ contended = {}
  /\ kills = 0

Goto(c, l) == pc' = [pc EXCEPT ![c] = l]

\* The command ends: it is done, or an exception leaves it.
End(c) ==
  /\ Goto(c, "idle")
  /\ outstanding' = [outstanding EXCEPT ![c] = {}]
  /\ UNCHANGED sample

\* The loop goes on to its next sample.
Advance(c) == Goto(c, "next") /\ UNCHANGED <<outstanding, sample>>

-----------------------------------------------------------------------------
\* run_acquire

\* acquired_lamda_apk_sample_ids raises on the first file that does not verify.
ScanRaises == \E s \in Samples : Unverified(s)

\* A command whose scan raises, or with nothing outstanding, ends at once.
Start(c) ==
  /\ pc[c] = "idle"
  /\ ~ ScanRaises
  /\ LET missing == {i \in DOMAIN Cohort : ~ Verified(Cohort[i])}
     IN  /\ missing # {}
         /\ outstanding' = [outstanding EXCEPT ![c] = missing]
  /\ Goto(c, "next")
  /\ spent' = [spent EXCEPT ![c] = 0]
  /\ UNCHANGED <<fileVars, sample, contended, kills>>

-----------------------------------------------------------------------------
\* acquire_lamda_apks_within_budget

Done(c) ==
  /\ pc[c] = "next" /\ outstanding[c] = {}
  /\ End(c)
  /\ UNCHANGED <<fileVars, spent, contended, kills>>

\* The loop takes the first of the samples left; all but `stop` decides is done here.
IsFirst(c, i) == \A j \in outstanding[c] : i <= j

TakeUnless(stop, c, i) ==
  IF Verified(Cohort[i])
    THEN /\ outstanding' = [outstanding EXCEPT ![c] = @ \ {i}]
         /\ UNCHANGED <<pc, sample>>
  ELSE IF Unverified(Cohort[i]) \/ stop
    THEN End(c)
  ELSE /\ Goto(c, "fetch")
       /\ outstanding' = [outstanding EXCEPT ![c] = @ \ {i}]
       /\ sample' = [sample EXCEPT ![c] = Cohort[i]]

\* A bug BudgetBoundsDownloads excludes: the budget may be reached before the last file.
NextSampleUnbounded(c) ==
  /\ pc[c] = "next"
  /\ \E i \in outstanding[c] : IsFirst(c, i) /\ TakeUnless(spent[c] > Budget, c, i)
  /\ UNCHANGED <<fileVars, spent, contended, kills>>

\* A bug EventuallyAcquired excludes: a file larger than what is left is not begun.
NextSampleFitting(c) ==
  /\ pc[c] = "next"
  /\ \E i \in outstanding[c] :
       IsFirst(c, i) /\ TakeUnless(spent[c] + Size[Cohort[i]] > Budget, c, i)
  /\ UNCHANGED <<fileVars, spent, contended, kills>>

\* _verified_local_apk, then the budget.
NextSample(c) ==
  /\ pc[c] = "next"
  /\ \E i \in outstanding[c] : IsFirst(c, i) /\ TakeUnless(spent[c] >= Budget, c, i)
  /\ UNCHANGED <<fileVars, spent, contended, kills>>

\* acquire_lamda_apk looks again; what another command published meanwhile counts as spent.
FetchCached(c) ==
  /\ pc[c] = "fetch" /\ Present(sample[c])
  /\ IF Verified(sample[c])
       THEN Advance(c) /\ spent' = [spent EXCEPT ![c] = @ + Size[sample[c]]]
       ELSE End(c) /\ UNCHANGED spent
  /\ UNCHANGED <<fileVars, contended, kills>>

\* No answer, a broken answer, or content with another hash.
DownloadFails(c) ==
  /\ pc[c] = "fetch" /\ ~ Present(sample[c])
  /\ End(c)
  /\ UNCHANGED <<fileVars, spent, contended, kills>>

Download(c) ==
  /\ pc[c] = "fetch" /\ ~ Present(sample[c])
  /\ Goto(c, "open")
  /\ UNCHANGED <<fileVars, outstanding, sample, spent, contended, kills>>

\* Another command is between opening and replacing the same staging file.
IsSharing(c) ==
  \E d \in Commands \ {c} : pc[d] \in {"fill", "replace"} /\ sample[d] = sample[c]

Open(c) ==
  /\ pc[c] = "open"
  /\ OpenStaging(c, sample[c])
  /\ contended' = IF IsSharing(c) THEN contended \cup {sample[c]} ELSE contended
  /\ Goto(c, "fill")
  /\ UNCHANGED <<outstanding, sample, spent, kills>>

\* A bug ContentionHeals excludes: a writer whose staging file has moved gives up.
FillInPlace(c) ==
  /\ pc[c] = "fill"
  /\ IF staging[sample[c]] = handle[c]
       THEN FillStaging(c) /\ Goto(c, "replace") /\ UNCHANGED <<outstanding, sample>>
       ELSE CloseStaging(c) /\ End(c)
  /\ UNCHANGED <<spent, contended, kills>>

Fill(c) ==
  /\ pc[c] = "fill"
  /\ FillStaging(c)
  /\ Goto(c, "replace")
  /\ UNCHANGED <<outstanding, sample, spent, contended, kills>>

\* A bug ImplementsStore excludes: the staging file is published before it is filled.
ReplaceEarly(c) ==
  /\ pc[c] \in {"fill", "replace"}
  /\ ReplaceFinal(sample[c])
  /\ spent' = [spent EXCEPT ![c] = @ + Size[sample[c]]]
  /\ Advance(c)
  /\ UNCHANGED <<contended, kills>>

Replace(c) ==
  /\ pc[c] = "replace"
  /\ ReplaceFinal(sample[c])
  /\ spent' = [spent EXCEPT ![c] = @ + Size[sample[c]]]
  /\ Advance(c)
  /\ UNCHANGED <<contended, kills>>

\* Another command has moved the staging file: FileNotFoundError.
ReplaceRaises(c) ==
  /\ pc[c] = "replace" /\ staging[sample[c]] = NoInode
  /\ End(c)
  /\ UNCHANGED <<fileVars, spent, contended, kills>>

-----------------------------------------------------------------------------
\* Outside the commands.

Kill(c) ==
  /\ pc[c] # "idle" /\ kills < MaxKills
  /\ kills' = kills + 1
  /\ CloseStaging(c)
  /\ End(c)
  /\ UNCHANGED <<spent, contended>>

\* "remove ... and re-acquire", says the message of the exception that ended a command:
\* the user does so when no command is running.
RemoveUnverified(s) ==
  /\ Unverified(s)
  /\ \A c \in Commands : pc[c] = "idle"
  /\ final' = [final EXCEPT ![s] = NoInode]
  /\ UNCHANGED <<staging, whole, handle, commandVars, contended>>

-----------------------------------------------------------------------------

Work(c) ==
  \/ Start(c) \/ Done(c) \/ NextSample(c) \/ FetchCached(c)
  \/ Open(c) \/ Fill(c) \/ Replace(c) \/ ReplaceRaises(c)

Next ==
  \/ \E c \in Commands : Work(c) \/ Download(c) \/ DownloadFails(c) \/ Kill(c)
  \/ \E s \in Samples : RemoveUnverified(s)

Spec == Init /\ [][Next]_vars

(***************************************************************************)
(* Fairness: commands run and are repeated by their user, files that do    *)
(* not verify are removed as the message asks, and a download that is      *)
(* tried again and again succeeds in the end.                              *)
(***************************************************************************)
FairSpec ==
  /\ Spec
  /\ \A c \in Commands : WF_vars(Work(c)) /\ SF_vars(Download(c))
  /\ \A s \in Samples : WF_vars(RemoveUnverified(s))

-----------------------------------------------------------------------------
\* Properties.

TypeOK ==
  /\ FileTypeOK
  /\ pc \in [Commands -> {"idle", "next", "fetch", "open", "fill", "replace"}]
  /\ outstanding \in [Commands -> SUBSET DOMAIN Cohort]
  /\ sample \in [Commands -> Samples]
  /\ \A c \in Commands : (handle[c] # NoInode) <=> (pc[c] = "fill")
  /\ spent \in [Commands -> Nat]
  /\ contended \subseteq Samples
  /\ kills \in 0 .. MaxKills

(***************************************************************************)
(* The directory behaves as VerifiedStore promises, whatever is killed and *)
(* in whatever order commands overlap: a name never shows content that is  *)
(* not the sample's, except of a sample two commands wrote simultaneously. *)
(***************************************************************************)
Status(s) ==
  IF ~ Present(s) THEN "absent" ELSE IF Whole(s) THEN "verified" ELSE "unverified"

Store == INSTANCE VerifiedStore
           WITH status <- [s \in Samples |-> Status(s)], contended <- contended

ImplementsStore == Store!Spec

(***************************************************************************)
(* Even a contended file heals when nobody is killed: the two commands     *)
(* write the same bytes, so that once no command has a staging file open,  *)
(* a file that was acquired verifies.                                      *)
(***************************************************************************)
ContentionHeals ==
  \A s \in contended :
    /\ kills = 0
    /\ \A c \in Commands : handle[c] = NoInode
    => ~ Unverified(s)

(***************************************************************************)
(* The budget is tested before a download whose size is not known: what a  *)
(* command has spent stays below the budget but for its last file.         *)
(***************************************************************************)
BudgetBoundsDownloads ==
  \A c \in Commands :
    spent[c] > 0 => \E s \in Samples : spent[c] < Budget + Size[s]

(***************************************************************************)
(* A cohort is acquired in the end by repeating the command, however small *)
(* the budget of one command, and in spite of kills, failed downloads and  *)
(* files that do not verify.                                               *)
(***************************************************************************)
EventuallyAcquired == <>[](\A i \in DOMAIN Cohort : Verified(Cohort[i]))

=============================================================================
