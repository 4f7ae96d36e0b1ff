------------------------------ MODULE DataProofs ------------------------------
(***************************************************************************)
(* Theorems about the two commands that bring the data in, fedact.data     *)
(* under workflow.py.  Acquisition: for any number of overlapping          *)
(* commands, any cohort and any budget.  Preparation: for every source     *)
(* chronology, release and window length.                                  *)
(***************************************************************************)
EXTENDS Acquisition, Preparation, TLAPS

-----------------------------------------------------------------------------
(* Acquisition: type correctness.                                          *)

\* Positions of the cohort name samples.
LEMMA CohortSample == \A i \in DOMAIN Cohort : Cohort[i] \in Samples
  BY AcquisitionAssumption

\* A file is staged, opened anew or truncated, by a writer that has none open.
LEMMA OpenedTypes ==
  ASSUME FileTypeOK, NEW w \in Writers, NEW n \in Names, OpenStaging(w, n)
  PROVE  /\ FileTypeOK'
         /\ staging'[n] # NoInode
         /\ handle'[w] = staging'[n]
         /\ \A v \in Writers : v # w => handle'[v] = handle[v]
         /\ \A m \in Names : m # n => staging'[m] = staging[m]
         /\ whole' = whole \ {staging'[n]}
         /\ final' = final
         /\ staging'[n] = staging[n] \/ staging'[n] \in Free
<1>1. CASE staging[n] = NoInode
  <2>1. PICK i \in Free : /\ staging' = [staging EXCEPT ![n] = i]
                          /\ whole' = whole \ {i}
                          /\ handle' = [handle EXCEPT ![w] = i]
    BY <1>1 DEF OpenStaging
  <2>2. i \in Inodes /\ i # NoInode
    BY InodeAssumption DEF Free
  <2>3. final' = final
    BY DEF OpenStaging
  <2> QED
    BY <2>1, <2>2, <2>3 DEF FileTypeOK
<1>2. CASE staging[n] # NoInode
  <2>1. /\ whole' = whole \ {staging[n]}
        /\ handle' = [handle EXCEPT ![w] = staging[n]]
        /\ staging' = staging /\ final' = final
    BY <1>2 DEF OpenStaging
  <2> QED
    BY <1>2, <2>1 DEF FileTypeOK
<1> QED
  BY <1>1, <1>2

\* Ending a command keeps the types.
LEMMA EndTypes ==
  ASSUME TypeOK, NEW c \in Commands, End(c), handle' = [handle EXCEPT ![c] = NoInode],
         UNCHANGED <<final, staging, whole, spent, contended>>, kills' \in 0 .. MaxKills
  PROVE  TypeOK'
<1>1. /\ pc' = [pc EXCEPT ![c] = "idle"]
      /\ outstanding' = [outstanding EXCEPT ![c] = {}]
      /\ sample' = sample
  BY DEF End, Goto
<1>2. FileTypeOK'
  BY DEF TypeOK, FileTypeOK, Commands
<1>3. \A d \in Commands : (handle'[d] # NoInode) <=> (pc'[d] = "fill")
  BY <1>1 DEF TypeOK, FileTypeOK, Commands
<1> QED
  BY <1>1, <1>2, <1>3 DEF TypeOK

\* No file is open outside of filling.
LEMMA NoHandle ==
  ASSUME TypeOK, NEW c \in Commands, pc[c] # "fill"
  PROVE  handle[c] = NoInode /\ handle = [handle EXCEPT ![c] = NoInode]
  BY DEF TypeOK, FileTypeOK, Commands

\* Every step keeps the types.
LEMMA TypeStep == TypeOK /\ [Next]_vars => TypeOK'
<1> SUFFICES ASSUME TypeOK, [Next]_vars PROVE TypeOK'
  OBVIOUS
<1> USE DEF Commands, Samples, fileVars
<1>1. ASSUME NEW c \in Commands, Start(c) PROVE TypeOK'
  BY <1>1 DEF TypeOK, FileTypeOK, Start, Goto
<1>2. ASSUME NEW c \in Commands, Done(c) PROVE TypeOK'
  BY <1>2, NoHandle, EndTypes DEF Done, TypeOK
<1>3. ASSUME NEW c \in Commands, NextSample(c) PROVE TypeOK'
  <2>1. PICK i \in outstanding[c] : TakeUnless(spent[c] >= Budget, c, i)
    BY <1>3 DEF NextSample
  <2>2. i \in DOMAIN Cohort /\ Cohort[i] \in Samples
    BY CohortSample DEF TypeOK
  <2>3. CASE End(c)
    BY <1>3, <2>3, NoHandle, EndTypes DEF NextSample, TypeOK
  <2>4. CASE ~ End(c)
    BY <1>3, <2>1, <2>2, <2>4 DEF NextSample, TypeOK, FileTypeOK, TakeUnless, Goto
  <2> QED
    BY <2>3, <2>4
<1>4. ASSUME NEW c \in Commands, FetchCached(c) PROVE TypeOK'
  <2>1. CASE Verified(sample[c])
    <3>1. Size[sample[c]] \in Nat /\ spent[c] \in Nat
      BY AcquisitionAssumption DEF TypeOK
    <3>2. spent[c] + Size[sample[c]] \in Nat
      BY <3>1
    <3> QED
      BY <1>4, <2>1, <3>2 DEF FetchCached, TypeOK, FileTypeOK, Advance, Goto
  <2>2. CASE ~ Verified(sample[c])
    BY <1>4, <2>2, NoHandle, EndTypes DEF FetchCached, TypeOK
  <2> QED
    BY <2>1, <2>2
<1>5. ASSUME NEW c \in Commands, Open(c) PROVE TypeOK'
  <2>1. sample[c] \in Samples /\ FileTypeOK
    BY DEF TypeOK
  <2>2. FileTypeOK' /\ handle'[c] # NoInode
        /\ \A d \in Commands : d # c => handle'[d] = handle[d]
    BY <1>5, <2>1, OpenedTypes DEF Open
  <2>3. pc' = [pc EXCEPT ![c] = "fill"] /\ UNCHANGED <<outstanding, sample, spent, kills>>
    BY <1>5 DEF Open, Goto
  <2>4. contended' \subseteq Samples
    BY <1>5, <2>1 DEF Open, TypeOK
  <2> QED
    BY <2>2, <2>3, <2>4 DEF TypeOK
<1>6. ASSUME NEW c \in Commands, Fill(c) PROVE TypeOK'
  BY <1>6 DEF TypeOK, FileTypeOK, Fill, FillStaging, Goto
<1>7. ASSUME NEW c \in Commands, Replace(c) PROVE TypeOK'
  <2>1. Size[sample[c]] \in Nat /\ spent[c] \in Nat
    BY AcquisitionAssumption DEF TypeOK
  <2>2. spent[c] + Size[sample[c]] \in Nat
    BY <2>1
  <2> QED
    BY <1>7, <2>2 DEF TypeOK, FileTypeOK, Replace, ReplaceFinal, Advance, Goto
<1>8. ASSUME NEW c \in Commands, ReplaceRaises(c) PROVE TypeOK'
  BY <1>8, NoHandle, EndTypes DEF ReplaceRaises, TypeOK
<1>9. ASSUME NEW c \in Commands, Download(c) PROVE TypeOK'
  BY <1>9 DEF TypeOK, FileTypeOK, Download, Goto
<1>10. ASSUME NEW c \in Commands, DownloadFails(c) PROVE TypeOK'
  BY <1>10, NoHandle, EndTypes DEF DownloadFails, TypeOK
<1>11. ASSUME NEW c \in Commands, Kill(c) PROVE TypeOK'
  <2>1. kills' \in 0 .. MaxKills
    BY <1>11, AcquisitionAssumption DEF Kill, TypeOK
  <2> QED
    BY <1>11, <2>1, EndTypes DEF Kill, CloseStaging
<1>12. ASSUME NEW s \in Samples, RemoveUnverified(s) PROVE TypeOK'
  BY <1>12 DEF TypeOK, FileTypeOK, RemoveUnverified, commandVars
<1>13. CASE UNCHANGED vars
  BY <1>13 DEF TypeOK, FileTypeOK, vars, commandVars
<1> QED
  BY <1>1, <1>2, <1>3, <1>4, <1>5, <1>6, <1>7, <1>8, <1>9, <1>10, <1>11, <1>12, <1>13
  DEF Next, Work

(***************************************************************************)
(* Files, contention and types are right in every state, however many      *)
(* commands overlap and wherever they are killed.                          *)
(***************************************************************************)
THEOREM TypeCorrect == Spec => []TypeOK
<1>1. Init => TypeOK
  <2> SUFFICES ASSUME Init PROVE TypeOK
    OBVIOUS
  <2>1. final \in [Samples -> Inodes \cup {NoInode}]
    BY DEF Init
  <2>2. whole \subseteq Inodes
    BY DEF Init, Samples
  <2> QED
    BY <2>1, <2>2, AcquisitionAssumption
    DEF Init, TypeOK, FileTypeOK, Commands, Samples
<1> QED
  BY <1>1, TypeStep, PTL DEF Spec

-----------------------------------------------------------------------------
(* Why the directory is a verified store.                                  *)

\* No inode has two names.
OneName ==
  \A s, t \in Samples :
    /\ s # t /\ final[s] # NoInode => final[s] # final[t]
    /\ s # t /\ staging[s] # NoInode => staging[s] # staging[t]
    /\ final[s] # NoInode => final[s] # staging[t]

\* A writer fills the staging file of its own sample, or a contended one.
OwnHandle ==
  \A c \in Commands : handle[c] # NoInode =>
    /\ \A t \in Samples : t # sample[c] => handle[c] # final[t] /\ handle[c] # staging[t]
    /\ sample[c] \notin contended => handle[c] = staging[sample[c]]

Writing(c) == pc[c] \in {"fill", "replace"}

\* Two writers of one sample are known to be two.
SharedIsContended ==
  \A c, d \in Commands :
    c # d /\ Writing(c) /\ Writing(d) /\ sample[c] = sample[d] => sample[c] \in contended

\* What a sole writer is about to publish is whole.
FilledIsWhole ==
  \A c \in Commands :
    pc[c] = "replace" /\ sample[c] \notin contended => staging[sample[c]] \in whole

\* A downloaded sample was absent, and only whole files have appeared since.
NothingBroken ==
  \A c \in Commands :
    pc[c] \in {"open", "fill", "replace"} /\ sample[c] \notin contended
      => ~ Unverified(sample[c])

StoreInv == OneName /\ OwnHandle /\ SharedIsContended /\ FilledIsWhole /\ NothingBroken

\* A command that has no file open and is not about to publish one moves on.
LEMMA QuietStep ==
  ASSUME TypeOK, TypeOK', StoreInv, NEW c \in Commands,
         UNCHANGED <<final, staging, whole, contended>>,
         pc[c] # "fill", handle' = handle, pc'[c] \in {"idle", "next", "fetch"},
         \A d \in Commands : d # c => pc'[d] = pc[d] /\ sample'[d] = sample[d]
  PROVE  StoreInv'
<1>1. handle[c] = NoInode
  BY NoHandle
<1>2. OneName'
  BY DEF StoreInv, OneName
<1>3. OwnHandle'
  BY <1>1 DEF StoreInv, OwnHandle
<1>4. SharedIsContended'
  BY DEF StoreInv, SharedIsContended, Writing
<1>5. FilledIsWhole'
  BY DEF StoreInv, FilledIsWhole
<1>6. NothingBroken'
  BY DEF StoreInv, NothingBroken, Unverified, Present, Whole
<1> QED
  BY <1>2, <1>3, <1>4, <1>5, <1>6 DEF StoreInv

\* Opening disturbs nobody but those who share the staging file.
LEMMA OpenStep ==
  ASSUME TypeOK, TypeOK', StoreInv, NEW c \in Commands, Open(c)
  PROVE  StoreInv' /\ \A s \in Samples : Status(s)' = Status(s)
<1> DEFINE n == sample[c]
<1>1. FileTypeOK /\ n \in Samples /\ OpenStaging(c, n) /\ pc[c] = "open"
  BY DEF TypeOK, Open
<1>2. /\ staging'[n] # NoInode /\ handle'[c] = staging'[n]
      /\ \A d \in Commands : d # c => handle'[d] = handle[d]
      /\ \A m \in Samples : m # n => staging'[m] = staging[m]
      /\ whole' = whole \ {staging'[n]}
      /\ final' = final
      /\ staging'[n] = staging[n] \/ staging'[n] \in Free
  BY <1>1, OpenedTypes DEF Commands, Samples
<1>3. /\ \A d \in Commands : d # c => pc'[d] = pc[d]
      /\ pc'[c] = "fill" /\ sample' = sample
      /\ contended' = IF IsSharing(c) THEN contended \cup {n} ELSE contended
  BY DEF Open, Goto, TypeOK
<1>4. \A i \in Free : /\ \A m \in Samples : i # final[m] /\ i # staging[m]
                      /\ \A d \in Commands : i # handle[d]
  BY DEF Free, InUse, Samples, Commands
<1>5. \A m \in Samples : final[m] # NoInode => final[m] # staging'[n]
  BY <1>1, <1>2, <1>4 DEF StoreInv, OneName
<1>6. \A m \in Samples : m # n /\ staging[m] # NoInode => staging[m] # staging'[n]
  BY <1>1, <1>2, <1>4 DEF StoreInv, OneName
<1>7. \A m \in Samples : Whole(m)' = Whole(m) /\ Present(m)' = Present(m)
  <2> SUFFICES ASSUME NEW m \in Samples
               PROVE  Whole(m)' = Whole(m) /\ Present(m)' = Present(m)
    OBVIOUS
  <2>1. CASE final[m] = NoInode
    BY <1>1, <1>2, <2>1, InodeAssumption DEF FileTypeOK, Whole, Present
  <2>2. CASE final[m] # NoInode
    BY <1>2, <1>5, <2>2 DEF Whole, Present
  <2> QED
    BY <2>1, <2>2
<1>8. OneName'
  BY <1>2, <1>5, <1>6 DEF StoreInv, OneName
<1>9. OwnHandle'
  <2> SUFFICES ASSUME NEW d \in Commands, handle'[d] # NoInode
               PROVE  /\ \A t \in Samples : t # sample[d] =>
                           handle'[d] # final[t] /\ handle'[d] # staging'[t]
                      /\ sample[d] \notin contended' => handle'[d] = staging'[sample[d]]
    BY <1>2, <1>3 DEF OwnHandle
  <2>1. CASE d = c
    BY <1>2, <1>5, <1>6, <2>1
  <2>2. CASE d # c
    <3>1. handle'[d] = handle[d] /\ handle[d] # NoInode
      BY <1>2, <2>2
    <3>2. pc[d] = "fill" /\ sample[d] \in Samples
      BY <3>1 DEF TypeOK
    <3>3. handle[d] = staging'[n] => sample[d] = n
      BY <1>1, <1>2, <1>4, <3>1, <3>2 DEF StoreInv, OwnHandle
    <3>4. sample[d] = n => n \in contended'
      BY <1>3, <2>2, <3>2 DEF IsSharing
    <3> QED
      BY <1>2, <1>3, <3>1, <3>2, <3>3, <3>4 DEF StoreInv, OwnHandle
  <2> QED
    BY <2>1, <2>2
<1>10. SharedIsContended'
  BY <1>3 DEF StoreInv, SharedIsContended, Writing, IsSharing
<1>11. FilledIsWhole'
  <2> SUFFICES ASSUME NEW d \in Commands, pc'[d] = "replace", sample[d] \notin contended'
               PROVE  staging'[sample[d]] \in whole'
    BY <1>3 DEF FilledIsWhole
  <2>1. d # c /\ pc[d] = "replace" /\ sample[d] \in Samples /\ sample[d] \notin contended
    BY <1>3 DEF TypeOK
  <2>2. sample[d] # n
    BY <1>3, <2>1 DEF IsSharing
  <2>3. staging[sample[d]] \in whole /\ staging[sample[d]] # NoInode
    BY <1>1, <2>1, InodeAssumption DEF StoreInv, FilledIsWhole, FileTypeOK
  <2> QED
    BY <1>2, <1>6, <2>1, <2>2, <2>3
<1>12. NothingBroken'
  <2> SUFFICES ASSUME NEW d \in Commands, pc'[d] \in {"open", "fill", "replace"},
                      sample[d] \notin contended'
               PROVE  ~ Unverified(sample[d])'
    BY <1>3 DEF NothingBroken, Unverified, Present, Whole
  <2>1. pc[d] \in {"open", "fill", "replace"} /\ sample[d] \in Samples
        /\ sample[d] \notin contended
    BY <1>1, <1>3 DEF TypeOK
  <2> QED
    BY <1>3, <1>7, <2>1 DEF StoreInv, NothingBroken, Unverified, Present, Whole
<1>13. \A s \in Samples : Status(s)' = Status(s)
  BY <1>7 DEF Status
<1> QED
  BY <1>8, <1>9, <1>10, <1>11, <1>12, <1>13 DEF StoreInv

\* Filling completes the staging file of the sample, or a contended file.
LEMMA FillStep ==
  ASSUME TypeOK, TypeOK', StoreInv, NEW c \in Commands, Fill(c)
  PROVE  StoreInv' /\ \A s \in Samples : s \notin contended \/ s # sample[c]
                        => Status(s)' = Status(s)
<1>1. /\ pc[c] = "fill" /\ handle[c] # NoInode
      /\ whole' = whole \cup {handle[c]}
      /\ handle' = [handle EXCEPT ![c] = NoInode]
      /\ UNCHANGED <<final, staging, outstanding, sample, contended>>
  BY DEF Fill, FillStaging
<1>2. /\ pc'[c] = "replace"
      /\ \A d \in Commands : d # c => pc'[d] = pc[d] /\ handle'[d] = handle[d]
      /\ handle'[c] = NoInode
  BY <1>1 DEF Fill, Goto, TypeOK, FileTypeOK, Commands
<1>3. \A s \in Samples : s \notin contended \/ s # sample[c] => Whole(s)' = Whole(s)
  <2> SUFFICES ASSUME NEW s \in Samples, s \notin contended \/ s # sample[c]
               PROVE  handle[c] # final[s] \/ final[s] = NoInode
    BY <1>1 DEF Whole
  <2> QED
    BY <1>1 DEF StoreInv, OwnHandle, OneName
<1>4. \A s \in Samples : Unverified(s)' => Unverified(s)
  BY <1>1 DEF Unverified, Present, Whole
<1>5. OneName' /\ SharedIsContended'
  BY <1>1, <1>2 DEF StoreInv, OneName, SharedIsContended, Writing
<1>6. OwnHandle'
  BY <1>1, <1>2 DEF StoreInv, OwnHandle
<1>7. FilledIsWhole'
  BY <1>1, <1>2 DEF StoreInv, FilledIsWhole, OwnHandle
<1>8. NothingBroken'
  BY <1>1, <1>2, <1>4 DEF StoreInv, NothingBroken, TypeOK
<1>9. \A s \in Samples : s \notin contended \/ s # sample[c] => Status(s)' = Status(s)
  BY <1>1, <1>3 DEF Status, Present
<1> QED
  BY <1>5, <1>6, <1>7, <1>8, <1>9 DEF StoreInv

\* Replacing publishes the staging file under the name of the sample.
LEMMA ReplaceStep ==
  ASSUME TypeOK, TypeOK', StoreInv, NEW c \in Commands, Replace(c),
         NEW n \in Samples, n = sample[c]
  PROVE  /\ StoreInv'
         /\ \A s \in Samples : s # n => Status(s)' = Status(s)
         /\ n \notin contended => Status(n) # "unverified" /\ Status(n)' = "verified"
<1>1. /\ pc[c] = "replace" /\ n \in Samples /\ staging[n] # NoInode
      /\ final' = [final EXCEPT ![n] = staging[n]]
      /\ staging' = [staging EXCEPT ![n] = NoInode]
      /\ UNCHANGED <<whole, handle, sample, contended>>
  BY DEF Replace, ReplaceFinal, Advance, TypeOK
<1>2. /\ final'[n] = staging[n] /\ staging'[n] = NoInode
      /\ \A s \in Samples : s # n => final'[s] = final[s] /\ staging'[s] = staging[s]
  BY <1>1 DEF TypeOK, FileTypeOK, Samples
<1>3. /\ pc'[c] = "next"
      /\ \A d \in Commands : d # c => pc'[d] = pc[d]
  BY DEF Replace, Advance, Goto, TypeOK
<1>4. OneName'
  BY <1>1, <1>2 DEF StoreInv, OneName
<1>5. \A d \in Commands : d # c /\ Writing(d) /\ sample[d] = n => n \in contended
  BY <1>1 DEF StoreInv, SharedIsContended, Writing
<1>6. OwnHandle'
  <2> SUFFICES ASSUME NEW d \in Commands, handle[d] # NoInode
               PROVE  /\ \A t \in Samples : t # sample[d] =>
                           handle[d] # final'[t] /\ handle[d] # staging'[t]
                      /\ sample[d] \notin contended => handle[d] = staging'[sample[d]]
    BY <1>1 DEF OwnHandle
  <2>1. pc[d] = "fill" /\ d # c /\ sample[d] \in Samples
    BY <1>1 DEF TypeOK
  <2>2. sample[d] \notin contended => sample[d] # n
    BY <1>5, <2>1 DEF Writing
  <2> QED
    BY <1>1, <1>2, <2>1, <2>2 DEF StoreInv, OwnHandle
<1>7. SharedIsContended'
  BY <1>1, <1>3 DEF StoreInv, SharedIsContended, Writing
<1>8. FilledIsWhole'
  BY <1>1, <1>2, <1>3, <1>5 DEF StoreInv, FilledIsWhole, Writing, TypeOK
<1>9. n \notin contended => ~ Unverified(n) /\ staging[n] \in whole
  BY <1>1 DEF StoreInv, NothingBroken, FilledIsWhole
<1>10. \A s \in Samples : s # n => Whole(s)' = Whole(s) /\ Present(s)' = Present(s)
  BY <1>1, <1>2 DEF Whole, Present
<1>11. n \notin contended => Whole(n)' /\ Present(n)'
  BY <1>1, <1>2, <1>9 DEF Whole, Present
<1>12. NothingBroken'
  <2> SUFFICES ASSUME NEW d \in Commands, pc'[d] \in {"open", "fill", "replace"},
                      sample[d] \notin contended
               PROVE  ~ Unverified(sample[d])'
    BY <1>1 DEF NothingBroken, Unverified, Present, Whole
  <2>1. d # c /\ pc[d] \in {"open", "fill", "replace"} /\ sample[d] \in Samples
    BY <1>3 DEF TypeOK
  <2>2. CASE sample[d] = n
    BY <1>1, <1>11, <2>2 DEF Unverified, Present, Whole
  <2>3. CASE sample[d] # n
    BY <1>1, <1>10, <2>1, <2>3 DEF StoreInv, NothingBroken, Unverified, Present, Whole
  <2> QED
    BY <2>2, <2>3
<1>13. \A s \in Samples : s # n => Status(s)' = Status(s)
  BY <1>10 DEF Status
<1>14. n \notin contended => Status(n) # "unverified"
  BY <1>9 DEF Status, Unverified
<1>15. n \notin contended => Status(n)' = "verified"
  BY <1>1, <1>11 DEF Status, Present, Whole
<1> QED
  BY <1>1, <1>4, <1>6, <1>7, <1>8, <1>12, <1>13, <1>14, <1>15 DEF StoreInv

\* Removing a file by hand happens while nothing is written.
LEMMA RemoveStep ==
  ASSUME TypeOK, TypeOK', StoreInv, NEW s \in Samples, RemoveUnverified(s)
  PROVE  /\ StoreInv'
         /\ Status(s) = "unverified" /\ Status(s)' = "absent"
         /\ \A t \in Samples : t # s => Status(t)' = Status(t)
<1>1. /\ \A c \in Commands : pc[c] = "idle"
      /\ UNCHANGED <<staging, whole, handle, pc, sample, contended>>
      /\ final' = [final EXCEPT ![s] = NoInode]
  BY DEF RemoveUnverified, commandVars
<1>2. final'[s] = NoInode /\ \A t \in Samples : t # s => final'[t] = final[t]
  BY <1>1 DEF TypeOK, FileTypeOK, Samples
<1>3. \A c \in Commands : handle[c] = NoInode
  BY <1>1, NoHandle
<1>4. OneName'
  BY <1>1, <1>2 DEF StoreInv, OneName
<1>5. OwnHandle' /\ SharedIsContended' /\ FilledIsWhole' /\ NothingBroken'
  BY <1>1, <1>3 DEF OwnHandle, SharedIsContended, FilledIsWhole, NothingBroken, Writing
<1>6. \A t \in Samples : t # s => Status(t)' = Status(t)
  BY <1>1, <1>2 DEF Status, Present, Whole
<1>7. Status(s) = "unverified" /\ Status(s)' = "absent"
  BY <1>2 DEF RemoveUnverified, Unverified, Status, Present
<1> QED
  BY <1>4, <1>5, <1>6, <1>7 DEF StoreInv

\* Commands that neither hold an open file nor are about to publish one.
LEMMA FewFiles ==
  ASSUME TypeOK, TypeOK', StoreInv, NEW c \in Commands,
         \/ Start(c) \/ Done(c) \/ NextSample(c) \/ FetchCached(c)
         \/ ReplaceRaises(c) \/ DownloadFails(c)
  PROVE  StoreInv' /\ UNCHANGED <<final, whole, contended>>
<1>1. /\ UNCHANGED <<final, staging, whole, contended, handle>>
      /\ pc[c] # "fill"
  BY DEF Start, Done, NextSample, FetchCached, ReplaceRaises, DownloadFails, fileVars
<1>2. /\ pc'[c] \in {"idle", "next", "fetch"}
      /\ \A d \in Commands : d # c => pc'[d] = pc[d]
  <2>1. CASE NextSample(c)
    <3>1. PICK i \in outstanding[c] : TakeUnless(spent[c] >= Budget, c, i)
      BY <2>1 DEF NextSample
    <3>2. pc[c] = "next"
      BY <2>1 DEF NextSample
    <3> QED
      BY <3>1, <3>2 DEF TakeUnless, End, Goto, TypeOK
  <2>2. CASE ~ NextSample(c)
    BY <2>2 DEF Start, Done, FetchCached, ReplaceRaises, DownloadFails, End, Advance, Goto,
                TypeOK
  <2> QED
    BY <2>1, <2>2
<1>3. \A d \in Commands : d # c => sample'[d] = sample[d]
  <2>1. CASE NextSample(c)
    <3>1. PICK i \in outstanding[c] : TakeUnless(spent[c] >= Budget, c, i)
      BY <2>1 DEF NextSample
    <3> QED
      BY <3>1 DEF TakeUnless, End, TypeOK
  <2>2. CASE ~ NextSample(c)
    BY <2>2 DEF Start, Done, FetchCached, ReplaceRaises, DownloadFails, End, Advance
  <2> QED
    BY <2>1, <2>2
<1> QED
  BY <1>1, <1>2, <1>3, QuietStep

\* What was absent has been downloaded.
LEMMA DownloadStep ==
  ASSUME TypeOK, TypeOK', StoreInv, NEW c \in Commands, Download(c)
  PROVE  StoreInv' /\ UNCHANGED <<final, whole, contended>>
<1>1. /\ UNCHANGED <<final, staging, whole, contended, handle, sample>>
      /\ pc[c] = "fetch" /\ pc'[c] = "open" /\ ~ Present(sample[c])
      /\ \A d \in Commands : d # c => pc'[d] = pc[d]
  BY DEF Download, Goto, fileVars, TypeOK
<1>2. OneName' /\ OwnHandle'
  BY <1>1 DEF StoreInv, OneName, OwnHandle
<1>3. SharedIsContended' /\ FilledIsWhole'
  BY <1>1 DEF StoreInv, SharedIsContended, FilledIsWhole, Writing
<1>4. NothingBroken'
  BY <1>1 DEF StoreInv, NothingBroken, Unverified, Present, Whole
<1> QED
  BY <1>1, <1>2, <1>3, <1>4 DEF StoreInv

\* A killed command leaves its staging file as it is.
LEMMA KillStep ==
  ASSUME TypeOK, TypeOK', StoreInv, NEW c \in Commands, Kill(c)
  PROVE  StoreInv' /\ UNCHANGED <<final, whole, contended>>
<1>1. /\ UNCHANGED <<final, staging, whole, contended, sample>>
      /\ handle' = [handle EXCEPT ![c] = NoInode]
      /\ pc' = [pc EXCEPT ![c] = "idle"]
  BY DEF Kill, CloseStaging, End, Goto
<1>2. /\ pc'[c] = "idle" /\ handle'[c] = NoInode
      /\ \A d \in Commands : d # c => pc'[d] = pc[d] /\ handle'[d] = handle[d]
  BY <1>1 DEF TypeOK, FileTypeOK, Commands
<1>3. OneName' /\ OwnHandle'
  BY <1>1, <1>2 DEF StoreInv, OneName, OwnHandle
<1>4. SharedIsContended' /\ FilledIsWhole'
  BY <1>1, <1>2 DEF StoreInv, SharedIsContended, FilledIsWhole, Writing
<1>5. NothingBroken'
  BY <1>1, <1>2 DEF StoreInv, NothingBroken, Unverified, Present, Whole
<1> QED
  BY <1>1, <1>3, <1>4, <1>5 DEF StoreInv

\* Every step keeps the invariant.
LEMMA StoreStep ==
  ASSUME TypeOK, TypeOK', StoreInv, [Next]_vars
  PROVE  StoreInv'
<1>1. CASE UNCHANGED vars
  BY <1>1 DEF vars, fileVars, commandVars, StoreInv, OneName, OwnHandle, SharedIsContended,
              FilledIsWhole, NothingBroken, Writing, Unverified, Present, Whole
<1>2. \A c \in Commands : sample[c] \in Samples
  BY DEF TypeOK
<1> QED
  BY <1>1, <1>2, FewFiles, OpenStep, FillStep, ReplaceStep, DownloadStep, KillStep, RemoveStep
  DEF Next, Work

\* The invariant of the store.
LEMMA StoreInvariant == Spec => [](TypeOK /\ StoreInv)
<1>1. Init => StoreInv
  <2> SUFFICES ASSUME Init PROVE StoreInv
    OBVIOUS
  <2>1. PICK present \in SUBSET Samples, inode \in [Samples -> Inodes] :
          /\ \A s, t \in Samples : s # t => inode[s] # inode[t]
          /\ final = [s \in Samples |-> IF s \in present THEN inode[s] ELSE NoInode]
    BY DEF Init
  <2>2. \A s \in Samples : staging[s] = NoInode
    BY DEF Init
  <2>3. OneName
    BY <2>1, <2>2 DEF OneName
  <2>4. OwnHandle /\ SharedIsContended /\ FilledIsWhole /\ NothingBroken
    BY DEF Init, OwnHandle, SharedIsContended, FilledIsWhole, NothingBroken, Writing
  <2> QED
    BY <2>3, <2>4 DEF StoreInv
<1>2. TypeOK /\ TypeOK' /\ StoreInv /\ [Next]_vars => StoreInv'
  BY StoreStep
<1> QED
  BY <1>1, <1>2, TypeCorrect, PTL DEF Spec

\* A step changes the status of one file, and only as the store allows.
LEMMA StoreRefined ==
  ASSUME TypeOK, TypeOK', StoreInv, [Next]_vars
  PROVE  [\E s \in Samples : Store!Publish(s) \/ Store!Remove(s) \/ Store!Contend(s)]_(Store!vars)
<1> DEFINE status == [s \in Samples |-> Status(s)]
           Changed(n, v) == status' = [status EXCEPT ![n] = v]
<1>1. \A s \in Samples : Status(s) \in {"absent", "unverified", "verified"}
                         /\ Status(s)' \in {"absent", "unverified", "verified"}
  BY DEF Status
<1>2. ASSUME NEW n \in Samples, \A s \in Samples : s # n => Status(s)' = Status(s)
      PROVE  Changed(n, Status(n)')
  BY <1>2
<1>3. ASSUME \A s \in Samples : Status(s)' = Status(s), contended' = contended
      PROVE  UNCHANGED Store!vars
  BY <1>3 DEF Store!vars
<1>4. ASSUME NEW c \in Commands, Open(c)
      PROVE  Store!Contend(sample[c]) \/ UNCHANGED Store!vars
  <2>1. \A s \in Samples : Status(s)' = Status(s)
    BY <1>4, OpenStep
  <2>2. sample[c] \in Samples
    BY DEF TypeOK
  <2>3. CASE contended' = contended
    BY <1>3, <2>1, <2>3
  <2>4. CASE contended' = contended \cup {sample[c]}
    BY <1>1, <1>2, <2>1, <2>2, <2>4 DEF Store!Contend
  <2> QED
    BY <1>4, <2>3, <2>4 DEF Open
<1>5. ASSUME NEW c \in Commands, Fill(c)
      PROVE  Store!Contend(sample[c]) \/ UNCHANGED Store!vars
  <2>1. /\ \A s \in Samples : s \notin contended \/ s # sample[c] => Status(s)' = Status(s)
        /\ contended' = contended /\ sample[c] \in Samples
    BY <1>5, FillStep DEF Fill, TypeOK
  <2>2. CASE sample[c] \in contended
    BY <1>1, <1>2, <2>1, <2>2 DEF Store!Contend
  <2>3. CASE sample[c] \notin contended
    BY <1>3, <2>1, <2>3
  <2> QED
    BY <2>2, <2>3
<1>6. ASSUME NEW c \in Commands, Replace(c)
      PROVE  \/ \E n \in Samples : Store!Contend(n) \/ Store!Publish(n)
             \/ UNCHANGED Store!vars
  <2>1. PICK n \in Samples : n = sample[c]
    BY DEF TypeOK
  <2>2. /\ \A s \in Samples : s # n => Status(s)' = Status(s)
        /\ contended' = contended
    BY <1>6, <2>1, ReplaceStep DEF Replace
  <2>3. CASE n \in contended
    BY <1>1, <1>2, <2>2, <2>3 DEF Store!Contend
  <2>4. CASE n \notin contended
    <3>1. Status(n) # "unverified" /\ Status(n)' = "verified"
      BY <1>6, <2>1, <2>4, ReplaceStep
    <3>2. CASE Status(n) = "absent"
      BY <1>2, <2>2, <3>1, <3>2 DEF Store!Publish
    <3>3. CASE Status(n) = "verified"
      BY <1>3, <2>2, <3>1, <3>3
    <3> QED
      BY <1>1, <3>1, <3>2, <3>3
  <2> QED
    BY <2>3, <2>4
<1>7. ASSUME NEW s \in Samples, RemoveUnverified(s)
      PROVE  Store!Remove(s)
  <2>1. /\ \A t \in Samples : t # s => Status(t)' = Status(t)
        /\ Status(s) = "unverified" /\ Status(s)' = "absent"
        /\ contended' = contended
    BY <1>7, RemoveStep DEF RemoveUnverified
  <2> QED
    BY <1>2, <2>1 DEF Store!Remove
<1>8. ASSUME UNCHANGED <<final, whole, contended>>
      PROVE  UNCHANGED Store!vars
  BY <1>3, <1>8 DEF Status, Present, Whole
<1>9. CASE UNCHANGED vars
  BY <1>8, <1>9 DEF vars, fileVars
<1>10. \A c \in Commands : sample[c] \in Samples
  BY DEF TypeOK
<1> QED
  BY <1>4, <1>5, <1>6, <1>7, <1>8, <1>9, <1>10, FewFiles, DownloadStep, KillStep
  DEF Next, Work

(***************************************************************************)
(* acquire_lamda_apk publishes a file whole or not at all, for any number  *)
(* of overlapping commands killed anywhere: the directory implements the   *)
(* verified store, where only a sample that two commands wrote at once may *)
(* show broken content.                                                    *)
(***************************************************************************)
THEOREM StoreCorrect == Spec => ImplementsStore
<1>1. Init => Store!Init
  BY DEF Init, Store!Init, Status
<1>2. TypeOK /\ TypeOK' /\ StoreInv /\ [Next]_vars
        => [\E s \in Samples :
              Store!Publish(s) \/ Store!Remove(s) \/ Store!Contend(s)]_(Store!vars)
  BY StoreRefined
<1> QED
  BY <1>1, <1>2, StoreInvariant, PTL DEF Spec, ImplementsStore, Store!Spec

-----------------------------------------------------------------------------
(* Why contention heals.                                                   *)

\* Until a command is killed, what is not whole is being filled.
BrokenIsOpen ==
  kills = 0 => \A s \in Samples :
    /\ staging[s] # NoInode =>
         staging[s] \in whole \/ \E c \in Commands : handle[c] = staging[s]
    /\ s \in contended /\ Unverified(s) => \E c \in Commands : handle[c] = final[s]

\* Every step keeps it.
LEMMA BrokenStep ==
  ASSUME TypeOK, TypeOK', StoreInv, BrokenIsOpen, [Next]_vars
  PROVE  BrokenIsOpen'
<1>1. ASSUME UNCHANGED <<final, staging, whole, handle, contended, kills>>
      PROVE  BrokenIsOpen'
  BY <1>1 DEF BrokenIsOpen, Unverified, Present, Whole
<1>2. ASSUME NEW c \in Commands, Open(c)
      PROVE  BrokenIsOpen'
  <2>1. PICK n \in Samples : n = sample[c]
    BY DEF TypeOK
  <2>2. FileTypeOK /\ OpenStaging(c, n) /\ pc[c] = "open" /\ kills' = kills
    BY <1>2, <2>1 DEF TypeOK, Open
  <2>3. /\ handle'[c] = staging'[n]
        /\ \A d \in Commands : d # c => handle'[d] = handle[d]
        /\ \A m \in Samples : m # n => staging'[m] = staging[m]
        /\ whole' = whole \ {staging'[n]}
        /\ final' = final
    BY <2>2, OpenedTypes DEF Commands, Samples
  <2>4. handle[c] = NoInode
    BY <2>2, NoHandle
  <2>5. OneName' /\ staging'[n] # NoInode
    BY <1>2, <2>2, OpenStep, OpenedTypes DEF StoreInv, Commands, Samples
  <2>6. \A s \in Samples : Status(s)' = Status(s)
    BY <1>2, OpenStep
  <2>7. \A s \in Samples : Unverified(s)' = Unverified(s)
    BY <2>6 DEF Status, Unverified
  <2>8. \A s \in contended' : s \in contended \/ ~ Unverified(s)
    BY <1>2, <2>1, <2>2 DEF Open, StoreInv, NothingBroken
  <2>9. ASSUME kills = 0, NEW s \in Samples, staging'[s] # NoInode
        PROVE  staging'[s] \in whole' \/ \E d \in Commands : handle'[d] = staging'[s]
    <3>1. CASE s = n
      BY <2>3, <3>1
    <3>2. CASE s # n
      <4>1. staging'[s] = staging[s] /\ staging[s] # staging'[n]
        BY <2>3, <2>5, <2>9, <3>2 DEF OneName
      <4>2. CASE staging[s] \in whole
        BY <2>3, <4>1, <4>2
      <4>3. CASE staging[s] \notin whole
        <5>1. PICK d \in Commands : handle[d] = staging[s]
          BY <2>9, <4>1, <4>3 DEF BrokenIsOpen
        <5> QED
          BY <2>3, <2>4, <2>9, <4>1, <5>1
      <4> QED
        BY <4>2, <4>3
    <3> QED
      BY <3>1, <3>2
  <2>10. ASSUME kills = 0, NEW s \in Samples, s \in contended', Unverified(s)
         PROVE  \E d \in Commands : handle'[d] = final'[s]
    <3>1. PICK d \in Commands : handle[d] = final[s]
      BY <2>8, <2>10 DEF BrokenIsOpen
    <3>2. handle[d] # NoInode
      BY <2>10, <3>1 DEF Unverified, Present
    <3> QED
      BY <2>3, <2>4, <3>1, <3>2
  <2> QED
    BY <2>2, <2>7, <2>9, <2>10 DEF BrokenIsOpen
<1>3. ASSUME NEW c \in Commands, Fill(c)
      PROVE  BrokenIsOpen'
  <2>1. /\ whole' = whole \cup {handle[c]}
        /\ \A d \in Commands : d # c => handle'[d] = handle[d]
        /\ UNCHANGED <<final, staging, contended, kills>>
    BY <1>3 DEF Fill, FillStaging, TypeOK, FileTypeOK, Commands
  <2> QED
    BY <2>1 DEF BrokenIsOpen, Unverified, Present, Whole
<1>4. ASSUME NEW c \in Commands, Replace(c)
      PROVE  BrokenIsOpen'
  <2>1. PICK n \in Samples : n = sample[c]
    BY DEF TypeOK
  <2>2. /\ final'[n] = staging[n] /\ staging'[n] = NoInode
        /\ \A s \in Samples : s # n => final'[s] = final[s] /\ staging'[s] = staging[s]
        /\ UNCHANGED <<whole, handle, contended, kills>>
        /\ staging[n] # NoInode
    BY <1>4, <2>1 DEF Replace, ReplaceFinal, TypeOK, FileTypeOK, Samples
  <2> QED
    BY <2>2 DEF BrokenIsOpen, Unverified, Present, Whole
<1>5. ASSUME NEW c \in Commands, Kill(c)
      PROVE  BrokenIsOpen'
  <2>1. kills' # 0
    BY <1>5 DEF Kill, TypeOK
  <2> QED
    BY <2>1 DEF BrokenIsOpen
<1>6. ASSUME NEW s \in Samples, RemoveUnverified(s)
      PROVE  BrokenIsOpen'
  <2>1. /\ final'[s] = NoInode
        /\ \A t \in Samples : t # s => final'[t] = final[t]
        /\ UNCHANGED <<staging, whole, handle, contended, kills>>
    BY <1>6 DEF RemoveUnverified, commandVars, TypeOK, FileTypeOK, Samples
  <2> QED
    BY <2>1 DEF BrokenIsOpen, Unverified, Present, Whole
<1>7. ASSUME NEW c \in Commands,
             \/ Start(c) \/ Done(c) \/ NextSample(c) \/ FetchCached(c)
             \/ ReplaceRaises(c) \/ DownloadFails(c) \/ Download(c)
      PROVE  BrokenIsOpen'
  BY <1>1, <1>7
  DEF Start, Done, NextSample, FetchCached, ReplaceRaises, DownloadFails, Download, fileVars
<1>8. CASE UNCHANGED vars
  BY <1>1, <1>8 DEF vars, fileVars, commandVars
<1> QED
  BY <1>2, <1>3, <1>4, <1>5, <1>6, <1>7, <1>8 DEF Next, Work

(***************************************************************************)
(* Two commands that overwrite one another's staging file of one sample    *)
(* leave it broken only while one of them is still writing, as long as     *)
(* none is killed: write_bytes truncates, but both write the same bytes.   *)
(***************************************************************************)
THEOREM HealingCorrect == Spec => []ContentionHeals
<1>1. Init => BrokenIsOpen
  BY DEF Init, BrokenIsOpen
<1>2. TypeOK /\ TypeOK' /\ StoreInv /\ BrokenIsOpen /\ [Next]_vars => BrokenIsOpen'
  BY BrokenStep
<1>3. TypeOK /\ BrokenIsOpen => ContentionHeals
  <2> SUFFICES ASSUME TypeOK, BrokenIsOpen, NEW s \in contended, kills = 0,
                      \A c \in Commands : handle[c] = NoInode
               PROVE  ~ Unverified(s)
    BY DEF ContentionHeals
  <2> QED
    BY DEF BrokenIsOpen, Unverified, Present, TypeOK
<1> QED
  BY <1>1, <1>2, <1>3, StoreInvariant, PTL DEF Spec

-----------------------------------------------------------------------------
(* The budget.                                                             *)

\* A download is begun below the budget, and ends at most one file above it.
Spending ==
  \A c \in Commands :
    /\ pc[c] \in {"fetch", "open", "fill", "replace"} => spent[c] < Budget
    /\ spent[c] > 0 => \E s \in Samples : spent[c] < Budget + Size[s]

\* The spending of the command that works on a sample.
LEMMA SpendingStep ==
  ASSUME TypeOK, Spending, [Next]_vars
  PROVE  Spending'
<1>1. ASSUME NEW c \in Commands, UNCHANGED spent,
             \A d \in Commands : d # c => pc'[d] = pc[d],
             \/ pc'[c] \in {"idle", "next"}
             \/ pc'[c] \in {"fetch", "open", "fill", "replace"} /\ spent[c] < Budget
      PROVE  Spending'
  BY <1>1 DEF Spending
<1>2. ASSUME NEW c \in Commands, pc[c] \in {"fetch", "replace"}, pc'[c] = "next",
             spent' = [spent EXCEPT ![c] = @ + Size[sample[c]]],
             \A d \in Commands : d # c => pc'[d] = pc[d]
      PROVE  Spending'
  <2>1. /\ sample[c] \in Samples /\ spent[c] \in Nat /\ Size[sample[c]] \in Nat
        /\ Budget \in Nat
    BY AcquisitionAssumption DEF TypeOK
  <2>2. spent[c] < Budget
    BY <1>2 DEF Spending
  <2>3. /\ spent'[c] = spent[c] + Size[sample[c]]
        /\ \A d \in Commands : d # c => spent'[d] = spent[d]
    BY <1>2 DEF TypeOK
  <2>4. spent'[c] < Budget + Size[sample[c]]
    BY <2>1, <2>2, <2>3
  <2> QED
    BY <1>2, <2>1, <2>3, <2>4 DEF Spending
<1>3. ASSUME NEW c \in Commands, Start(c) PROVE Spending'
  <2>1. /\ spent'[c] = 0 /\ pc'[c] = "next"
        /\ \A d \in Commands : d # c => spent'[d] = spent[d] /\ pc'[d] = pc[d]
    BY <1>3 DEF Start, Goto, TypeOK
  <2> QED
    BY <2>1 DEF Spending
<1>4. ASSUME NEW c \in Commands, NextSample(c) PROVE Spending'
  <2>1. PICK i \in outstanding[c] : TakeUnless(spent[c] >= Budget, c, i)
    BY <1>4 DEF NextSample
  <2>2. pc[c] = "next" /\ spent' = spent /\ spent[c] \in Nat /\ Budget \in Nat
    BY <1>4, AcquisitionAssumption DEF NextSample, TypeOK
  <2>3. CASE pc'[c] = "fetch"
    <3>1. ~ (spent[c] >= Budget)
      BY <2>1, <2>2, <2>3 DEF TakeUnless, End, Goto, TypeOK
    <3>2. spent[c] < Budget
      BY <2>2, <3>1
    <3>3. \A d \in Commands : d # c => pc'[d] = pc[d]
      BY <2>1 DEF TakeUnless, End, Goto, TypeOK
    <3> QED
      BY <1>1, <2>2, <2>3, <3>2, <3>3
  <2>4. CASE pc'[c] # "fetch"
    <3>1. pc'[c] \in {"idle", "next"} /\ \A d \in Commands : d # c => pc'[d] = pc[d]
      BY <2>1, <2>2, <2>4 DEF TakeUnless, End, Goto, TypeOK
    <3> QED
      BY <1>1, <2>2, <3>1
  <2> QED
    BY <2>3, <2>4
<1>5. ASSUME NEW c \in Commands, FetchCached(c) PROVE Spending'
  <2>1. CASE Verified(sample[c])
    BY <1>2, <1>5, <2>1 DEF FetchCached, Advance, Goto, TypeOK
  <2>2. CASE ~ Verified(sample[c])
    BY <1>1, <1>5, <2>2 DEF FetchCached, End, Goto, TypeOK
  <2> QED
    BY <2>1, <2>2
<1>6. ASSUME NEW c \in Commands, Replace(c) PROVE Spending'
  BY <1>2, <1>6 DEF Replace, Advance, Goto, TypeOK
<1>7. ASSUME NEW c \in Commands, Done(c) \/ ReplaceRaises(c) \/ DownloadFails(c) \/ Kill(c)
      PROVE  Spending'
  BY <1>1, <1>7 DEF Done, ReplaceRaises, DownloadFails, Kill, End, Goto, TypeOK
<1>8. ASSUME NEW c \in Commands, Download(c) \/ Open(c) \/ Fill(c) PROVE Spending'
  <2>1. pc[c] \in {"fetch", "open", "fill"} /\ spent[c] < Budget
    BY <1>8 DEF Download, Open, Fill, Spending
  <2> QED
    BY <1>1, <1>8, <2>1 DEF Download, Open, Fill, Goto, TypeOK
<1>9. ASSUME NEW s \in Samples, RemoveUnverified(s) PROVE Spending'
  BY <1>9 DEF RemoveUnverified, commandVars, Spending
<1>10. CASE UNCHANGED vars
  BY <1>10 DEF vars, commandVars, Spending
<1> QED
  BY <1>3, <1>4, <1>5, <1>6, <1>7, <1>8, <1>9, <1>10 DEF Next, Work

(***************************************************************************)
(* acquire_lamda_apks_within_budget tests the budget before a download of  *)
(* unknown size: a command never spends a whole file more than its budget. *)
(***************************************************************************)
THEOREM BudgetCorrect == Spec => []BudgetBoundsDownloads
<1>1. Init => Spending
  BY DEF Init, Spending
<1>2. TypeOK /\ Spending /\ [Next]_vars => Spending'
  BY SpendingStep
<1>3. Spending => BudgetBoundsDownloads
  BY DEF Spending, BudgetBoundsDownloads
<1> QED
  BY <1>1, <1>2, <1>3, TypeCorrect, PTL DEF Spec

-----------------------------------------------------------------------------
(* Preparation: intervals.                                                 *)

\* The overlap test on the boundaries of an interval and a gap says whether they share a
\* month.
LEMMA OverlapIsSharedMonth ==
  ASSUME NEW start \in Int, NEW end \in Int, start < end,
         NEW gap \in [start : Nat, end : Nat], gap.start <= gap.end
  PROVE  IsIntervalOverlappingGap(start, end, gap)
           <=> \E m \in Months(start, end) : m \in gap.start .. gap.end
<1>1. gap.start \in Nat /\ gap.end \in Nat
  OBVIOUS
<1>2. ASSUME NEW m \in Months(start, end), m \in gap.start .. gap.end
      PROVE  IsIntervalOverlappingGap(start, end, gap)
  BY <1>1, <1>2 DEF Months, IsIntervalOverlappingGap
<1>3. ASSUME IsIntervalOverlappingGap(start, end, gap)
      PROVE  \E m \in Months(start, end) : m \in gap.start .. gap.end
  <2>1. gap.start < end /\ start <= gap.end
    BY <1>1, <1>3 DEF IsIntervalOverlappingGap
  <2>2. CASE gap.start <= start
    <3>1. start \in Months(start, end) /\ start \in gap.start .. gap.end
      BY <1>1, <2>1, <2>2 DEF Months
    <3> QED
      BY <3>1
  <2>3. CASE start < gap.start
    <3>1. gap.start \in Months(start, end) /\ gap.start \in gap.start .. gap.end
      BY <1>1, <2>1, <2>3 DEF Months
    <3> QED
      BY <3>1
  <2> QED
    BY <1>1, <2>2, <2>3
<1> QED
  BY <1>2, <1>3

\* An interval is observable exactly when every month of it is observed.
LEMMA ObservableIsObserved ==
  ASSUME NEW s \in SourceChronology, \A gap \in s.gaps : gap.start <= gap.end,
         NEW start \in Int, NEW end \in Int, start < end
  PROVE  IsIntervalObservable(s, start, end) <=> Months(start, end) \subseteq ObservedMonths(s)
<1>1. /\ s.first \in Nat /\ s.last \in Nat
      /\ \A gap \in s.gaps : gap \in [start : Nat, end : Nat]
  BY DEF SourceChronology
<1>2. ASSUME IsIntervalObservable(s, start, end), NEW m \in Months(start, end)
      PROVE  m \in ObservedMonths(s)
  <2>1. m \in s.first .. s.last
    BY <1>1, <1>2 DEF IsIntervalObservable, Months
  <2>2. ASSUME NEW gap \in s.gaps PROVE m \notin gap.start .. gap.end
    BY <1>1, <1>2, OverlapIsSharedMonth DEF IsIntervalObservable
  <2> QED
    BY <2>1, <2>2 DEF ObservedMonths
<1>3. ASSUME Months(start, end) \subseteq ObservedMonths(s)
      PROVE  IsIntervalObservable(s, start, end)
  <2>1. start \in Months(start, end) /\ end - 1 \in Months(start, end)
    BY DEF Months
  <2>2. start >= s.first /\ end - 1 <= s.last
    BY <1>1, <1>3, <2>1 DEF ObservedMonths
  <2>3. ASSUME NEW gap \in s.gaps PROVE ~ IsIntervalOverlappingGap(start, end, gap)
    BY <1>1, <1>3, OverlapIsSharedMonth DEF ObservedMonths
  <2> QED
    BY <2>2, <2>3 DEF IsIntervalObservable
<1> QED
  BY <1>2, <1>3

-----------------------------------------------------------------------------
(* What is on file while a command runs.                                   *)

AuditedOK ==
  \A d \in Datasets : eligible[d] # {} => eligible[d] = Cutoffs(d)

PreparedOK ==
  prepared.retained # {} =>
    prepared = PrepareRecords(release) /\ split = ConstructCutoffSplit(release)

ReleaseOK == phase = "prepare" \/ prepared.retained # {} => release # NoRelease

PreparedInv ==
  /\ source \in Sources
  /\ DOMAIN eligible = Datasets
  /\ pending \in Seq(Datasets)
  /\ phase = "prepare" => pending # <<>>
  /\ AuditedOK
  /\ PreparedOK
  /\ ReleaseOK

\* What a command has computed is what it computes from the files in place: only there does
\* a release replace none.
THEOREM PreparedInvariant == PreparationSpec => []PreparedInv
<1>1. PreparationInit => PreparedInv
  <2> SUFFICES ASSUME PreparationInit PROVE PreparedInv
    OBVIOUS
  <2>1. pending \in Seq(Datasets)
    BY DEF PreparationInit
  <2> QED
    BY <2>1 DEF PreparationInit, PreparedInv, AuditedOK, PreparedOK, ReleaseOK, NothingPrepared
<1>2. PreparedInv /\ [PreparationNext]_preparationVars => PreparedInv'
  <2> SUFFICES ASSUME PreparedInv, [PreparationNext]_preparationVars PROVE PreparedInv'
    OBVIOUS
  <2> USE DEF PreparedInv
  <2>1. CASE Preprocess
    <3>1. DatasetOrder \in Seq(Datasets) /\ \A d \in Datasets : <<d>> \in Seq(Datasets)
      <4>1. "lamda" \in Datasets /\ "ember2024" \in Datasets
        BY DEF Datasets
      <4> QED
        BY <4>1 DEF DatasetOrder
    <3>2. pending' \in Seq(Datasets)
      BY <2>1, <3>1 DEF Preprocess
    <3> QED
      BY <2>1, <3>2 DEF Preprocess, AuditedOK, PreparedOK, ReleaseOK, NothingPrepared
  <2>2. CASE AuditRaises
    BY <2>2 DEF AuditRaises, AuditedOK, PreparedOK, ReleaseOK, Cutoffs
  <2>3. CASE Audit
    <3>1. Head(pending) \in Datasets /\ Tail(pending) \in Seq(Datasets)
      BY <2>3 DEF Audit
    <3>2. AuditedOK'
      BY <2>3, <3>1 DEF Audit, AuditedOK, Cutoffs
    <3>3. pending' \in Seq(Datasets) /\ DOMAIN eligible' = Datasets
      BY <2>3, <3>1 DEF Audit
    <3> QED
      BY <2>3, <3>2, <3>3 DEF Audit, PreparedOK, ReleaseOK
  <2>4. CASE Prepare
    <3>1. Tail(pending) \in Seq(Datasets)
      BY <2>4 DEF Prepare
    <3> QED
      BY <2>4, <3>1 DEF Prepare, AuditedOK, PreparedOK, ReleaseOK, Cutoffs
  <2>5. CASE Persist
    BY <2>5 DEF Persist, AuditedOK, PreparedOK, ReleaseOK, Cutoffs
  <2>6. CASE Acquire
    BY <2>6, PreparationAssumption DEF Acquire, AuditedOK, PreparedOK, ReleaseOK, Cutoffs
  <2>7. CASE UNCHANGED preparationVars
    BY <2>7 DEF preparationVars, AuditedOK, PreparedOK, ReleaseOK, Cutoffs
  <2> QED
    BY <2>1, <2>2, <2>3, <2>4, <2>5, <2>6, <2>7 DEF PreparationNext
<1> QED
  BY <1>1, <1>2, PTL DEF PreparationSpec

-----------------------------------------------------------------------------
(* Cutoffs.                                                                *)

\* What is enumerated for a dataset is what a month-by-month reading finds.
LEMMA CutoffsAreObserved ==
  ASSUME source \in Sources, NEW d \in Datasets
  PROVE  LET s == source[d]
             covered(start, end) == Months(start, end) \subseteq ObservedMonths(s)
         IN  Cutoffs(d) =
               {[cutoff |-> c, primary |-> covered(c, c + Horizon)] :
                  c \in {e \in (s.first + History) .. (s.last + 1) :
                           /\ (e - s.first - History) % Step = 0
                           /\ covered(e - History, e)}}
<1> DEFINE s == source[d]
           range == (s.first + History) .. (s.last + 1)
           covered(start, end) == Months(start, end) \subseteq ObservedMonths(s)
           offered == {e \in range : /\ (e - (s.first + History)) % Step = 0
                                     /\ IsIntervalObservable(s, e - History, e)}
           reference == {e \in range : /\ (e - s.first - History) % Step = 0
                                       /\ covered(e - History, e)}
<1>1. /\ s \in SourceChronology
      /\ \A gap \in s.gaps : gap.start <= gap.end
      /\ History \in Nat \ {0} /\ Horizon \in Nat \ {0}
  BY PreparationAssumption
<1>2. s.first \in Nat /\ s.last \in Nat
  BY <1>1 DEF SourceChronology
<1>3. ASSUME NEW e \in range
      PROVE  /\ e \in Int
             /\ e - (s.first + History) = e - s.first - History
             /\ IsIntervalObservable(s, e - History, e) <=> covered(e - History, e)
             /\ IsIntervalObservable(s, e, e + Horizon) <=> covered(e, e + Horizon)
  <2>1. e \in Int /\ e - History \in Int /\ e + Horizon \in Int
    BY <1>1, <1>2
  <2>2. e - History < e /\ e < e + Horizon /\ e - (s.first + History) = e - s.first - History
    BY <1>1, <1>2, <2>1
  <2>3. IsIntervalObservable(s, e - History, e) <=> covered(e - History, e)
    BY <1>1, <2>1, <2>2, ObservableIsObserved
  <2>4. IsIntervalObservable(s, e, e + Horizon) <=> covered(e, e + Horizon)
    BY <1>1, <2>1, <2>2, ObservableIsObserved
  <2> QED
    BY <2>1, <2>2, <2>3, <2>4
<1>4. offered = reference
  BY <1>3
<1>5. {[cutoff |-> c, primary |-> IsIntervalObservable(s, c, c + Horizon)] : c \in offered}
        = {[cutoff |-> c, primary |-> covered(c, c + Horizon)] : c \in offered}
  <2>1. \A c \in offered : IsIntervalObservable(s, c, c + Horizon) = covered(c, c + Horizon)
    <3> SUFFICES ASSUME NEW c \in offered
                 PROVE  IsIntervalObservable(s, c, c + Horizon) = covered(c, c + Horizon)
      OBVIOUS
    <3>1. IsIntervalObservable(s, c, c + Horizon) <=> covered(c, c + Horizon)
      BY <1>3
    <3>2. IsIntervalObservable(s, c, c + Horizon) \in BOOLEAN
      BY DEF IsIntervalObservable
    <3> QED
      BY <3>1, <3>2
  <2> HIDE DEF offered, covered, s
  <2> QED
    BY <2>1
<1>6. Cutoffs(d) = {[cutoff |-> c, primary |-> IsIntervalObservable(s, c, c + Horizon)] :
                      c \in offered}
  BY DEF Cutoffs, EnumerateRollingCutoffs
<1> QED
  BY <1>4, <1>5, <1>6

(***************************************************************************)
(* `fedact preprocess` offers exactly the cutoffs whose whole history the  *)
(* corpus covers, for every chronology, gap and window length              *)
(* (enumerate_rolling_cutoffs, is_interval_overlapping_gap).               *)
(***************************************************************************)
THEOREM HistoriesCorrect == PreparationSpec => []HistoriesAreObserved
<1>1. PreparedInv => HistoriesAreObserved
  BY CutoffsAreObserved DEF PreparedInv, AuditedOK, HistoriesAreObserved
<1> QED
  BY <1>1, PreparedInvariant, PTL

-----------------------------------------------------------------------------
(* Rows.                                                                   *)

\* A retained sample is a row of the release, and all rows of its identity are that row.
LEMMA RetainedHasNoConflict ==
  ASSUME NEW rows, NEW r \in PrepareRecords(rows).retained
  PROVE  \A i \in DOMAIN rows : rows[i].id = r.id => rows[i] = r
<1>1. PICK id \in Ids(rows) : ~ IsConflicting(rows, id) /\ r = Winner(rows, id)
  BY DEF PrepareRecords
<1>2. Group(rows, id) # {}
  BY DEF Ids, Group
<1>3. r \in Group(rows, id)
  BY <1>1, <1>2 DEF Winner
<1>4. r.id = id
  BY <1>3 DEF Group
<1> SUFFICES ASSUME NEW i \in DOMAIN rows, rows[i].id = r.id PROVE rows[i] = r
  OBVIOUS
<1>5. rows[i] \in Group(rows, id)
  BY <1>4 DEF Group
<1> QED
  BY <1>1, <1>3, <1>5 DEF IsConflicting

(***************************************************************************)
(* Although the split is made from the rows as loaded, a retained sample   *)
(* is never both trained and tested on (prepare_records,                   *)
(* construct_cutoff_split).                                                *)
(***************************************************************************)
THEOREM RetainedCorrect == PreparationSpec => []RetainedInOnePartition
<1>1. PreparedInv => RetainedInOnePartition
  <2> SUFFICES ASSUME PreparedInv, NEW r \in prepared.retained,
                      NEW i \in DOMAIN split, NEW j \in DOMAIN split,
                      release[i].id = r.id, release[j].id = r.id
               PROVE  split[i] = split[j]
    BY DEF RetainedInOnePartition
  <2>1. prepared = PrepareRecords(release) /\ split = ConstructCutoffSplit(release)
    BY DEF PreparedInv, PreparedOK
  <2>2. DOMAIN split = DOMAIN release
    BY <2>1 DEF ConstructCutoffSplit
  <2>3. release[i] = r /\ release[j] = r
    BY <2>1, <2>2, RetainedHasNoConflict
  <2> QED
    BY <2>1, <2>2, <2>3 DEF ConstructCutoffSplit
<1> QED
  BY <1>1, PreparedInvariant, PTL

=============================================================================
