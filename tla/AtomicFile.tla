------------------------------ MODULE AtomicFile ------------------------------
(***************************************************************************)
(* Writing a file through a staging name: write_bytes_atomically of        *)
(* artifacts.py, and the same protocol in acquire_lamda_apk.  The payload  *)
(* goes to a second name beside the destination, which then replaces it.   *)
(*                                                                         *)
(* The staging name is a function of the destination, so that two writers  *)
(* of one destination share it.  Opening an existing staging file          *)
(* truncates the very inode another writer may be filling or about to      *)
(* publish; replacing moves whatever the staging name points to, and fails *)
(* when another writer has moved it already.  Payloads of one destination  *)
(* are equal here, so an inode is whole or it is not.                      *)
(***************************************************************************)
EXTENDS FiniteSets

CONSTANTS Writers, Names, Inodes, NoInode

ASSUME InodeAssumption == NoInode \notin Inodes

VARIABLES final,    \* the inode each destination names, or NoInode
          staging,  \* the inode its staging name names, or NoInode
          whole,    \* inodes with complete content
          handle    \* the inode each writer has open, or NoInode

fileVars == <<final, staging, whole, handle>>

FileTypeOK ==
  /\ final \in [Names -> Inodes \cup {NoInode}]
  /\ staging \in [Names -> Inodes \cup {NoInode}]
  /\ whole \subseteq Inodes
  /\ handle \in [Writers -> Inodes \cup {NoInode}]

InUse == {final[n] : n \in Names} \cup {staging[n] : n \in Names} \cup {handle[w] : w \in Writers}

\* The system hands out an inode nobody names or holds; Inodes bounds them.
Free == Inodes \ InUse

Whole(n) == final[n] \in whole

-----------------------------------------------------------------------------

\* staging.write_bytes: open with truncation ...
OpenStaging(w, n) ==
  /\ handle[w] = NoInode
  /\ IF staging[n] = NoInode
       THEN \E i \in Free : /\ staging' = [staging EXCEPT ![n] = i]
                            /\ whole' = whole \ {i}
                            /\ handle' = [handle EXCEPT ![w] = i]
       ELSE /\ whole' = whole \ {staging[n]}
            /\ handle' = [handle EXCEPT ![w] = staging[n]]
            /\ UNCHANGED staging
  /\ UNCHANGED final

\* ... and write the payload.
FillStaging(w) ==
  /\ handle[w] # NoInode
  /\ whole' = whole \cup {handle[w]}
  /\ handle' = [handle EXCEPT ![w] = NoInode]
  /\ UNCHANGED <<final, staging>>

\* os.replace
ReplaceFinal(n) ==
  /\ staging[n] # NoInode
  /\ final' = [final EXCEPT ![n] = staging[n]]
  /\ staging' = [staging EXCEPT ![n] = NoInode]
  /\ UNCHANGED <<whole, handle>>

\* The writer is gone; what it had written so far stays.
CloseStaging(w) ==
  /\ handle' = [handle EXCEPT ![w] = NoInode]
  /\ UNCHANGED <<final, staging, whole>>

=============================================================================
