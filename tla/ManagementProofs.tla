-------------------------- MODULE ManagementProofs --------------------------
(***************************************************************************)
(* What StateStore::save promises, for every device, every set of commands *)
(* and every number of saves: a crash at any of its system calls leaves a  *)
(* complete file, and none older than the last save that was acknowledged. *)
(***************************************************************************)
EXTENDS Management, TLAPS, SequenceTheorems

(* The steps of a save, and the state of the temporary file.               *)
Phases == {"idle", "create", "write", "sync", "rename", "dirsync"}
Files  == {"absent", "partial", "complete", "synced"}

(* What the file system holds: the file at the path, and what a crash may  *)
(* leave of it, were written by some save or by none.                      *)
DiskOK ==
  /\ \E T : disk \in [path : Int, survivors : SUBSET Int, tmp : Files,
                      text : Seq(T), parent : BOOLEAN]
  /\ disk.survivors \subseteq 0 .. Attempts

(* The temporary file is synced before it is renamed, and the rename is    *)
(* what the sync of the directory makes durable.                           *)
SaveOK ==
  /\ save \in Phases
  /\ save = "rename" => disk.tmp = "synced"
  /\ save = "dirsync" => disk.path = Attempts

(* No survivor is older than what was acknowledged.                        *)
AckedOK ==
  /\ acked \in 0 .. Attempts
  /\ disk.parent => \A n \in disk.survivors : n >= acked

StorageInv == DiskOK /\ SaveOK /\ AckedOK

(* Writing one more file keeps the earlier ones and counts one more.       *)
LEMMA AppendText ==
  ASSUME NEW T, NEW s \in Seq(T), NEW e
  PROVE  /\ Append(s, e) \in Seq(T \cup {e})
         /\ Len(s) \in Nat
         /\ Len(Append(s, e)) = Len(s) + 1
<1>1. s \in Seq(T \cup {e})
  BY SeqMonotonic
<1> QED
  BY <1>1, AppendProperties, LenProperties

(* At the start no save has been made and no file exists.                  *)
LEMMA InitStorage == Init => StorageInv
<1> SUFFICES ASSUME Init PROVE StorageInv
  OBVIOUS
<1>1. PICK parent \in Device.parents : disk = EmptyDisk(parent)
  BY DEF Init
<1>2. parent \in BOOLEAN
  BY <1>1, ProfilesAssumption DEF Init, Device
<1>3. << >> \in Seq({}) /\ Len(<< >>) = 0
  OBVIOUS
<1>4. DiskOK
  <2>1. disk \in [path : Int, survivors : SUBSET Int, tmp : Files,
                  text : Seq({}), parent : BOOLEAN]
    BY <1>1, <1>2, <1>3 DEF EmptyDisk, Files
  <2> QED
    BY <1>1, <1>3, <2>1 DEF DiskOK, Attempts, EmptyDisk
<1>5. SaveOK /\ AckedOK
  BY <1>1, <1>3 DEF Init, SaveOK, AckedOK, Attempts, EmptyDisk, Phases
<1> QED
  BY <1>4, <1>5 DEF StorageInv

(* Every command, every system call of a save, every error and every crash *)
(* keeps the invariant.                                                    *)
LEMMA NextStorage == StorageInv /\ [Next]_vars => StorageInv'
<1> SUFFICES ASSUME StorageInv, [Next]_vars PROVE StorageInv'
  OBVIOUS
<1>1. PICK T : disk \in [path : Int, survivors : SUBSET Int, tmp : Files,
                         text : Seq(T), parent : BOOLEAN]
  BY DEF StorageInv, DiskOK
<1>2. Attempts \in Nat
  BY <1>1, LenProperties DEF Attempts
<1>3. CASE UNCHANGED vars
  BY <1>3 DEF vars, StorageInv, DiskOK, SaveOK, AckedOK, Attempts
<1>4. ASSUME NEW s \in Sessions, NEW cmd \in Device.commands, Process(s, cmd)
      PROVE  StorageInv'
  <2>1. /\ disk' = disk /\ acked' = acked /\ save = "idle"
        /\ save' \in {"create", save}
    BY <1>4 DEF Process, Answer
  <2> QED
    BY <2>1 DEF StorageInv, DiskOK, SaveOK, AckedOK, Attempts, Phases
<1>5. ASSUME NEW s \in Sessions, EndConfiguration(s)
      PROVE  StorageInv'
  BY <1>5 DEF EndConfiguration, StorageInv, DiskOK, SaveOK, AckedOK, Attempts
<1>6. CASE Create
  <2> DEFINE text == Append(disk.text, Render(startup[1]))
  <2>1. /\ disk' = [disk EXCEPT !.tmp = "partial", !.text = text]
        /\ save' = "write" /\ acked' = acked
    BY <1>6 DEF Create, SaveStep
  <2>2. text \in Seq(T \cup {Render(startup[1])}) /\ Len(text) = Attempts + 1
    BY <1>1, AppendText DEF Attempts
  <2> HIDE DEF text
  <2>3. disk' \in [path : Int, survivors : SUBSET Int, tmp : Files,
                   text : Seq(T \cup {Render(startup[1])}), parent : BOOLEAN]
    BY <1>1, <2>1, <2>2 DEF Files
  <2>4. Attempts' = Attempts + 1 /\ disk'.survivors = disk.survivors /\ disk'.parent = disk.parent
    BY <1>1, <2>1, <2>2 DEF Attempts
  <2>5. DiskOK'
    BY <1>2, <2>3, <2>4 DEF StorageInv, DiskOK
  <2> QED
    BY <1>2, <2>1, <2>4, <2>5 DEF StorageInv, SaveOK, AckedOK, Phases
<1>7. CASE WriteAll
  BY <1>1, <1>7 DEF WriteAll, SaveStep, StorageInv, DiskOK, SaveOK, AckedOK, Attempts, Phases, Files
<1>8. CASE SyncAll
  BY <1>1, <1>8 DEF SyncAll, SaveStep, StorageInv, DiskOK, SaveOK, AckedOK, Attempts, Phases, Files
<1>9. CASE Rename
  <2>1. /\ save = "rename" /\ disk.tmp = "synced"
        /\ save' \in {"dirsync", "idle"}
        /\ acked' = IF disk.parent THEN acked ELSE Attempts
    BY <1>9 DEF Rename, SaveStep, StorageInv, SaveOK
  <2>2. disk' = [disk EXCEPT !.path = Attempts, !.survivors = disk.survivors \cup {Attempts},
                             !.tmp = "absent"]
    BY <1>9, <2>1 DEF Rename, SaveStep
  <2>3. /\ disk'.text = disk.text /\ disk'.path = Attempts /\ disk'.parent = disk.parent
        /\ disk'.survivors = disk.survivors \cup {Attempts}
    BY <1>1, <2>2
  <2>4. Attempts' = Attempts
    BY <2>3 DEF Attempts
  <2>5. disk' \in [path : Int, survivors : SUBSET Int, tmp : Files,
                   text : Seq(T), parent : BOOLEAN]
    <3> DEFINE after == disk.survivors \cup {Attempts}
    <3>1. after \in SUBSET Int
      <4>1. disk.survivors \in SUBSET Int /\ Attempts \in Int
        BY <1>1, <1>2
      <4> QED
        BY <4>1
    <3> HIDE DEF after
    <3>2. disk' = [disk EXCEPT !.path = Attempts, !.survivors = after, !.tmp = "absent"]
      BY <2>2 DEF after
    <3>3. disk' = [path |-> Attempts, survivors |-> after, tmp |-> "absent",
                   text |-> disk.text, parent |-> disk.parent]
      BY <1>1, <3>2
    <3>4. disk.text \in Seq(T) /\ disk.parent \in BOOLEAN /\ "absent" \in Files /\ Attempts \in Int
      BY <1>1, <1>2 DEF Files
    <3> QED
      BY <3>1, <3>3, <3>4
  <2>6. DiskOK'
    BY <1>2, <2>3, <2>4, <2>5 DEF StorageInv, DiskOK
  <2> QED
    BY <1>1, <1>2, <2>1, <2>3, <2>4, <2>6 DEF StorageInv, SaveOK, AckedOK, Phases, DiskOK
<1>10. CASE SyncDirectory
  <2>1. /\ save = "dirsync" /\ save' = "idle" /\ acked' = Attempts
        /\ disk' = [disk EXCEPT !.survivors = {disk.path}]
        /\ disk.path = Attempts
    BY <1>10 DEF SyncDirectory, SaveStep, StorageInv, SaveOK
  <2>2. /\ disk'.text = disk.text /\ disk'.survivors = {Attempts}
    BY <1>1, <2>1
  <2>3. Attempts' = Attempts
    BY <2>2 DEF Attempts
  <2>4. DiskOK'
    BY <1>1, <1>2, <2>1, <2>2, <2>3, SMTT(20) DEF StorageInv, DiskOK
  <2> QED
    BY <1>2, <2>1, <2>2, <2>3, <2>4 DEF StorageInv, SaveOK, AckedOK, Phases
<1>11. CASE SaveFails
  BY <1>1, <1>11 DEF SaveFails, StorageInv, DiskOK, SaveOK, AckedOK, Attempts, Phases, Files
<1>12. CASE Restart
  <2>1. PICK n \in disk.survivors : /\ disk' = [disk EXCEPT !.path = n, !.survivors = {n}]
                                    /\ acked' = n
    BY <1>12 DEF Restart
  <2>2. n \in 0 .. Attempts /\ save' = "idle"
    BY <1>12, <2>1 DEF StorageInv, DiskOK, Restart
  <2>3. disk'.text = disk.text /\ disk'.survivors = {n}
    BY <1>1, <2>1
  <2>4. Attempts' = Attempts
    BY <2>3 DEF Attempts
  <2>5. DiskOK'
    BY <1>1, <1>2, <2>1, <2>2, <2>3, <2>4 DEF StorageInv, DiskOK
  <2> QED
    BY <1>2, <2>1, <2>2, <2>3, <2>4, <2>5 DEF StorageInv, SaveOK, AckedOK, Phases
<1> QED
  BY <1>3, <1>4, <1>5, <1>6, <1>7, <1>8, <1>9, <1>10, <1>11, <1>12 DEF Next

(* The inductive invariant of the storage: which steps of a save have been *)
(* made, and what a crash would leave.                                     *)
THEOREM StorageInvariant == Spec => []StorageInv
<1> QED
  BY InitStorage, NextStorage, PTL DEF Spec

(* StateStore::save: once a save has been acknowledged, no crash, error or *)
(* later save that is cut short brings back an older configuration, and no *)
(* crash leaves a torn file.                                               *)
THEOREM StorageAcknowledgedSurvives == Spec => []AcknowledgedSurvives
<1>1. StorageInv => AcknowledgedSurvives
  BY DEF StorageInv, DiskOK, AckedOK, AcknowledgedSurvives, Torn, Attempts
<1> QED
  BY <1>1, StorageInvariant, PTL
=============================================================================
