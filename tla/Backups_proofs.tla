---------------------------- MODULE Backups_proofs ----------------------------
(***************************************************************************)
(* Proofs about BackupStore, for any workers, any number of backups, any   *)
(* retention and any number of faults; then about BackupRestore, for any   *)
(* mounts, restores and faults, as R; then about ClusterTransfer, for any  *)
(* followers, transfers, writes and faults, as T.                          *)
(*                                                                         *)
(* IInv of each is inductive: a lemma per action.  In the first two, the   *)
(* first step says what the action does to the records, and the parts of   *)
(* the invariant follow from that, each from the parts it rests on; in the *)
(* third they follow from the action itself.                               *)
(***************************************************************************)
EXTENDS Backups, TLAPS

(* Who is who.                                                             *)
LEMMA Names ==
    /\ NoOne \notin Workers /\ Sweeper \notin Workers /\ NoOne # Sweeper
    /\ 0 \notin Ids /\ Server \subseteq Workers
  BY StoreAssumption DEF Ids

(* What the invariant says of types, for steps that need no more of it.    *)
LEMMA TaskType == ASSUME IInv PROVE task \in [Workers -> Tasks]
  BY DEF IInv, TypeOK

(* What dying workers leave behind are backups.                            *)
LEMMA CutTypes ==
  ASSUME IInv, NEW who \in SUBSET Workers, NEW files \in SUBSET Ids, Cut(who, files)
  PROVE  past' \in [bare : SUBSET Ids, litter : SUBSET Ids]
<1>. DEFINE at(where) == {w \in who : At(w, where)}
            lost == {w \in who : Mine(w) \in Ids /\ row[Mine(w)] \in {"error", "deleted"}}
<1>1. {Mine(w) : w \in at("discarded")} \subseteq Ids
  BY DEF IInv, WorkInv, Undoing, Made, At, Mine
<1>2. {Mine(w) : w \in at("failing") \cup lost} \subseteq Ids
  BY DEF IInv, WorkInv, Undoing, Made, At, Mine
<1>3. UNION {task[w].unlink : w \in who} \subseteq Ids
  BY TaskType DEF Tasks
<1>4. past \in [bare : SUBSET Ids, litter : SUBSET Ids]
  BY DEF IInv, TypeOK
<1>5. past' = [past EXCEPT !.bare = @ \cup {Mine(w) : w \in at("discarded")},
                 !.litter = @ \cup files \cup {Mine(w) : w \in at("failing") \cup lost}
                              \cup UNION {task[w].unlink : w \in who}]
  BY DEF Cut
<1>. HIDE DEF at, lost
<1>. QED
  BY <1>1, <1>2, <1>3, <1>4, <1>5

LEMMA Types ==
  ASSUME IInv
  PROVE  /\ \A i \in Ids : row[i] \in {"none", "running", "success", "error", "deleted"}
         /\ \A i \in Ids : file[i] \in {"none", "temp", "whole"}
         /\ \A v \in Workers : task[v].unlink \subseteq Ids
         /\ sweep.rows \subseteq Ids
  BY DEF IInv, TypeOK, Tasks


(* A new row has its worker, who has nothing else.                         *)
LEMMA BeginStep ==
  ASSUME IInv, NEW w \in Workers, NEW kind \in {"create", "import"}, Begin(w, kind)
  PROVE  IInv'
<1>1. PICK i \in Ids :
       /\ task[w].at = "idle"
       /\ row[i] = "none" /\ row'[i] = "running"
       /\ \A j \in Ids : j # i => row'[j] = row[j]
       /\ task'[w].at = "begun" /\ task'[w].id = i
       /\ task'[w].kind = kind /\ task'[w].unlink = {}
       /\ \A v \in Workers : v # w => task'[v] = task[v]
       /\ file' = file /\ section' = section /\ sweep' = sweep /\ past' = past
  BY Names DEF IInv, TypeOK, Begin, At, Idle
<1>2. TypeOK'
  <2>1. task' \in [Workers -> Tasks]
    <3>1. PICK k \in Ids :
            task' = [task EXCEPT ![w] = [Idle EXCEPT !.at = "begun", !.id = k, !.kind = kind]]
      BY DEF Begin
    <3>2. [Idle EXCEPT !.at = "begun", !.id = k, !.kind = kind] \in Tasks
      BY DEF Idle, Tasks, States, Making
    <3>. QED
      BY <3>1, <3>2, TaskType
  <2>. QED
    BY <2>1, Names, StoreAssumption
       DEF IInv, TypeOK, WorkInv, Made, Exists, At, Mine, Begin, Idle
<1>3. WorkInv'
  BY <1>1, Names, Types
     DEF IInv, WorkInv, Made, At, Mine, Exists, Making, Undoing
<1>4. BundleInv'
  BY <1>1, Names, Types
     DEF IInv, WorkInv, Made, At, Mine, Exists, Making, Undoing, BundleInv
<1>5. SuccessHasBundle'
  BY <1>1, Names, Types
     DEF IInv, WorkInv, Made, At, Mine, Exists, Making, Undoing, BundleInv,
         Successes, SuccessHasBundle
<1>6. LitterInv'
  BY <1>1, Names, Types
     DEF IInv, WorkInv, Made, At, Mine, Exists, Making, Undoing, BundleInv,
         LitterInv, MakerAtWork, Swept, Listed
<1>. QED
  BY <1>2, <1>3, <1>4, <1>5, <1>6 DEF IInv

(* The maker has the section from here on.                                 *)
LEMMA EnterStep ==
  ASSUME IInv, NEW w \in Workers, Enter(w)
  PROVE  IInv'
<1>1. /\ task[w].at = "begun"
      /\ section = NoOne /\ section' = w
      /\ task'[w].at = "writing" /\ task'[w].unlink = task[w].unlink
      /\ task'[w].id = task[w].id /\ task'[w].kind = task[w].kind
      /\ \A v \in Workers : v # w => task'[v] = task[v]
      /\ row' = row /\ file' = file /\ sweep' = sweep /\ past' = past
  BY Names DEF IInv, TypeOK, Enter, At, Goto
<1>2. TypeOK'
  <2>1. task' \in [Workers -> Tasks]
    BY TaskType
       DEF Enter, At, Goto, Tasks, States, Making, Undoing, Removing, Restoring
  <2>. QED
    BY <2>1, Names, StoreAssumption
       DEF IInv, TypeOK, WorkInv, Made, Exists, At, Mine, Enter, Goto
<1>3. WorkInv'
  BY <1>1, Names, Types
     DEF IInv, WorkInv, Made, At, Mine, Exists, Making, Undoing
<1>4. BundleInv'
  BY <1>1, Names, Types
     DEF IInv, WorkInv, Made, At, Mine, Exists, Making, Undoing, BundleInv
<1>5. SuccessHasBundle'
  BY <1>1, Names, Types
     DEF IInv, WorkInv, Made, At, Mine, Exists, Making, Undoing, BundleInv,
         Successes, SuccessHasBundle
<1>6. LitterInv'
  BY <1>1, Names, Types
     DEF IInv, WorkInv, Made, At, Mine, Exists, Making, Undoing, BundleInv,
         LitterInv, MakerAtWork, Swept, Listed
<1>. QED
  BY <1>2, <1>3, <1>4, <1>5, <1>6 DEF IInv

(* Either the maker undoes its backup, or nobody has the row any more.     *)
LEMMA RefusedStep ==
  ASSUME IInv, NEW w \in Workers, Refused(w)
  PROVE  IInv'
<1>1. /\ task[w].at = "begun"
      /\ \/ task'[w] = Idle /\ task'[w].at = "idle" /\ task'[w].id = 0
            /\ task'[w].kind = "none" /\ task'[w].unlink = {}
         \/ task'[w].at = "failing" /\ task'[w].id = task[w].id
            /\ task'[w].kind = task[w].kind /\ task'[w].unlink = task[w].unlink
      /\ \A v \in Workers : v # w => task'[v] = task[v]
      /\ row' = row /\ file' = file /\ section' = section /\ sweep' = sweep /\ past' = past
  BY Names DEF IInv, TypeOK, Refused, At, Idle
<1>2. TypeOK'
  <2>1. task' \in [Workers -> Tasks]
    BY TaskType
       DEF Refused, At, Idle, Tasks, States, Making, Undoing, Removing,
           Restoring
  <2>. QED
    BY <2>1, Names, StoreAssumption
       DEF IInv, TypeOK, WorkInv, Made, Exists, At, Mine, Refused, Idle
<1>3. WorkInv'
  BY <1>1, Names, Types
     DEF IInv, WorkInv, Made, At, Mine, Exists, Making, Undoing
<1>4. BundleInv'
  BY <1>1, Names, Types
     DEF IInv, WorkInv, Made, At, Mine, Exists, Making, Undoing, BundleInv
<1>5. SuccessHasBundle'
  BY <1>1, Names, Types
     DEF IInv, WorkInv, Made, At, Mine, Exists, Making, Undoing, BundleInv,
         Successes, SuccessHasBundle
<1>6. LitterInv'
  BY <1>1, Names, Types
     DEF IInv, WorkInv, Made, At, Mine, Exists, Making, Undoing, BundleInv,
         LitterInv, MakerAtWork, Swept, Listed
<1>. QED
  BY <1>2, <1>3, <1>4, <1>5, <1>6 DEF IInv

(* A temporary file has a maker.                                           *)
LEMMA WriteTempStep ==
  ASSUME IInv, NEW w \in Workers, WriteTemp(w)
  PROVE  IInv'
<1>1. /\ task[w].at = "writing"
      /\ Mine(w) \in Ids => file'[Mine(w)] = "temp"
      /\ \A i \in Ids : i # Mine(w) => file'[i] = file[i]
      /\ task'[w].at = "written" /\ task'[w].unlink = task[w].unlink
      /\ task'[w].id = task[w].id /\ task'[w].kind = task[w].kind
      /\ \A v \in Workers : v # w => task'[v] = task[v]
      /\ row' = row /\ section' = section /\ sweep' = sweep /\ past' = past
  BY Names DEF IInv, TypeOK, WriteTemp, At, Goto, Mine, Put
<1>2. TypeOK'
  <2>1. task' \in [Workers -> Tasks]
    BY TaskType
       DEF WriteTemp, At, Goto, Mine, Put, Tasks, States, Making, Undoing,
           Removing, Restoring
  <2>. QED
    BY <2>1, Names, StoreAssumption
       DEF IInv, TypeOK, WorkInv, Made, Exists, At, Mine, WriteTemp, Goto, Put
<1>3. WorkInv'
  BY <1>1, Names, Types
     DEF IInv, WorkInv, Made, At, Mine, Exists, Making, Undoing
<1>4. BundleInv'
  BY <1>1, Names, Types
     DEF IInv, WorkInv, Made, At, Mine, Exists, Making, Undoing, BundleInv
<1>5. SuccessHasBundle'
  BY <1>1, Names, Types
     DEF IInv, WorkInv, Made, At, Mine, Exists, Making, Undoing, BundleInv,
         Successes, SuccessHasBundle
<1>6. LitterInv'
  BY <1>1, Names, Types
     DEF IInv, WorkInv, Made, At, Mine, Exists, Making, Undoing, BundleInv,
         LitterInv, MakerAtWork, Swept, Listed
<1>. QED
  BY <1>2, <1>3, <1>4, <1>5, <1>6 DEF IInv

(* The maker renames the file, whose row may be gone by now.               *)
LEMMA RenameStep ==
  ASSUME IInv, NEW w \in Workers, Rename(w)
  PROVE  IInv'
<1>1. /\ task[w].at = "written"
      /\ Mine(w) \in Ids => file'[Mine(w)] = "whole"
      /\ \A i \in Ids : i # Mine(w) => file'[i] = file[i]
      /\ task'[w].at = "verified" /\ task'[w].unlink = task[w].unlink
      /\ task'[w].id = task[w].id /\ task'[w].kind = task[w].kind
      /\ \A v \in Workers : v # w => task'[v] = task[v]
      /\ row' = row /\ section' = section /\ sweep' = sweep /\ past' = past
  BY Names DEF IInv, TypeOK, Rename, At, Goto, Mine, Put
<1>2. TypeOK'
  <2>1. task' \in [Workers -> Tasks]
    BY TaskType
       DEF Rename, At, Goto, Mine, Put, Tasks, States, Making, Undoing,
           Removing, Restoring
  <2>. QED
    BY <2>1, Names, StoreAssumption
       DEF IInv, TypeOK, WorkInv, Made, Exists, At, Mine, Rename, Goto, Put
<1>3. WorkInv'
  BY <1>1, Names, Types
     DEF IInv, WorkInv, Made, At, Mine, Exists, Making, Undoing
<1>4. BundleInv'
  BY <1>1, Names, Types
     DEF IInv, WorkInv, Made, At, Mine, Exists, Making, Undoing, BundleInv
<1>5. SuccessHasBundle'
  BY <1>1, Names, Types
     DEF IInv, WorkInv, Made, At, Mine, Exists, Making, Undoing, BundleInv,
         Successes, SuccessHasBundle
<1>6. LitterInv'
  BY <1>1, Names, Types
     DEF IInv, WorkInv, Made, At, Mine, Exists, Making, Undoing, BundleInv,
         LitterInv, MakerAtWork, Swept, Listed
<1>. QED
  BY <1>2, <1>3, <1>4, <1>5, <1>6 DEF IInv

(* What was written is the failing maker's.                                *)
LEMMA WriteFailsStep ==
  ASSUME IInv, NEW w \in Workers, WriteFails(w)
  PROVE  IInv'
<1>1. /\ task[w].at \in {"writing", "written", "verified"}
      /\ task'[w].at = "failing" /\ task'[w].unlink = task[w].unlink
      /\ task'[w].id = task[w].id /\ task'[w].kind = task[w].kind
      /\ \A v \in Workers : v # w => task'[v] = task[v]
      /\ row' = row /\ file' = file /\ section' = section /\ sweep' = sweep /\ past' = past
  BY Names DEF IInv, TypeOK, WriteFails, At, Goto, Fault
<1>2. TypeOK'
  <2>1. task' \in [Workers -> Tasks]
    BY TaskType
       DEF WriteFails, At, Goto, Fault, Tasks, States, Making, Undoing,
           Removing, Restoring
  <2>. QED
    BY <2>1, Names, StoreAssumption
       DEF IInv, TypeOK, WorkInv, Made, Exists, At, Mine, WriteFails, Goto,
           Fault
<1>3. WorkInv'
  BY <1>1, Names, Types
     DEF IInv, WorkInv, Made, At, Mine, Exists, Making, Undoing
<1>4. BundleInv'
  BY <1>1, Names, Types
     DEF IInv, WorkInv, Made, At, Mine, Exists, Making, Undoing, BundleInv
<1>5. SuccessHasBundle'
  BY <1>1, Names, Types
     DEF IInv, WorkInv, Made, At, Mine, Exists, Making, Undoing, BundleInv,
         Successes, SuccessHasBundle
<1>6. LitterInv'
  BY <1>1, Names, Types
     DEF IInv, WorkInv, Made, At, Mine, Exists, Making, Undoing, BundleInv,
         LitterInv, MakerAtWork, Swept, Listed
<1>. QED
  BY <1>2, <1>3, <1>4, <1>5, <1>6 DEF IInv

(* Only the maker makes its row a success, and its file is whole.          *)
LEMMA SucceedStep ==
  ASSUME IInv, NEW w \in Workers, Succeed(w)
  PROVE  IInv'
<1>1. /\ task[w].at = "verified"
      /\ Mine(w) \in Ids => row'[Mine(w)] = IF Exists(Mine(w)) THEN "success" ELSE row[Mine(w)]
      /\ \A i \in Ids : i # Mine(w) => row'[i] = row[i]
      /\ task'[w].at = IF Exists(Mine(w)) THEN "succeeded" ELSE "failing"
      /\ task'[w].id = task[w].id /\ task'[w].kind = task[w].kind
      /\ \A v \in Workers : v # w => task'[v] = task[v]
      /\ task'[w].unlink = task[w].unlink
      /\ file' = file /\ section' = section /\ sweep' = sweep /\ past' = past
  BY Names DEF IInv, TypeOK, Succeed, At, Goto, Mine, Set
<1>2. TypeOK'
  <2>1. task' \in [Workers -> Tasks]
    BY TaskType
       DEF Succeed, At, Goto, Mine, Set, Tasks, States, Making, Undoing,
           Removing, Restoring
  <2>. QED
    BY <2>1, Names, StoreAssumption
       DEF IInv, TypeOK, WorkInv, Made, Exists, At, Mine, Succeed, Goto, Set
<1>3. WorkInv'
  BY <1>1, Names, Types
     DEF IInv, WorkInv, Made, At, Mine, Exists, Making, Undoing
<1>4. BundleInv'
  BY <1>1, Names, Types
     DEF IInv, WorkInv, Made, At, Mine, Exists, Making, Undoing, BundleInv
<1>5. SuccessHasBundle'
  BY <1>1, Names, Types
     DEF IInv, WorkInv, Made, At, Mine, Exists, Making, Undoing, BundleInv,
         Successes, SuccessHasBundle
<1>6. LitterInv'
  BY <1>1, Names, Types
     DEF IInv, WorkInv, Made, At, Mine, Exists, Making, Undoing, BundleInv,
         LitterInv, MakerAtWork, Swept, Listed
<1>. QED
  BY <1>2, <1>3, <1>4, <1>5, <1>6 DEF IInv

(* The file of the import goes, or is left over for good.                  *)
LEMMA ImportCommitFailsStep ==
  ASSUME IInv, NEW w \in Workers, ImportCommitFails(w)
  PROVE  IInv'
<1>1. /\ task[w].at = "verified"
      /\ task'[w] = Idle
      /\ task'[w].at = "idle" /\ task'[w].id = 0
      /\ task'[w].kind = "none" /\ task'[w].unlink = {}
      /\ \A v \in Workers : v # w => task'[v] = task[v]
      /\ section' = IF section = w THEN NoOne ELSE section
      /\ \A i \in Ids : i # Mine(w) => file'[i] = file[i]
      /\ Mine(w) \in Ids => file'[Mine(w)] = "none" \/ (file' = file /\ Mine(w) \in past'.litter)
      /\ past.bare \subseteq past'.bare /\ past.litter \subseteq past'.litter
      /\ row' = row /\ sweep' = sweep
  <2>1. CASE Put(Mine(w), "none") /\ UNCHANGED past
    BY <2>1, Names
       DEF IInv, TypeOK, ImportCommitFails, At, Mine, Fault, Put, Released, Idle
  <2>2. CASE file' = file /\ past' = [past EXCEPT !.litter = @ \cup {Mine(w)}]
    BY <2>2, Names
       DEF IInv, TypeOK, ImportCommitFails, At, Mine, Fault, Put, Released, Idle
  <2>. QED
    BY <2>1, <2>2 DEF ImportCommitFails
<1>2. TypeOK'
  <2>1. task' \in [Workers -> Tasks]
    BY TaskType
       DEF ImportCommitFails, At, Mine, Fault, Put, Released, Idle, Tasks,
           States, Making, Undoing, Removing, Restoring
  <2>. QED
    BY <2>1, Names, StoreAssumption
       DEF IInv, TypeOK, WorkInv, Made, Exists, At, Mine, ImportCommitFails,
           Fault, Put, Released, Idle
<1>3. WorkInv'
  BY <1>1, Names, Types
     DEF IInv, WorkInv, Made, At, Mine, Exists, Making, Undoing
<1>4. BundleInv'
  BY <1>1, Names, Types
     DEF IInv, WorkInv, Made, At, Mine, Exists, Making, Undoing, BundleInv
<1>5. SuccessHasBundle'
  BY <1>1, Names, Types
     DEF IInv, WorkInv, Made, At, Mine, Exists, Making, Undoing, BundleInv,
         Successes, SuccessHasBundle
<1>6. LitterInv'
  BY <1>1, Names, Types
     DEF IInv, WorkInv, Made, At, Mine, Exists, Making, Undoing, BundleInv,
         LitterInv, MakerAtWork, Swept, Listed
<1>. QED
  BY <1>2, <1>3, <1>4, <1>5, <1>6 DEF IInv

(* A success is about to be undone.                                        *)
LEMMA ReadFailsStep ==
  ASSUME IInv, NEW w \in Workers, ReadFails(w)
  PROVE  IInv'
<1>1. /\ task[w].at = "succeeded"
      /\ task'[w].at = "failing" /\ task'[w].unlink = task[w].unlink
      /\ task'[w].id = task[w].id /\ task'[w].kind = task[w].kind
      /\ \A v \in Workers : v # w => task'[v] = task[v]
      /\ row' = row /\ file' = file /\ section' = section /\ sweep' = sweep /\ past' = past
  BY Names DEF IInv, TypeOK, ReadFails, At, Goto, Mine, Fault
<1>2. TypeOK'
  <2>1. task' \in [Workers -> Tasks]
    BY TaskType
       DEF ReadFails, At, Goto, Mine, Fault, Tasks, States, Making, Undoing,
           Removing, Restoring
  <2>. QED
    BY <2>1, Names, StoreAssumption
       DEF IInv, TypeOK, WorkInv, Made, Exists, At, Mine, ReadFails, Goto, Fault
<1>3. WorkInv'
  BY <1>1, Names, Types
     DEF IInv, WorkInv, Made, At, Mine, Exists, Making, Undoing
<1>4. BundleInv'
  BY <1>1, Names, Types
     DEF IInv, WorkInv, Made, At, Mine, Exists, Making, Undoing, BundleInv
<1>5. SuccessHasBundle'
  BY <1>1, Names, Types
     DEF IInv, WorkInv, Made, At, Mine, Exists, Making, Undoing, BundleInv,
         Successes, SuccessHasBundle
<1>6. LitterInv'
  BY <1>1, Names, Types
     DEF IInv, WorkInv, Made, At, Mine, Exists, Making, Undoing, BundleInv,
         LitterInv, MakerAtWork, Swept, Listed
<1>. QED
  BY <1>2, <1>3, <1>4, <1>5, <1>6 DEF IInv

(* The backup is a success; its worker no longer matters to it.            *)
LEMMA LeaveStep ==
  ASSUME IInv, NEW w \in Workers, Leave(w)
  PROVE  IInv'
<1>1. /\ task[w].at = "succeeded"
      /\ section' \in {section, NoOne}
      /\ task'[w].at = "pruning" /\ task'[w].unlink = task[w].unlink
      /\ task'[w].id = task[w].id /\ task'[w].kind = task[w].kind
      /\ \A v \in Workers : v # w => task'[v] = task[v]
      /\ row' = row /\ file' = file /\ sweep' = sweep /\ past' = past
  BY Names DEF IInv, TypeOK, Leave, At, Goto
<1>2. TypeOK'
  <2>1. task' \in [Workers -> Tasks]
    BY TaskType
       DEF Leave, At, Goto, Tasks, States, Making, Undoing, Removing, Restoring
  <2>. QED
    BY <2>1, Names, StoreAssumption
       DEF IInv, TypeOK, WorkInv, Made, Exists, At, Mine, Leave, Goto
<1>3. WorkInv'
  BY <1>1, Names, Types
     DEF IInv, WorkInv, Made, At, Mine, Exists, Making, Undoing
<1>4. BundleInv'
  BY <1>1, Names, Types
     DEF IInv, WorkInv, Made, At, Mine, Exists, Making, Undoing, BundleInv
<1>5. SuccessHasBundle'
  BY <1>1, Names, Types
     DEF IInv, WorkInv, Made, At, Mine, Exists, Making, Undoing, BundleInv,
         Successes, SuccessHasBundle
<1>6. LitterInv'
  BY <1>1, Names, Types
     DEF IInv, WorkInv, Made, At, Mine, Exists, Making, Undoing, BundleInv,
         LitterInv, MakerAtWork, Swept, Listed
<1>. QED
  BY <1>2, <1>3, <1>4, <1>5, <1>6 DEF IInv

(* The bundle of a success may go before its row.                          *)
LEMMA DiscardStep ==
  ASSUME IInv, NEW w \in Workers, Discard(w)
  PROVE  IInv'
<1>1. /\ task[w].at = "failing"
      /\ Mine(w) \in Ids => file'[Mine(w)] = "none"
      /\ \A i \in Ids : i # Mine(w) => file'[i] = file[i]
      /\ task'[w].at = "discarded" /\ task'[w].unlink = task[w].unlink
      /\ task'[w].id = task[w].id /\ task'[w].kind = task[w].kind
      /\ \A v \in Workers : v # w => task'[v] = task[v]
      /\ section' = section \/ section' = IF section = w THEN NoOne ELSE section
      /\ row' = row /\ sweep' = sweep /\ past' = past
  BY Names DEF IInv, TypeOK, Discard, At, Goto, Mine, Put, Released
<1>2. TypeOK'
  <2>1. task' \in [Workers -> Tasks]
    BY TaskType
       DEF Discard, At, Goto, Mine, Put, Released, Tasks, States, Making,
           Undoing, Removing, Restoring
  <2>. QED
    BY <2>1, Names, StoreAssumption
       DEF IInv, TypeOK, WorkInv, Made, Exists, At, Mine, Discard, Goto, Put,
           Released
<1>3. WorkInv'
  BY <1>1, Names, Types
     DEF IInv, WorkInv, Made, At, Mine, Exists, Making, Undoing
<1>4. BundleInv'
  BY <1>1, Names, Types
     DEF IInv, WorkInv, Made, At, Mine, Exists, Making, Undoing, BundleInv
<1>5. SuccessHasBundle'
  BY <1>1, Names, Types
     DEF IInv, WorkInv, Made, At, Mine, Exists, Making, Undoing, BundleInv,
         Successes, SuccessHasBundle
<1>6. LitterInv'
  BY <1>1, Names, Types
     DEF IInv, WorkInv, Made, At, Mine, Exists, Making, Undoing, BundleInv,
         LitterInv, MakerAtWork, Swept, Listed
<1>. QED
  BY <1>2, <1>3, <1>4, <1>5, <1>6 DEF IInv

(* The row of a discarded bundle.                                          *)
LEMMA MarkErrorStep ==
  ASSUME IInv, NEW w \in Workers, MarkError(w)
  PROVE  IInv'
<1>1. /\ task[w].at = "discarded"
      /\ Mine(w) \in Ids => row'[Mine(w)] = IF Exists(Mine(w)) THEN "error" ELSE row[Mine(w)]
      /\ \A i \in Ids : i # Mine(w) => row'[i] = row[i]
      /\ task'[w] = Idle
      /\ task'[w].at = "idle" /\ task'[w].id = 0
      /\ task'[w].kind = "none" /\ task'[w].unlink = {}
      /\ \A v \in Workers : v # w => task'[v] = task[v]
      /\ section' = IF section = w THEN NoOne ELSE section
      /\ file' = file /\ sweep' = sweep /\ past' = past
  BY Names DEF IInv, TypeOK, MarkError, At, Mine, Set, Released, Idle
<1>2. TypeOK'
  <2>1. task' \in [Workers -> Tasks]
    BY TaskType
       DEF MarkError, At, Mine, Set, Released, Idle, Tasks, States, Making,
           Undoing, Removing, Restoring
  <2>. QED
    BY <2>1, Names, StoreAssumption
       DEF IInv, TypeOK, WorkInv, Made, Exists, At, Mine, MarkError, Set,
           Released, Idle
<1>3. WorkInv'
  BY <1>1, Names, Types
     DEF IInv, WorkInv, Made, At, Mine, Exists, Making, Undoing
<1>4. BundleInv'
  BY <1>1, Names, Types
     DEF IInv, WorkInv, Made, At, Mine, Exists, Making, Undoing, BundleInv
<1>5. SuccessHasBundle'
  BY <1>1, Names, Types
     DEF IInv, WorkInv, Made, At, Mine, Exists, Making, Undoing, BundleInv,
         Successes, SuccessHasBundle
<1>6. LitterInv'
  BY <1>1, Names, Types
     DEF IInv, WorkInv, Made, At, Mine, Exists, Making, Undoing, BundleInv,
         LitterInv, MakerAtWork, Swept, Listed
<1>. QED
  BY <1>2, <1>3, <1>4, <1>5, <1>6 DEF IInv

(* A success may be left bare.                                             *)
LEMMA MarkErrorFailsStep ==
  ASSUME IInv, NEW w \in Workers, MarkErrorFails(w)
  PROVE  IInv'
<1>1. /\ task[w].at = "discarded"
      /\ task'[w] = Idle
      /\ task'[w].at = "idle" /\ task'[w].id = 0
      /\ task'[w].kind = "none" /\ task'[w].unlink = {}
      /\ \A v \in Workers : v # w => task'[v] = task[v]
      /\ section' = IF section = w THEN NoOne ELSE section
      /\ past.bare \subseteq past'.bare /\ past.litter \subseteq past'.litter
      /\ Mine(w) \in past'.bare
      /\ row' = row /\ file' = file /\ sweep' = sweep
  BY Names DEF IInv, TypeOK, MarkErrorFails, At, Mine, Fault, Released, Idle
<1>2. TypeOK'
  <2>1. task' \in [Workers -> Tasks]
    BY TaskType
       DEF MarkErrorFails, At, Mine, Fault, Released, Idle, Tasks, States,
           Making, Undoing, Removing, Restoring
  <2>2. past' \in [bare : SUBSET Ids, litter : SUBSET Ids]
    BY DEF IInv, TypeOK, WorkInv, Undoing, Made, At, Mine, MarkErrorFails
  <2>. QED
    BY <2>1, <2>2, Names, StoreAssumption
       DEF IInv, TypeOK, WorkInv, Made, Exists, At, Mine, MarkErrorFails, Fault,
           Released, Idle
<1>3. WorkInv'
  BY <1>1, Names, Types
     DEF IInv, WorkInv, Made, At, Mine, Exists, Making, Undoing
<1>4. BundleInv'
  BY <1>1, Names, Types
     DEF IInv, WorkInv, Made, At, Mine, Exists, Making, Undoing, BundleInv
<1>5. SuccessHasBundle'
  BY <1>1, Names, Types
     DEF IInv, WorkInv, Made, At, Mine, Exists, Making, Undoing, BundleInv,
         Successes, SuccessHasBundle
<1>6. LitterInv'
  BY <1>1, Names, Types
     DEF IInv, WorkInv, Made, At, Mine, Exists, Making, Undoing, BundleInv,
         LitterInv, MakerAtWork, Swept, Listed
<1>. QED
  BY <1>2, <1>3, <1>4, <1>5, <1>6 DEF IInv

(* Successes are listed, which may fail or go before they are deleted.     *)
LEMMA PruneReadStep ==
  ASSUME IInv, NEW w \in Workers, PruneRead(w)
  PROVE  IInv'
<1>1. /\ task[w].at = "pruning"
      /\ task'[w].at = "expired" /\ task'[w].id = task[w].id
      /\ task'[w].kind = task[w].kind
      /\ \A i \in task'[w].unlink : i \in Ids /\ row[i] = "success"
      /\ \A v \in Workers : v # w => task'[v] = task[v]
      /\ row' = row /\ file' = file /\ section' = section /\ sweep' = sweep /\ past' = past
  BY Names DEF IInv, TypeOK, PruneRead, At, Expired, Successes
<1>2. TypeOK'
  <2>1. task' \in [Workers -> Tasks]
    <3>1. Expired \subseteq Ids
      BY DEF Expired, Successes
    <3>2. [task[w] EXCEPT !.at = "expired", !.unlink = Expired] \in Tasks
      BY <3>1, TaskType DEF Tasks, States, Removing
    <3>3. task' = [task EXCEPT ![w] = [task[w] EXCEPT !.at = "expired", !.unlink = Expired]]
      BY TaskType DEF PruneRead
    <3>. QED
      BY <3>2, <3>3, TaskType
  <2>. QED
    BY <2>1, Names, StoreAssumption
       DEF IInv, TypeOK, WorkInv, Made, Exists, At, Mine, PruneRead, Expired,
           Successes
<1>3. WorkInv'
  BY <1>1, Names, Types
     DEF IInv, WorkInv, Made, At, Mine, Exists, Making, Undoing
<1>4. BundleInv'
  BY <1>1, Names, Types
     DEF IInv, WorkInv, Made, At, Mine, Exists, Making, Undoing, BundleInv
<1>5. SuccessHasBundle'
  BY <1>1, Names, Types
     DEF IInv, WorkInv, Made, At, Mine, Exists, Making, Undoing, BundleInv,
         Successes, SuccessHasBundle
<1>6. LitterInv'
  BY <1>1, Names, Types
     DEF IInv, WorkInv, Made, At, Mine, Exists, Making, Undoing, BundleInv,
         LitterInv, MakerAtWork, Swept, Listed
<1>. QED
  BY <1>2, <1>3, <1>4, <1>5, <1>6 DEF IInv

(* What is deleted is listed by the worker that deletes it.                *)
LEMMA PruneRowsStep ==
  ASSUME IInv, NEW w \in Workers, PruneRows(w)
  PROVE  IInv'
<1>1. /\ task[w].at = "expired"
      /\ \A i \in Ids : row'[i] = IF i \in task[w].unlink THEN "deleted" ELSE row[i]
      /\ task'[w].at = "unlinking" /\ task'[w].unlink = task[w].unlink
      /\ task'[w].id = task[w].id /\ task'[w].kind = task[w].kind
      /\ \A v \in Workers : v # w => task'[v] = task[v]
      /\ file' = file /\ section' = section /\ sweep' = sweep /\ past' = past
  BY Names DEF IInv, TypeOK, PruneRows, At, Goto
<1>2. TypeOK'
  <2>1. task' \in [Workers -> Tasks]
    BY TaskType
       DEF PruneRows, At, Goto, Tasks, States, Making, Undoing, Removing,
           Restoring
  <2>. QED
    BY <2>1, Names, StoreAssumption
       DEF IInv, TypeOK, WorkInv, Made, Exists, At, Mine, PruneRows, Goto
<1>3. WorkInv'
  BY <1>1, Names, Types
     DEF IInv, WorkInv, Made, At, Mine, Exists, Making, Undoing
<1>4. BundleInv'
  BY <1>1, Names, Types
     DEF IInv, WorkInv, Made, At, Mine, Exists, Making, Undoing, BundleInv
<1>5. SuccessHasBundle'
  BY <1>1, Names, Types
     DEF IInv, WorkInv, Made, At, Mine, Exists, Making, Undoing, BundleInv,
         Successes, SuccessHasBundle
<1>6. LitterInv'
  BY <1>1, Names, Types
     DEF IInv, WorkInv, Made, At, Mine, Exists, Making, Undoing, BundleInv,
         LitterInv, MakerAtWork, Swept, Listed
<1>. QED
  BY <1>2, <1>3, <1>4, <1>5, <1>6 DEF IInv

(* The whole files on a worker's list go.                                  *)
LEMMA UnlinkStep ==
  ASSUME IInv, NEW w \in Workers, Unlink(w)
  PROVE  IInv'
<1>1. /\ task[w].at = "unlinking"
      /\ task'[w] = Idle
      /\ task'[w].at = "idle" /\ task'[w].id = 0
      /\ task'[w].kind = "none" /\ task'[w].unlink = {}
      /\ \A v \in Workers : v # w => task'[v] = task[v]
      /\ section' = IF section = w THEN NoOne ELSE section
      /\ \A i \in Ids : file'[i] = IF i \in task[w].unlink /\ file[i] = "whole" THEN "none" ELSE file[i]
      /\ row' = row /\ sweep' = sweep /\ past' = past
  BY Names DEF IInv, TypeOK, Unlink, At, Released, Idle
<1>2. TypeOK'
  <2>1. task' \in [Workers -> Tasks]
    BY TaskType
       DEF Unlink, At, Released, Idle, Tasks, States, Making, Undoing, Removing,
           Restoring
  <2>. QED
    BY <2>1, Names, StoreAssumption
       DEF IInv, TypeOK, WorkInv, Made, Exists, At, Mine, Unlink, Released, Idle
<1>3. WorkInv'
  BY <1>1, Names, Types
     DEF IInv, WorkInv, Made, At, Mine, Exists, Making, Undoing
<1>4. BundleInv'
  BY <1>1, Names, Types
     DEF IInv, WorkInv, Made, At, Mine, Exists, Making, Undoing, BundleInv
<1>5. SuccessHasBundle'
  BY <1>1, Names, Types
     DEF IInv, WorkInv, Made, At, Mine, Exists, Making, Undoing, BundleInv,
         Successes, SuccessHasBundle
<1>6. LitterInv'
  BY <1>1, Names, Types
     DEF IInv, WorkInv, Made, At, Mine, Exists, Making, Undoing, BundleInv,
         LitterInv, MakerAtWork, Swept, Listed
<1>. QED
  BY <1>2, <1>3, <1>4, <1>5, <1>6 DEF IInv

(* Any row goes: its file has a maker, is left over, or is listed.         *)
LEMMA DeleteRowStep ==
  ASSUME IInv, NEW w \in Workers, NEW i \in Ids, DeleteRow(w, i)
  PROVE  IInv'
<1>1. /\ task[w].at = "idle"
      /\ Exists(i) /\ row'[i] = "deleted"
      /\ \A j \in Ids : j # i => row'[j] = row[j]
      /\ task'[w].at = "unlinking" /\ task'[w].id = 0
      /\ task'[w].kind = "delete" /\ task'[w].unlink = {i}
      /\ \A v \in Workers : v # w => task'[v] = task[v]
      /\ past.bare \subseteq past'.bare /\ past.litter \subseteq past'.litter
      /\ (file[i] = "temp" /\ \A v \in Workers : Mine(v) # i) => i \in past'.litter
      /\ file' = file /\ section' = section /\ sweep' = sweep
  BY Names DEF IInv, TypeOK, DeleteRow, At, Mine, Idle
<1>2. TypeOK'
  <2>1. task' \in [Workers -> Tasks]
    BY TaskType
       DEF DeleteRow, At, Mine, Idle, Tasks, States, Making, Undoing, Removing,
           Restoring
  <2>. QED
    BY <2>1, Names, StoreAssumption
       DEF IInv, TypeOK, WorkInv, Made, Exists, At, Mine, DeleteRow, Idle
<1>3. WorkInv'
  BY <1>1, Names, Types
     DEF IInv, WorkInv, Made, At, Mine, Exists, Making, Undoing
<1>4. BundleInv'
  BY <1>1, Names, Types
     DEF IInv, WorkInv, Made, At, Mine, Exists, Making, Undoing, BundleInv
<1>5. SuccessHasBundle'
  BY <1>1, Names, Types
     DEF IInv, WorkInv, Made, At, Mine, Exists, Making, Undoing, BundleInv,
         Successes, SuccessHasBundle
<1>6. LitterInv'
  BY <1>1, Names, Types
     DEF IInv, WorkInv, Made, At, Mine, Exists, Making, Undoing, BundleInv,
         LitterInv, MakerAtWork, Swept, Listed
<1>. QED
  BY <1>2, <1>3, <1>4, <1>5, <1>6 DEF IInv

(* A worker restores a success, which has no maker at work.                *)
LEMMA VerifyStep ==
  ASSUME IInv, NEW w \in Workers, NEW i \in Ids, Verify(w, i)
  PROVE  IInv'
<1>1. /\ task[w].at = "idle"
      /\ row[i] = "success" /\ file[i] = "whole"
      /\ task'[w].at = "checked" /\ task'[w].id = i
      /\ task'[w].kind = "restore" /\ task'[w].unlink = {}
      /\ \A v \in Workers : v # w => task'[v] = task[v]
      /\ row' = row /\ file' = file /\ section' = section /\ sweep' = sweep /\ past' = past
  BY Names DEF IInv, TypeOK, Verify, At, Idle
<1>2. TypeOK'
  <2>1. task' \in [Workers -> Tasks]
    BY TaskType
       DEF Verify, At, Idle, Tasks, States, Making, Undoing, Removing, Restoring
  <2>. QED
    BY <2>1, Names, StoreAssumption
       DEF IInv, TypeOK, WorkInv, Made, Exists, At, Mine, Verify, Idle
<1>3. WorkInv'
  BY <1>1, Names, Types
     DEF IInv, WorkInv, Made, At, Mine, Exists, Making, Undoing, BundleInv
<1>4. BundleInv'
  BY <1>1, Names, Types
     DEF IInv, WorkInv, Made, At, Mine, Exists, Making, Undoing, BundleInv
<1>5. SuccessHasBundle'
  BY <1>1, Names, Types
     DEF IInv, WorkInv, Made, At, Mine, Exists, Making, Undoing, BundleInv,
         Successes, SuccessHasBundle
<1>6. LitterInv'
  BY <1>1, Names, Types
     DEF IInv, WorkInv, Made, At, Mine, Exists, Making, Undoing, BundleInv,
         LitterInv, MakerAtWork, Swept, Listed
<1>. QED
  BY <1>2, <1>3, <1>4, <1>5, <1>6 DEF IInv

(* A restore enters the section, or gives up.                              *)
LEMMA EnterRestoreStep ==
  ASSUME IInv, NEW w \in Workers, EnterRestore(w)
  PROVE  IInv'
<1>1. /\ task[w].at = "checked"
      /\ \/ section = NoOne /\ section' = w /\ task'[w].at = "restoring" /\ task'[w].id = task[w].id
            /\ task'[w].kind = task[w].kind /\ task'[w].unlink = task[w].unlink
         \/ section' = section /\ task'[w] = Idle /\ task'[w].at = "idle" /\ task'[w].id = 0
            /\ task'[w].kind = "none" /\ task'[w].unlink = {}
      /\ \A v \in Workers : v # w => task'[v] = task[v]
      /\ row' = row /\ file' = file /\ sweep' = sweep /\ past' = past
  <2>1. CASE section = NoOne /\ section' = w /\ Goto(w, "restoring")
    BY <2>1, Names DEF IInv, TypeOK, EnterRestore, At, Goto, Idle
  <2>2. CASE section # NoOne /\ section' = section /\ task' = [task EXCEPT ![w] = Idle]
    BY <2>2, Names DEF IInv, TypeOK, EnterRestore, At, Goto, Idle
  <2>. QED
    BY <2>1, <2>2 DEF EnterRestore
<1>2. TypeOK'
  <2>1. task' \in [Workers -> Tasks]
    BY TaskType
       DEF EnterRestore, At, Goto, Idle, Tasks, States, Making, Undoing,
           Removing, Restoring
  <2>. QED
    BY <2>1, Names, StoreAssumption
       DEF IInv, TypeOK, WorkInv, Made, Exists, At, Mine, EnterRestore, Goto,
           Idle
<1>3. WorkInv'
  BY <1>1, Names, Types
     DEF IInv, WorkInv, Made, At, Mine, Exists, Making, Undoing
<1>4. BundleInv'
  BY <1>1, Names, Types
     DEF IInv, WorkInv, Made, At, Mine, Exists, Making, Undoing, BundleInv
<1>5. SuccessHasBundle'
  BY <1>1, Names, Types
     DEF IInv, WorkInv, Made, At, Mine, Exists, Making, Undoing, BundleInv,
         Successes, SuccessHasBundle
<1>6. LitterInv'
  BY <1>1, Names, Types
     DEF IInv, WorkInv, Made, At, Mine, Exists, Making, Undoing, BundleInv,
         LitterInv, MakerAtWork, Swept, Listed
<1>. QED
  BY <1>2, <1>3, <1>4, <1>5, <1>6 DEF IInv

(* A restore changes no row and no file.                                   *)
LEMMA RestoreStep ==
  ASSUME IInv, NEW w \in Workers, Restore(w)
  PROVE  IInv'
<1>1. /\ task[w].at = "restoring"
      /\ task'[w].at \in {"filled", "empty"}
      /\ task'[w].id = task[w].id /\ task'[w].kind = task[w].kind
      /\ \A v \in Workers : v # w => task'[v] = task[v]
      /\ task'[w].unlink = task[w].unlink
      /\ row' = row /\ file' = file /\ section' = section /\ sweep' = sweep /\ past' = past
  BY Names DEF IInv, TypeOK, Restore, At, Goto, Mine
<1>2. TypeOK'
  <2>1. task' \in [Workers -> Tasks]
    BY TaskType
       DEF Restore, At, Goto, Mine, Tasks, States, Making, Undoing, Removing,
           Restoring
  <2>. QED
    BY <2>1, Names, StoreAssumption
       DEF IInv, TypeOK, WorkInv, Made, Exists, At, Mine, Restore, Goto
<1>3. WorkInv'
  BY <1>1, Names, Types
     DEF IInv, WorkInv, Made, At, Mine, Exists, Making, Undoing
<1>4. BundleInv'
  BY <1>1, Names, Types
     DEF IInv, WorkInv, Made, At, Mine, Exists, Making, Undoing, BundleInv
<1>5. SuccessHasBundle'
  BY <1>1, Names, Types
     DEF IInv, WorkInv, Made, At, Mine, Exists, Making, Undoing, BundleInv,
         Successes, SuccessHasBundle
<1>6. LitterInv'
  BY <1>1, Names, Types
     DEF IInv, WorkInv, Made, At, Mine, Exists, Making, Undoing, BundleInv,
         LitterInv, MakerAtWork, Swept, Listed
<1>. QED
  BY <1>2, <1>3, <1>4, <1>5, <1>6 DEF IInv

(* A restore leaves the section.                                           *)
LEMMA FinishStep ==
  ASSUME IInv, NEW w \in Workers, Finish(w)
  PROVE  IInv'
<1>1. /\ task[w].at \in {"filled", "empty"}
      /\ task'[w].at \in {"restored", "unfilled"}
      /\ task'[w].id = task[w].id /\ task'[w].kind = task[w].kind
      /\ \A v \in Workers : v # w => task'[v] = task[v]
      /\ task'[w].unlink = task[w].unlink
      /\ section' = IF section = w THEN NoOne ELSE section
      /\ row' = row /\ file' = file /\ sweep' = sweep /\ past' = past
  <2>1. CASE At(w, "filled") /\ Goto(w, "restored")
    BY <2>1, Names DEF IInv, TypeOK, Finish, At, Goto, Released
  <2>2. CASE At(w, "empty") /\ Goto(w, "unfilled")
    BY <2>2, Names DEF IInv, TypeOK, Finish, At, Goto, Released
  <2>. QED
    BY <2>1, <2>2 DEF Finish
<1>2. TypeOK'
  <2>1. task' \in [Workers -> Tasks]
    BY TaskType
       DEF Finish, At, Goto, Released, Tasks, States, Making, Undoing, Removing,
           Restoring
  <2>. QED
    BY <2>1, Names, StoreAssumption
       DEF IInv, TypeOK, WorkInv, Made, Exists, At, Mine, Finish, Goto, Released
<1>3. WorkInv'
  BY <1>1, Names, Types
     DEF IInv, WorkInv, Made, At, Mine, Exists, Making, Undoing
<1>4. BundleInv'
  BY <1>1, Names, Types
     DEF IInv, WorkInv, Made, At, Mine, Exists, Making, Undoing, BundleInv
<1>5. SuccessHasBundle'
  BY <1>1, Names, Types
     DEF IInv, WorkInv, Made, At, Mine, Exists, Making, Undoing, BundleInv,
         Successes, SuccessHasBundle
<1>6. LitterInv'
  BY <1>1, Names, Types
     DEF IInv, WorkInv, Made, At, Mine, Exists, Making, Undoing, BundleInv,
         LitterInv, MakerAtWork, Swept, Listed
<1>. QED
  BY <1>2, <1>3, <1>4, <1>5, <1>6 DEF IInv

(* A restore fails.                                                        *)
LEMMA RestoreFailsStep ==
  ASSUME IInv, NEW w \in Workers, RestoreFails(w)
  PROVE  IInv'
<1>1. /\ task[w].at \in {"restoring", "filled", "empty"}
      /\ task'[w] = Idle
      /\ task'[w].at = "idle" /\ task'[w].id = 0
      /\ task'[w].kind = "none" /\ task'[w].unlink = {}
      /\ \A v \in Workers : v # w => task'[v] = task[v]
      /\ section' = IF section = w THEN NoOne ELSE section
      /\ row' = row /\ file' = file /\ sweep' = sweep /\ past' = past
  BY Names DEF IInv, TypeOK, RestoreFails, At, Fault, Released, Idle
<1>2. TypeOK'
  <2>1. task' \in [Workers -> Tasks]
    BY TaskType
       DEF RestoreFails, At, Fault, Released, Idle, Tasks, States, Making,
           Undoing, Removing, Restoring
  <2>. QED
    BY <2>1, Names, StoreAssumption
       DEF IInv, TypeOK, WorkInv, Made, Exists, At, Mine, RestoreFails, Fault,
           Released, Idle
<1>3. WorkInv'
  BY <1>1, Names, Types
     DEF IInv, WorkInv, Made, At, Mine, Exists, Making, Undoing
<1>4. BundleInv'
  BY <1>1, Names, Types
     DEF IInv, WorkInv, Made, At, Mine, Exists, Making, Undoing, BundleInv
<1>5. SuccessHasBundle'
  BY <1>1, Names, Types
     DEF IInv, WorkInv, Made, At, Mine, Exists, Making, Undoing, BundleInv,
         Successes, SuccessHasBundle
<1>6. LitterInv'
  BY <1>1, Names, Types
     DEF IInv, WorkInv, Made, At, Mine, Exists, Making, Undoing, BundleInv,
         LitterInv, MakerAtWork, Swept, Listed
<1>. QED
  BY <1>2, <1>3, <1>4, <1>5, <1>6 DEF IInv

(* A worker that has nothing to remove rests.                              *)
LEMMA ReportedStep ==
  ASSUME IInv, NEW w \in Workers, Reported(w)
  PROVE  IInv'
<1>1. /\ task[w].at \in {"restored", "unfilled"}
      /\ task'[w] = Idle
      /\ task'[w].at = "idle" /\ task'[w].id = 0
      /\ task'[w].kind = "none" /\ task'[w].unlink = {}
      /\ \A v \in Workers : v # w => task'[v] = task[v]
      /\ row' = row /\ file' = file /\ section' = section /\ sweep' = sweep /\ past' = past
  BY Names DEF IInv, TypeOK, Reported, Idle
<1>2. TypeOK'
  <2>1. task' \in [Workers -> Tasks]
    BY TaskType
       DEF Reported, Idle, Tasks, States, Making, Undoing, Removing, Restoring
  <2>. QED
    BY <2>1, Names, StoreAssumption
       DEF IInv, TypeOK, WorkInv, Made, Exists, At, Mine, Reported, Idle
<1>3. WorkInv'
  BY <1>1, Names, Types
     DEF IInv, WorkInv, Made, At, Mine, Exists, Making, Undoing
<1>4. BundleInv'
  BY <1>1, Names, Types
     DEF IInv, WorkInv, Made, At, Mine, Exists, Making, Undoing, BundleInv
<1>5. SuccessHasBundle'
  BY <1>1, Names, Types
     DEF IInv, WorkInv, Made, At, Mine, Exists, Making, Undoing, BundleInv,
         Successes, SuccessHasBundle
<1>6. LitterInv'
  BY <1>1, Names, Types
     DEF IInv, WorkInv, Made, At, Mine, Exists, Making, Undoing, BundleInv,
         LitterInv, MakerAtWork, Swept, Listed
<1>. QED
  BY <1>2, <1>3, <1>4, <1>5, <1>6 DEF IInv

(* A command line dies: what it was about to remove is left over.          *)
LEMMA WorkerDiesStep ==
  ASSUME IInv, NEW w \in Workers, WorkerDies(w)
  PROVE  IInv'
<1>1. /\ task'[w] = Idle
      /\ task'[w].at = "idle" /\ task'[w].id = 0
      /\ task'[w].kind = "none" /\ task'[w].unlink = {}
      /\ \A v \in Workers : v # w => task'[v] = task[v]
      /\ section' = IF section = w THEN NoOne ELSE section
      /\ past.bare \subseteq past'.bare /\ past.litter \subseteq past'.litter
      /\ At(w, "discarded") => Mine(w) \in past'.bare
      /\ At(w, "failing") => Mine(w) \in past'.litter
      /\ Mine(w) \in Ids /\ row[Mine(w)] \in {"error", "deleted"}
              => Mine(w) \in past'.litter
      /\ task[w].unlink \subseteq past'.litter
      /\ row' = row /\ file' = file /\ sweep' = sweep
  BY Names DEF IInv, TypeOK, WorkerDies, At, Fault, Released, Idle, Cut
<1>2. TypeOK'
  <2>1. task' \in [Workers -> Tasks]
    BY TaskType
       DEF WorkerDies, At, Fault, Released, Idle, Cut, Tasks, States, Making,
           Undoing, Removing, Restoring
  <2>2. past' \in [bare : SUBSET Ids, litter : SUBSET Ids]
    <3>1. {w} \in SUBSET Workers /\ {} \in SUBSET Ids /\ Cut({w}, {})
      BY Names, Types DEF WorkerDies
    <3>. QED
      BY <3>1, CutTypes
  <2>. QED
    BY <2>1, <2>2, Names, StoreAssumption
       DEF IInv, TypeOK, WorkInv, Made, Exists, At, Mine, WorkerDies, Fault,
           Released, Idle
<1>3. WorkInv'
  BY <1>1, Names, Types
     DEF IInv, WorkInv, Made, At, Mine, Exists, Making, Undoing
<1>4. BundleInv'
  BY <1>1, Names, Types
     DEF IInv, WorkInv, Made, At, Mine, Exists, Making, Undoing, BundleInv
<1>5. SuccessHasBundle'
  BY <1>1, Names, Types
     DEF IInv, WorkInv, Made, At, Mine, Exists, Making, Undoing, BundleInv,
         Successes, SuccessHasBundle
<1>6. LitterInv'
  BY <1>1, Names, Types
     DEF IInv, WorkInv, Made, At, Mine, Exists, Making, Undoing, BundleInv,
         LitterInv, MakerAtWork, Swept, Listed
<1>. QED
  BY <1>2, <1>3, <1>4, <1>5, <1>6 DEF IInv

(* The server dies with all its workers.                                   *)
LEMMA ServerDiesStep ==
  ASSUME IInv, ServerDies
  PROVE  IInv'
<1>1. /\ \A v \in Workers : v \in Server => task'[v] = Idle /\ task'[v].at = "idle" /\ task'[v].id = 0
              /\ task'[v].kind = "none" /\ task'[v].unlink = {}
      /\ \A v \in Workers : v \notin Server => task'[v] = task[v]
      /\ section' = IF section \in Server \cup {Sweeper} THEN NoOne ELSE section
      /\ sweep'.at = "due"
      /\ past.bare \subseteq past'.bare /\ past.litter \subseteq past'.litter
      /\ \A v \in Server : At(v, "discarded") => Mine(v) \in past'.bare
      /\ \A v \in Server : At(v, "failing") => Mine(v) \in past'.litter
      /\ \A v \in Server : Mine(v) \in Ids /\ row[Mine(v)] \in {"error", "deleted"}
              => Mine(v) \in past'.litter
      /\ \A v \in Server : task[v].unlink \subseteq past'.litter
      /\ sweep.at = "unlinking" => sweep.rows \subseteq past'.litter
      /\ row' = row /\ file' = file
  BY Names DEF IInv, TypeOK, ServerDies, Fault, Idle, Rest, Cut
<1>2. TypeOK'
  <2>1. task' \in [Workers -> Tasks]
    BY TaskType
       DEF ServerDies, Fault, Idle, Rest, Cut, Tasks, States, Making, Undoing,
           Removing, Restoring
  <2>2. past' \in [bare : SUBSET Ids, litter : SUBSET Ids]
    <3>. DEFINE files == IF sweep.at = "unlinking" THEN sweep.rows ELSE {}
    <3>1. Server \in SUBSET Workers /\ files \in SUBSET Ids /\ Cut(Server, files)
      BY Names, Types DEF ServerDies
    <3>. QED
      BY <3>1, CutTypes
  <2>. QED
    BY <2>1, <2>2, Names, StoreAssumption
       DEF IInv, TypeOK, WorkInv, Made, Exists, At, Mine, ServerDies, Fault,
           Idle, Rest
<1>3. WorkInv'
  BY <1>1, Names, Types
     DEF IInv, WorkInv, Made, At, Mine, Exists, Making, Undoing
<1>4. BundleInv'
  BY <1>1, Names, Types
     DEF IInv, WorkInv, Made, At, Mine, Exists, Making, Undoing, BundleInv
<1>5. SuccessHasBundle'
  BY <1>1, Names, Types
     DEF IInv, WorkInv, Made, At, Mine, Exists, Making, Undoing, BundleInv,
         Successes, SuccessHasBundle
<1>6. LitterInv'
  BY <1>1, Names, Types
     DEF IInv, WorkInv, Made, At, Mine, Exists, Making, Undoing, BundleInv,
         LitterInv, MakerAtWork, Swept, Listed
<1>. QED
  BY <1>2, <1>3, <1>4, <1>5, <1>6 DEF IInv

(* The cleanup has the section when it reads the running rows.             *)
LEMMA SweepReadsStep ==
  ASSUME IInv, SweepReads
  PROVE  IInv'
<1>1. /\ sweep.at = "due"
      /\ section = NoOne /\ section' = Sweeper
      /\ sweep'.at = "read"
      /\ \A i \in sweep'.rows : i \in Ids /\ row[i] = "running"
      /\ row' = row /\ file' = file /\ task' = task /\ past' = past
  BY Names DEF IInv, TypeOK, SweepReads
<1>2. TypeOK'
  <2>1. task' \in [Workers -> Tasks]
    BY TaskType
       DEF SweepReads, Tasks, States, Making, Undoing, Removing, Restoring
  <2>. QED
    BY <2>1, Names, StoreAssumption
       DEF IInv, TypeOK, WorkInv, Made, Exists, At, Mine, SweepReads
<1>3. WorkInv'
  BY <1>1, Names, Types
     DEF IInv, WorkInv, Made, At, Mine, Exists, Making, Undoing
<1>4. BundleInv'
  BY <1>1, Names, Types
     DEF IInv, WorkInv, Made, At, Mine, Exists, Making, Undoing, BundleInv
<1>5. SuccessHasBundle'
  BY <1>1, Names, Types
     DEF IInv, WorkInv, Made, At, Mine, Exists, Making, Undoing, BundleInv,
         Successes, SuccessHasBundle
<1>6. LitterInv'
  BY <1>1, Names, Types
     DEF IInv, WorkInv, Made, At, Mine, Exists, Making, Undoing, BundleInv,
         LitterInv, MakerAtWork, Swept, Listed
<1>. QED
  BY <1>2, <1>3, <1>4, <1>5, <1>6 DEF IInv

(* Rows that were read as running are no successes: their makers need the section. *)
LEMMA SweepRowsStep ==
  ASSUME IInv, SweepRows
  PROVE  IInv'
<1>1. /\ sweep.at = "read"
      /\ \/ /\ \A i \in Ids : row'[i] = IF i \in sweep.rows THEN "error" ELSE row[i]
            /\ \A i \in sweep.rows : Exists(i)
            /\ sweep'.at = "unlinking" /\ sweep'.rows = sweep.rows /\ section' = section
         \/ row' = row /\ sweep'.at = "idle" /\ section' = IF section = Sweeper THEN NoOne ELSE section
      /\ file' = file /\ task' = task /\ past' = past
  BY Names DEF IInv, TypeOK, SweepRows, Released, Rest
<1>2. TypeOK'
  <2>1. task' \in [Workers -> Tasks]
    BY TaskType
       DEF SweepRows, Released, Rest, Tasks, States, Making, Undoing, Removing,
           Restoring
  <2>. QED
    BY <2>1, Names, StoreAssumption
       DEF IInv, TypeOK, WorkInv, Made, Exists, At, Mine, SweepRows, Released,
           Rest
<1>3. WorkInv'
  BY <1>1, Names, Types
     DEF IInv, WorkInv, Made, At, Mine, Exists, Making, Undoing
<1>4. BundleInv'
  BY <1>1, Names, Types
     DEF IInv, WorkInv, Made, At, Mine, Exists, Making, Undoing, BundleInv
<1>5. SuccessHasBundle'
  BY <1>1, Names, Types
     DEF IInv, WorkInv, Made, At, Mine, Exists, Making, Undoing, BundleInv,
         Successes, SuccessHasBundle
<1>6. LitterInv'
  BY <1>1, Names, Types
     DEF IInv, WorkInv, Made, At, Mine, Exists, Making, Undoing, BundleInv,
         LitterInv, MakerAtWork, Swept, Listed
<1>. QED
  BY <1>2, <1>3, <1>4, <1>5, <1>6 DEF IInv

(* Their files go.                                                         *)
LEMMA SweepFilesStep ==
  ASSUME IInv, SweepFiles
  PROVE  IInv'
<1>1. /\ sweep.at = "unlinking"
      /\ sweep'.at = "idle"
      /\ section' = IF section = Sweeper THEN NoOne ELSE section
      /\ \A i \in Ids : file'[i] = IF i \in sweep.rows THEN "none" ELSE file[i]
      /\ row' = row /\ task' = task /\ past' = past
  BY Names DEF IInv, TypeOK, SweepFiles, Released, Rest
<1>2. TypeOK'
  <2>1. task' \in [Workers -> Tasks]
    BY TaskType
       DEF SweepFiles, Released, Rest, Tasks, States, Making, Undoing, Removing,
           Restoring
  <2>. QED
    BY <2>1, Names, StoreAssumption
       DEF IInv, TypeOK, WorkInv, Made, Exists, At, Mine, SweepFiles, Released,
           Rest
<1>3. WorkInv'
  BY <1>1, Names, Types
     DEF IInv, WorkInv, Made, At, Mine, Exists, Making, Undoing
<1>4. BundleInv'
  BY <1>1, Names, Types
     DEF IInv, WorkInv, Made, At, Mine, Exists, Making, Undoing, BundleInv
<1>5. SuccessHasBundle'
  BY <1>1, Names, Types
     DEF IInv, WorkInv, Made, At, Mine, Exists, Making, Undoing, BundleInv,
         Successes, SuccessHasBundle
<1>6. LitterInv'
  BY <1>1, Names, Types
     DEF IInv, WorkInv, Made, At, Mine, Exists, Making, Undoing, BundleInv,
         LitterInv, MakerAtWork, Swept, Listed
<1>. QED
  BY <1>2, <1>3, <1>4, <1>5, <1>6 DEF IInv

(* No row, no file, nobody at work.                                        *)
LEMMA InitStep == Init => IInv
<1>. SUFFICES ASSUME Init PROVE IInv
  OBVIOUS
<1>. USE DEF Init, Idle, Rest
<1>1. TypeOK
  BY Names, StoreAssumption DEF TypeOK, Tasks, States
<1>2. WorkInv /\ BundleInv /\ SuccessHasBundle /\ LitterInv
  BY Names
     DEF WorkInv, BundleInv, SuccessHasBundle, LitterInv, Made, At, Mine,
         Making,
     Undoing, Successes
<1>. QED
  BY <1>1, <1>2 DEF IInv

(* Every step keeps the inductive invariant.                               *)
LEMMA NextStep == IInv /\ [Next]_vars => IInv'
<1>. SUFFICES ASSUME IInv, [Next]_vars PROVE IInv'
  OBVIOUS
<1>1. ASSUME NEW w \in Workers, Step(w) PROVE IInv'
  BY <1>1, BeginStep, EnterStep, RefusedStep, WriteTempStep, RenameStep,
     WriteFailsStep, SucceedStep, ImportCommitFailsStep, ReadFailsStep,
     LeaveStep, DiscardStep, MarkErrorStep, MarkErrorFailsStep,
     PruneReadStep, PruneRowsStep, UnlinkStep, DeleteRowStep, VerifyStep,
     EnterRestoreStep, RestoreStep, FinishStep, RestoreFailsStep,
     ReportedStep
     DEF Step
<1>2. ASSUME NEW w \in Workers, WorkerDies(w) PROVE IInv'
  BY <1>2, WorkerDiesStep
<1>3. CASE SweepReads \/ SweepRows \/ SweepFiles \/ ServerDies
  BY <1>3, SweepReadsStep, SweepRowsStep, SweepFilesStep, ServerDiesStep
<1>4. CASE UNCHANGED vars
  BY <1>4
     DEF vars, IInv, TypeOK, WorkInv, BundleInv, SuccessHasBundle, LitterInv,
         Made, At,
     Mine, Successes, MakerAtWork, Swept, Listed
<1>. QED
  BY <1>1, <1>2, <1>3, <1>4 DEF Next

(* The inductive invariant holds in every reachable state.                 *)
THEOREM Invariance == Spec => []IInv
<1>. QED
  BY InitStep, NextStep, PTL DEF Spec

(* The bundle of every backup listed as a success is there to be restored, *)
(* but for those whose maker died or failed between discard and row.       *)
THEOREM Restorable == Spec => []SuccessHasBundle
<1>1. IInv => SuccessHasBundle
  BY DEF IInv
<1>. QED
  BY <1>1, Invariance, PTL

(* However deletes, prunes, sweeps and failures meet, a bundle without a   *)
(* row has somebody who removes it, or is a known leftover.                *)
THEOREM Tidy == Spec => []NoLitter
<1>1. ASSUME IInv PROVE NoLitter
  <2>. SUFFICES ASSUME NEW i \in Ids, row[i] \in {"error", "deleted"}, file[i] # "none",
                       i \notin past.litter, ~(sweep.at = "unlinking" /\ i \in sweep.rows)
                PROVE  \E w \in Workers : ~At(w, "idle")
                                          /\ (Mine(w) = i \/ i \in task[w].unlink)
    BY DEF NoLitter
  <2>1. MakerAtWork(i) \/ Listed(i)
    BY <1>1, Types DEF IInv, LitterInv, Swept
  <2>. QED
    BY <2>1 DEF MakerAtWork, Listed, Making, At
<1>. QED
  BY <1>1, Invariance, PTL

-----------------------------------------------------------------------------
(* The files and the configuration of an output in a restore or clone.     *)
(* Paths that are no version; the mounts are numbers.                      *)
LEMMA RestoreNames ==
  ASSUME R!RestoreAssumption
  PROVE  /\ MaxMounts \in Nat /\ MaxJobs \in Nat /\ MaxRestoreFaults \in Nat
         /\ R!Nothing \in Nat /\ R!Nothing \notin R!Versions /\ R!Torn \in Nat
         /\ R!Torn \notin R!Versions
         /\ R!Nothing # R!Torn /\ R!Nothing \in R!Contents /\ R!Torn \in R!Contents
         /\ R!Versions \subseteq R!Contents /\ R!Versions \subseteq Nat
         /\ R!Mounts \subseteq Nat
         /\ 0 \in R!Versions
  BY DEF R!RestoreAssumption, R!Nothing, R!Torn, R!Contents, R!Versions, R!Mounts

(* What the invariant says of types.                                       *)
LEMMA RestoreTyped ==
  ASSUME R!RestoreAssumption, R!IInv
  PROVE  /\ job \in R!Jobs /\ restorePast \in R!Pasts /\ jobs \in 0..MaxJobs /\ jobs \in R!Versions /\ jobs \in Nat
         /\ target \in [R!Mounts -> R!Contents] /\ stage \in [R!Mounts -> R!Contents]
         /\ kept \in [R!Mounts -> R!Contents] /\ up \in BOOLEAN /\ clone \in BOOLEAN
         /\ db \in R!Versions /\ host \in R!Versions \cup {R!Torn} /\ assets \in R!Versions
  BY RestoreNames, SMTT(10) DEF R!IInv, R!TypeOK, R!Records, R!Versions

LEMMA Restore_Begin ==
  ASSUME R!RestoreAssumption, R!IInv, R!Begin PROVE R!IInv'
<1>1. CASE up
  <2>1. job' = [at |-> "stopping", next |-> 1, staged |-> {}, swapped |-> {},
                left |-> {}, held |-> {}, had |-> {}, wasUp |-> TRUE, started |-> FALSE,
                undoing |-> FALSE]
    BY <1>1, RestoreTyped DEF R!Begin, R!Goto, R!NoJob, R!Jobs
  <2>2. restorePast' = [live |-> [m \in R!Mounts |-> IF target[m] \in R!Versions THEN target[m] ELSE restorePast.live[m]],
                        absent |-> restorePast.absent, up |-> restorePast.up,
                        disturbed |-> restorePast.disturbed,
                        discarded |-> restorePast.discarded, undone |-> restorePast'.undone,
                        hostAhead |-> restorePast.hostAhead]
    BY <1>1, RestoreTyped DEF R!Begin, R!Pasts, R!At
  <2>0. /\ restorePast'.undone \subseteq restorePast.undone
        /\ \A m \in restorePast.undone \ restorePast'.undone : target[m] \in R!Versions
    BY RestoreTyped DEF R!Begin, R!Pasts
  <2>3. R!TypeOK'
    BY <1>1, <2>1, <2>2, RestoreTyped, RestoreNames, SMTT(10)
    DEF R!IInv, R!TypeOK, R!Begin, R!At, R!NoJob, R!files, R!Jobs, R!Pasts
  <2>4. R!Records'
    <3>1. job' \in R!Jobs
      BY <1>1, <2>1, <2>2, RestoreTyped, RestoreNames
      DEF R!Jobs, R!Steps, R!Replacing, R!Replaced, R!Undoing
    <3>2. restorePast' \in R!Pasts
      BY <1>1, <2>0, <2>1, <2>2, RestoreTyped, RestoreNames DEF R!Pasts
    <3>. QED BY <3>1, <3>2 DEF R!Records
  <2>5. R!JobInv'
    BY <1>1, <2>1, <2>2, RestoreTyped, RestoreNames, SMTT(10)
    DEF R!IInv, R!JobInv, R!Begin, R!At, R!NoJob, R!files, R!Replacing, R!Replaced,
        R!Mounts, R!Versions, R!Jobs, R!Pasts
  <2>6. R!StageInv'
    BY <1>1, <2>1, <2>2, SMTT(10)
    DEF R!IInv, R!StageInv, R!Begin, R!At, R!NoJob, R!files, R!Replacing
  <2>7. R!PlaceInv'
    BY <1>1, <2>1, <2>2, SMTT(10)
    DEF R!IInv, R!PlaceInv, R!Begin, R!At, R!NoJob, R!files, R!Moving, R!Waiting, R!Replaced,
        R!JobInv, R!Replacing
  <2>8. R!KeptInv'
    BY <1>1, <2>1, <2>2, SMTT(10)
    DEF R!IInv, R!KeptInv, R!Begin, R!At, R!NoJob, R!files, R!Moving, R!Waiting
  <2>9. R!UndoInv'
    BY <1>1, <2>1, <2>2, SMTT(10)
    DEF R!IInv, R!JobInv, R!UndoInv, R!Begin, R!At, R!NoJob, R!files, R!Moving, R!Waiting, R!Was,
        R!Replacing, R!Replaced
  <2>10. R!OutputInv'
    BY <1>1, <2>1, <2>2, SMTT(10)
    DEF R!IInv, R!OutputInv, R!Begin, R!At, R!NoJob, R!files
  <2>11. R!DataSurvivesOneRestore'
    BY <1>1, <2>0, <2>1, <2>2, SMTT(10)
    DEF R!IInv, R!DataSurvivesOneRestore, R!Begin, R!At, R!NoJob, R!files
  <2>. QED BY <2>3, <2>4, <2>5, <2>6, <2>7, <2>8, <2>9, <2>10, <2>11 DEF R!IInv
<1>2. CASE ~up
  <2>1. job' = [at |-> "staging", next |-> 1, staged |-> {}, swapped |-> {},
                left |-> {}, held |-> {}, had |-> {}, wasUp |-> FALSE, started |-> FALSE,
                undoing |-> FALSE]
    BY <1>2, RestoreTyped DEF R!Begin, R!Goto, R!NoJob, R!Jobs
  <2>2. restorePast' = [live |-> [m \in R!Mounts |-> IF target[m] \in R!Versions THEN target[m] ELSE restorePast.live[m]],
                        absent |-> restorePast.absent, up |-> restorePast.up,
                        disturbed |-> restorePast.disturbed,
                        discarded |-> restorePast.discarded, undone |-> restorePast'.undone,
                        hostAhead |-> restorePast.hostAhead]
    BY <1>2, RestoreTyped DEF R!Begin, R!Pasts, R!At
  <2>0. /\ restorePast'.undone \subseteq restorePast.undone
        /\ \A m \in restorePast.undone \ restorePast'.undone : target[m] \in R!Versions
    BY RestoreTyped DEF R!Begin, R!Pasts
  <2>3. R!TypeOK'
    BY <1>2, <2>1, <2>2, RestoreTyped, RestoreNames, SMTT(10)
    DEF R!IInv, R!TypeOK, R!Begin, R!At, R!NoJob, R!files, R!Jobs, R!Pasts
  <2>4. R!Records'
    <3>1. job' \in R!Jobs
      BY <1>2, <2>1, <2>2, RestoreTyped, RestoreNames
      DEF R!Jobs, R!Steps, R!Replacing, R!Replaced, R!Undoing
    <3>2. restorePast' \in R!Pasts
      BY <1>2, <2>0, <2>1, <2>2, RestoreTyped, RestoreNames DEF R!Pasts
    <3>. QED BY <3>1, <3>2 DEF R!Records
  <2>5. R!JobInv'
    BY <1>2, <2>1, <2>2, RestoreTyped, RestoreNames, SMTT(10)
    DEF R!IInv, R!JobInv, R!Begin, R!At, R!NoJob, R!files, R!Replacing, R!Replaced,
        R!Mounts, R!Versions, R!Jobs, R!Pasts
  <2>6. R!StageInv'
    BY <1>2, <2>1, <2>2, SMTT(10)
    DEF R!IInv, R!StageInv, R!Begin, R!At, R!NoJob, R!files, R!Replacing
  <2>7. R!PlaceInv'
    BY <1>2, <2>1, <2>2, SMTT(10)
    DEF R!IInv, R!PlaceInv, R!Begin, R!At, R!NoJob, R!files, R!Moving, R!Waiting, R!Replaced,
        R!JobInv, R!Replacing
  <2>8. R!KeptInv'
    BY <1>2, <2>1, <2>2, SMTT(10)
    DEF R!IInv, R!KeptInv, R!Begin, R!At, R!NoJob, R!files, R!Moving, R!Waiting
  <2>9. R!UndoInv'
    BY <1>2, <2>1, <2>2, SMTT(10)
    DEF R!IInv, R!JobInv, R!UndoInv, R!Begin, R!At, R!NoJob, R!files, R!Moving, R!Waiting, R!Was,
        R!Replacing, R!Replaced
  <2>10. R!OutputInv'
    BY <1>2, <2>1, <2>2, SMTT(10)
    DEF R!IInv, R!OutputInv, R!Begin, R!At, R!NoJob, R!files
  <2>11. R!DataSurvivesOneRestore'
    BY <1>2, <2>0, <2>1, <2>2, SMTT(10)
    DEF R!IInv, R!DataSurvivesOneRestore, R!Begin, R!At, R!NoJob, R!files
  <2>. QED BY <2>3, <2>4, <2>5, <2>6, <2>7, <2>8, <2>9, <2>10, <2>11 DEF R!IInv
<1>. QED BY <1>1, <1>2 DEF R!Begin

LEMMA Restore_Stop ==
  ASSUME R!RestoreAssumption, R!IInv, R!Stop PROVE R!IInv'
<1>1. job' = [at |-> "staging", next |-> job.next, staged |-> job.staged,
              swapped |-> job.swapped, left |-> job.left, held |-> job.held, had |-> job.had,
              wasUp |-> job.wasUp, started |-> job.started, undoing |-> job.undoing]
  BY RestoreTyped DEF R!Stop, R!Goto, R!NoJob, R!Jobs
<1>2. restorePast' = restorePast
  BY RestoreTyped DEF R!Stop, R!files, R!vars
<1>3. R!TypeOK'
  <2>1. /\ up' = FALSE
        /\ UNCHANGED <<clone, target, stage, kept, strays, db, assets, host, jobs, restoreFaults>>
    BY DEF R!Stop, R!Steady
  <2>2. /\ job'.next = job.next /\ job'.swapped = job.swapped
        /\ job'.staged = job.staged
       /\ job'.held = job.held /\ job'.had = job.had /\ job'.left = job.left
    BY <1>1, <1>2
  <2>. QED BY <2>1, <2>2 DEF R!IInv, R!TypeOK
<1>4. R!Records'
  <2>1. job' \in R!Jobs
    BY <1>1, <1>2, RestoreTyped, RestoreNames
    DEF R!Jobs, R!Steps, R!Replacing, R!Replaced, R!Undoing
  <2>2. restorePast' \in R!Pasts
    BY <1>1, <1>2, RestoreTyped, RestoreNames DEF R!Pasts
  <2>. QED BY <2>1, <2>2 DEF R!Records
<1>5. R!JobInv'
  BY <1>1, <1>2, SMTT(10)
  DEF R!IInv, R!JobInv, R!Stop, R!At, R!Goto, R!Steady, R!NoJob, R!Replacing,
      R!Replaced
<1>6. R!StageInv'
  BY <1>1, <1>2, RestoreNames, RestoreTyped, SMTT(10)
  DEF R!IInv, R!Jobs, R!Pasts, R!TypeOK, R!JobInv, R!StageInv, R!PlaceInv, R!KeptInv,
      R!UndoInv, R!OutputInv, R!DataSurvivesOneRestore, R!Stop, R!At, R!Goto, R!Fault,
      R!Steady, R!NoJob, R!files, R!Last, R!Moving, R!Waiting, R!Was, R!Replacing, R!Replaced,
      R!Undoing, R!Steps, R!Mounts, R!Versions, R!Nothing, R!Torn, R!Contents
<1>7. R!PlaceInv'
  <2>1. job.at = "stopping" /\ job'.at = "staging" /\ job'.staged = job.staged
    BY <1>1, <1>2 DEF R!Stop, R!At
  <2>2. job.staged = {}
    BY <2>1, RestoreNames DEF R!IInv, R!JobInv, R!At, R!Mounts
  <2>. QED BY <2>1, <2>2 DEF R!PlaceInv, R!At, R!Moving, R!Replacing, R!Replaced
<1>8. R!KeptInv'
  BY <1>1, <1>2, SMTT(10)
  DEF R!IInv, R!KeptInv, R!Stop, R!At, R!Goto, R!Steady, R!Moving, R!Waiting
<1>9. R!UndoInv'
  BY <1>1, <1>2, SMTT(10)
  DEF R!IInv, R!UndoInv, R!Stop, R!At, R!Goto, R!Steady, R!Moving, R!Waiting, R!Was
<1>10. R!OutputInv'
  BY <1>1, <1>2, SMTT(10)
  DEF R!IInv, R!JobInv, R!OutputInv, R!Stop, R!At, R!Goto, R!Steady, R!NoJob,
      R!Replacing, R!Replaced
<1>11. R!DataSurvivesOneRestore'
  BY <1>1, <1>2, SMTT(10)
  DEF R!IInv, R!DataSurvivesOneRestore, R!Stop, R!At, R!Goto, R!Steady
<1>. QED BY <1>3, <1>4, <1>5, <1>6, <1>7, <1>8, <1>9, <1>10, <1>11 DEF R!IInv

LEMMA Restore_Stage ==
  ASSUME R!RestoreAssumption, R!IInv, NEW m \in R!Mounts, R!Stage(m) PROVE R!IInv'
<1>1. job' = [at |-> job.at, next |-> m + 1, staged |-> job.staged \cup {m},
              swapped |-> job.swapped, left |-> job.left, held |-> job.held,
              had |-> IF target[m] = R!Nothing THEN job.had ELSE job.had \cup {m},
              wasUp |-> job.wasUp, started |-> job.started, undoing |-> job.undoing]
  BY RestoreTyped DEF R!Stage, R!Goto, R!NoJob, R!Jobs
<1>2. restorePast' = [live |-> restorePast.live, absent |-> restorePast.absent,
                      up |-> restorePast.up, disturbed |-> restorePast.disturbed,
                      discarded |-> IF kept[m] = restorePast.live[m] /\ target[m] # restorePast.live[m] THEN restorePast.discarded \cup {m} ELSE restorePast.discarded, undone |-> restorePast.undone,
                      hostAhead |-> restorePast.hostAhead]
  BY RestoreTyped DEF R!Stage, R!Pasts, R!At
<1>3. R!TypeOK'
  <2>1. UNCHANGED <<clone, target, strays, db, assets, host, up, jobs, restoreFaults>>
    BY DEF R!Stage, R!Steady
  <2>2. kept' \in [R!Mounts -> R!Contents] /\ stage' \in [R!Mounts -> R!Contents]
    BY RestoreTyped, RestoreNames DEF R!Stage
  <2>3. job'.next \in 1..MaxMounts + 1
    BY <1>1, <1>2, RestoreNames DEF R!Mounts
  <2>4. /\ job'.swapped = job.swapped /\ job'.staged = job.staged \cup {m}
       /\ job'.held = job.held /\ job'.left = job.left /\ job.had \subseteq job'.had
    BY <1>1, <1>2
  <2>. QED BY <2>1, <2>2, <2>3, <2>4 DEF R!IInv, R!TypeOK
<1>4. R!Records'
  <2>1. job' \in R!Jobs
    BY <1>1, <1>2, RestoreTyped, RestoreNames
    DEF R!Jobs, R!Steps, R!Replacing, R!Replaced, R!Undoing
  <2>2. restorePast' \in R!Pasts
    BY <1>1, <1>2, RestoreTyped, RestoreNames DEF R!Pasts
  <2>. QED BY <2>1, <2>2 DEF R!Records
<1>5. R!JobInv'
  BY <1>1, <1>2, SMTT(10)
  DEF R!IInv, R!JobInv, R!Stage, R!At, R!Steady, R!NoJob, R!Replacing, R!Replaced,
      R!Mounts, R!Nothing
<1>6. R!StageInv'
  BY <1>1, <1>2, RestoreTyped, RestoreNames, SMTT(10)
  DEF R!IInv, R!StageInv, R!Stage, R!At, R!Steady, R!Replacing, R!Jobs, R!Pasts
<1>7. R!PlaceInv'
  BY <1>1, <1>2, SMTT(10)
  DEF R!IInv, R!PlaceInv, R!Stage, R!At, R!Steady, R!Moving, R!Waiting, R!Replaced, R!JobInv,
      R!Replacing
<1>8. R!KeptInv'
  BY <1>1, <1>2, SMTT(10)
  DEF R!IInv, R!JobInv, R!KeptInv, R!Stage, R!At, R!Steady, R!NoJob, R!Moving, R!Waiting,
      R!Replacing, R!Replaced
<1>9. R!UndoInv'
  <2>1. /\ job.at = "staging" /\ m = job.next /\ job'.at = "staging"
        /\ job.had \subseteq job.staged
       /\ m \notin job.staged /\ job.swapped = {} /\ target' = target /\ db' = db
    BY <1>1, <1>2, RestoreNames, RestoreTyped
    DEF R!Stage, R!At, R!Steady, R!IInv, R!JobInv
  <2>2. job'.staged = job.staged \cup {m} /\ job'.swapped = {}
    BY <1>1, <1>2, <2>1
  <2>3. job'.had = IF target[m] = R!Nothing THEN job.had ELSE job.had \cup {m}
    BY <1>1, <1>2
  <2>4. /\ restorePast'.disturbed = restorePast.disturbed
        /\ restorePast'.absent = restorePast.absent
    BY <1>1, <1>2
  <2>5. SUFFICES ASSUME ~restorePast.disturbed, NEW k \in R!Mounts
                 PROVE  /\ k \in job'.staged => (k \in job'.had <=> R!Was(k) # R!Nothing)
                        /\ target[k] = R!Was(k)
    BY <2>1, <2>2, <2>4 DEF R!UndoInv, R!Moving, R!Waiting, R!Was, R!At
  <2>6. target[k] = R!Was(k) /\ (k \in job.staged => (k \in job.had <=> R!Was(k) # R!Nothing))
    BY <2>1, <2>5 DEF R!IInv, R!UndoInv, R!Moving, R!Waiting, R!At
  <2>. QED BY <2>1, <2>2, <2>3, <2>6
<1>10. R!OutputInv'
  BY <1>1, <1>2, SMTT(10) DEF R!IInv, R!OutputInv, R!Stage, R!At, R!Steady
<1>11. R!DataSurvivesOneRestore'
  BY <1>1, <1>2, SMTT(10) DEF R!IInv, R!DataSurvivesOneRestore, R!Stage, R!At, R!Steady
<1>. QED BY <1>3, <1>4, <1>5, <1>6, <1>7, <1>8, <1>9, <1>10, <1>11 DEF R!IInv

LEMMA Restore_Staged ==
  ASSUME R!RestoreAssumption, R!IInv, R!Staged PROVE R!IInv'
<1>1. job' = [at |-> "away", next |-> 1, staged |-> job.staged,
              swapped |-> job.swapped, left |-> job.left, held |-> job.held, had |-> job.had,
              wasUp |-> job.wasUp, started |-> job.started, undoing |-> job.undoing]
  BY RestoreTyped DEF R!Staged, R!Goto, R!NoJob, R!Jobs
<1>2. restorePast' = restorePast
  BY RestoreTyped DEF R!Staged, R!files, R!vars
<1>3. R!TypeOK'
  BY <1>1, <1>2, RestoreTyped, RestoreNames, SMTT(10)
  DEF R!IInv, R!TypeOK, R!Staged, R!At, R!files, R!Jobs, R!Pasts
<1>4. R!Records'
  <2>1. job' \in R!Jobs
    BY <1>1, <1>2, RestoreTyped, RestoreNames
    DEF R!Jobs, R!Steps, R!Replacing, R!Replaced, R!Undoing
  <2>2. restorePast' \in R!Pasts
    BY <1>1, <1>2, RestoreTyped, RestoreNames DEF R!Pasts
  <2>. QED BY <2>1, <2>2 DEF R!Records
<1>5. R!JobInv'
  <2>1. job.at = "staging" /\ job.next = MaxMounts + 1 /\ job'.at = "away"
    BY <1>1, <1>2, RestoreNames, RestoreTyped DEF R!Staged, R!At, R!IInv, R!TypeOK
  <2>2. {m \in R!Mounts : m < job.next} = R!Mounts
    BY <2>1, RestoreNames DEF R!Mounts
  <2>3. /\ job.staged = R!Mounts /\ job.swapped = {} /\ job.held = {}
       /\ jobs > 0 /\ (clone => db = 0 \/ restorePast.disturbed)
       /\ (job.started => job.wasUp)
    BY <2>1, <2>2, RestoreTyped DEF R!IInv, R!JobInv, R!At, R!Jobs
  <2>4. {m \in R!Mounts : m < 1} = {}
    BY RestoreNames DEF R!Mounts
  <2>. QED
    BY <1>1, <1>2, <2>1, <2>3, <2>4
    DEF R!JobInv, R!At, R!Staged, R!Replacing, R!Replaced, R!files
<1>6. R!StageInv'
  BY <1>1, <1>2, SMTT(10) DEF R!IInv, R!StageInv, R!Staged, R!At, R!files, R!Replacing
<1>7. R!PlaceInv'
  BY <1>1, <1>2, SMTT(10)
  DEF R!IInv, R!PlaceInv, R!Staged, R!At, R!files, R!Moving, R!Waiting, R!Replaced, R!JobInv,
      R!Replacing
<1>8. R!KeptInv'
  BY <1>1, <1>2, SMTT(10) DEF R!IInv, R!KeptInv, R!Staged, R!At, R!files, R!Moving, R!Waiting
<1>9. R!UndoInv'
  BY <1>1, <1>2, SMTT(10)
  DEF R!IInv, R!UndoInv, R!Staged, R!At, R!files, R!Moving, R!Waiting, R!Was
<1>10. R!OutputInv'
  BY <1>1, <1>2, SMTT(10) DEF R!IInv, R!OutputInv, R!Staged, R!At, R!files
<1>11. R!DataSurvivesOneRestore'
  BY <1>1, <1>2, SMTT(10) DEF R!IInv, R!DataSurvivesOneRestore, R!Staged, R!At, R!files
<1>. QED BY <1>3, <1>4, <1>5, <1>6, <1>7, <1>8, <1>9, <1>10, <1>11 DEF R!IInv

LEMMA Restore_MoveAway ==
  ASSUME R!RestoreAssumption, R!IInv, NEW m \in R!Mounts, R!MoveAway(m) PROVE R!IInv'
<1>1. CASE m \in job.had
  <2>1. job' = [at |-> "in", next |-> job.next, staged |-> job.staged,
                swapped |-> job.swapped, left |-> job.left, held |-> job.held \cup {m},
                had |-> job.had,
                wasUp |-> job.wasUp, started |-> job.started, undoing |-> job.undoing]
    BY <1>1, RestoreTyped DEF R!MoveAway, R!Goto, R!NoJob, R!Jobs
  <2>2. restorePast' = restorePast
    BY <1>1 DEF R!MoveAway, R!files, R!vars
  <2>3. R!TypeOK'
    BY <1>1, <2>1, <2>2, SMTT(10)
    DEF R!IInv, R!TypeOK, R!MoveAway, R!At, R!Goto, R!Steady, R!Mounts, R!Versions,
        R!Nothing, R!Torn, R!Contents
  <2>4. R!Records'
    <3>1. job' \in R!Jobs
      BY <1>1, <2>1, <2>2, RestoreTyped, RestoreNames
      DEF R!Jobs, R!Steps, R!Replacing, R!Replaced, R!Undoing
    <3>2. restorePast' \in R!Pasts
      BY <1>1, <2>1, <2>2, RestoreTyped, RestoreNames DEF R!Pasts
    <3>. QED BY <3>1, <3>2 DEF R!Records
  <2>5. R!JobInv'
    BY <1>1, <2>1, <2>2, SMTT(10)
    DEF R!IInv, R!JobInv, R!MoveAway, R!At, R!Goto, R!Steady, R!NoJob, R!Replacing,
        R!Replaced
  <2>6. R!StageInv'
    BY <1>1, <2>1, <2>2, RestoreTyped, RestoreNames, SMTT(10)
    DEF R!IInv, R!StageInv, R!MoveAway, R!At, R!Goto, R!Steady, R!Replacing, R!Jobs,
        R!Pasts
  <2>7. R!PlaceInv'
    BY <1>1, <2>1, <2>2, RestoreTyped, RestoreNames, SMTT(10)
    DEF R!IInv, R!PlaceInv, R!MoveAway, R!At, R!Goto, R!Steady, R!Moving, R!Waiting, R!Replaced,
        R!Jobs, R!Pasts, R!JobInv, R!Replacing
  <2>8. R!KeptInv'
    <3>1. /\ job.at = "away" /\ m = job.next /\ m \in R!Mounts /\ m \notin job.held
         /\ m \notin job.swapped /\ m \in job.staged /\ kept[m] = R!Nothing
      BY RestoreNames, RestoreTyped
      DEF R!MoveAway, R!At, R!IInv, R!JobInv, R!StageInv, R!Replacing
    <3>2. restorePast.live[m] \in {target[m],
                           R!Nothing} \cup strays[m] \/ m \in restorePast.discarded \cup restorePast.undone
      BY <3>1 DEF R!IInv, R!DataSurvivesOneRestore
    <3>3. kept' = [kept EXCEPT ![m] = target[m]] /\ strays' = strays
      BY <1>1, <2>1, <2>2 DEF R!MoveAway, R!Steady
    <3>4. job'.swapped = job.swapped /\ job'.next = m /\ job'.at = "in"
      BY <1>1, <2>1, <2>2, <3>1
    <3>5. restorePast' = restorePast
      BY <1>1, <2>1, <2>2
    <3>. QED
      BY <3>1, <3>2, <3>3, <3>4, <3>5, RestoreTyped DEF R!IInv, R!KeptInv, R!Moving, R!Waiting, R!At
  <2>9. R!UndoInv'
    BY <1>1, <2>1, <2>2, RestoreTyped, RestoreNames, SMTT(10)
    DEF R!IInv, R!JobInv, R!UndoInv, R!MoveAway, R!At, R!Goto, R!Steady, R!NoJob,
        R!Moving, R!Waiting, R!Was, R!Replacing, R!Replaced, R!Jobs, R!Pasts
  <2>10. R!OutputInv'
    BY <1>1, <2>1, <2>2, SMTT(10)
    DEF R!IInv, R!OutputInv, R!MoveAway, R!At, R!Goto, R!Steady
  <2>11. R!DataSurvivesOneRestore'
    <3>1. /\ job.at = "away" /\ m = job.next /\ m \in R!Mounts /\ m \notin job.held
         /\ m \notin job.swapped /\ m \in job.staged /\ kept[m] = R!Nothing
      BY RestoreNames, RestoreTyped
      DEF R!MoveAway, R!At, R!IInv, R!JobInv, R!StageInv, R!Replacing
    <3>2. restorePast.live[m] \in {target[m],
                           R!Nothing} \cup strays[m] \/ m \in restorePast.discarded \cup restorePast.undone
      BY <3>1 DEF R!IInv, R!DataSurvivesOneRestore
    <3>3. /\ kept' = [kept EXCEPT ![m] = target[m]] /\ strays' = strays
         /\ target' = [target EXCEPT ![m] = R!Nothing]
      BY <1>1, <2>1, <2>2 DEF R!MoveAway, R!Steady
    <3>4. restorePast' = restorePast
      BY <1>1, <2>1, <2>2
    <3>. QED
      BY <3>1, <3>2, <3>3, <3>4, RestoreTyped DEF R!IInv, R!DataSurvivesOneRestore
  <2>. QED BY <2>3, <2>4, <2>5, <2>6, <2>7, <2>8, <2>9, <2>10, <2>11 DEF R!IInv
<1>2. CASE m \notin job.had
  <2>1. job' = [at |-> "in", next |-> job.next, staged |-> job.staged,
                swapped |-> job.swapped, left |-> job.left, held |-> job.held, had |-> job.had,
                wasUp |-> job.wasUp, started |-> job.started, undoing |-> job.undoing]
    BY <1>2, RestoreTyped DEF R!MoveAway, R!Goto, R!NoJob, R!Jobs
  <2>2. restorePast' = restorePast
    BY <1>2 DEF R!MoveAway, R!files, R!vars
  <2>3. R!TypeOK'
    BY <1>2, <2>1, <2>2, SMTT(10)
    DEF R!IInv, R!TypeOK, R!MoveAway, R!At, R!Goto, R!Steady
  <2>4. R!Records'
    <3>1. job' \in R!Jobs
      BY <1>2, <2>1, <2>2, RestoreTyped, RestoreNames
      DEF R!Jobs, R!Steps, R!Replacing, R!Replaced, R!Undoing
    <3>2. restorePast' \in R!Pasts
      BY <1>2, <2>1, <2>2, RestoreTyped, RestoreNames DEF R!Pasts
    <3>. QED BY <3>1, <3>2 DEF R!Records
  <2>5. R!JobInv'
    BY <1>2, <2>1, <2>2, SMTT(10)
    DEF R!IInv, R!JobInv, R!MoveAway, R!At, R!Goto, R!Steady, R!NoJob, R!Replacing,
        R!Replaced
  <2>6. R!StageInv'
    BY <1>2, <2>1, <2>2, SMTT(10)
    DEF R!IInv, R!StageInv, R!MoveAway, R!At, R!Goto, R!Steady, R!Replacing
  <2>7. R!PlaceInv'
    <3>1. /\ job.at = "away" /\ job'.at = "in" /\ m = job.next /\ m \in R!Mounts
         /\ m \notin job.swapped /\ m \in job.staged /\ target[m] = R!Nothing
      BY <1>2, <2>1, <2>2, RestoreNames, RestoreTyped
      DEF R!MoveAway, R!At, R!IInv, R!JobInv, R!PlaceInv, R!Replacing
    <3>2. kept' = kept /\ target' = target /\ strays' = strays /\ jobs' = jobs
      BY <1>2, <2>1, <2>2 DEF R!MoveAway, R!Steady
    <3>3. /\ job'.swapped = job.swapped /\ job'.next = m /\ job'.had = job.had
         /\ job'.staged = job.staged /\ restorePast' = restorePast
      BY <1>2, <2>1, <2>2, <3>1
    <3>. QED
      BY <3>1, <3>2, <3>3 DEF R!IInv, R!PlaceInv, R!At, R!Moving, R!Replacing, R!Replaced
  <2>8. R!KeptInv'
    <3>1. /\ job.at = "away" /\ job'.at = "in" /\ m = job.next /\ m \in R!Mounts
         /\ m \notin job.swapped /\ m \in job.staged /\ target[m] = R!Nothing
      BY <1>2, <2>1, <2>2, RestoreNames, RestoreTyped
      DEF R!MoveAway, R!At, R!IInv, R!JobInv, R!PlaceInv, R!Replacing
    <3>2. kept' = kept /\ target' = target /\ strays' = strays /\ jobs' = jobs
      BY <1>2, <2>1, <2>2 DEF R!MoveAway, R!Steady
    <3>3. /\ job'.swapped = job.swapped /\ job'.next = m /\ job'.had = job.had
         /\ job'.staged = job.staged /\ restorePast' = restorePast
      BY <1>2, <2>1, <2>2, <3>1
    <3>4. restorePast.live[m] \in {kept[m],
                           R!Nothing} \cup strays[m] \/ m \in restorePast.discarded \cup restorePast.undone
      BY <3>1 DEF R!IInv, R!DataSurvivesOneRestore
    <3>. QED BY <3>1, <3>2, <3>3, <3>4 DEF R!IInv, R!KeptInv, R!Moving, R!Waiting, R!At
  <2>9. R!UndoInv'
    BY <1>2, <2>1, <2>2, SMTT(10)
    DEF R!IInv, R!UndoInv, R!MoveAway, R!At, R!Goto, R!Steady, R!Moving, R!Waiting, R!Was
  <2>10. R!OutputInv'
    BY <1>2, <2>1, <2>2, SMTT(10)
    DEF R!IInv, R!OutputInv, R!MoveAway, R!At, R!Goto, R!Steady
  <2>11. R!DataSurvivesOneRestore'
    BY <1>2, <2>1, <2>2, SMTT(10)
    DEF R!IInv, R!DataSurvivesOneRestore, R!MoveAway, R!At, R!Goto, R!Steady
  <2>. QED BY <2>3, <2>4, <2>5, <2>6, <2>7, <2>8, <2>9, <2>10, <2>11 DEF R!IInv
<1>. QED BY <1>1, <1>2 DEF R!MoveAway

LEMMA Restore_MoveIn ==
  ASSUME R!RestoreAssumption, R!IInv, NEW m \in R!Mounts, R!MoveIn(m) PROVE R!IInv'
<1>1. job' = [at |-> "away", next |-> m + 1, staged |-> job.staged,
              swapped |-> job.swapped \cup {m}, left |-> job.left, held |-> job.held,
              had |-> job.had,
              wasUp |-> job.wasUp, started |-> job.started, undoing |-> job.undoing]
  BY RestoreTyped DEF R!MoveIn, R!Goto, R!NoJob, R!Jobs
<1>2. restorePast' = restorePast
  BY RestoreTyped DEF R!MoveIn, R!files, R!vars
<1>3. R!TypeOK'
  <2>1. UNCHANGED <<clone, kept, strays, db, assets, host, up, jobs, restoreFaults>>
    BY DEF R!MoveIn, R!Steady
  <2>2. target' \in [R!Mounts -> R!Contents] /\ stage' \in [R!Mounts -> R!Contents]
    BY RestoreTyped, RestoreNames DEF R!MoveIn
  <2>3. job'.next \in 1..MaxMounts + 1
    BY <1>1, <1>2, RestoreNames DEF R!Mounts
  <2>4. /\ job'.swapped = job.swapped \cup {m} /\ job'.staged = job.staged
       /\ job'.held = job.held /\ job'.had = job.had /\ job'.left = job.left
    BY <1>1, <1>2
  <2>5. m \in job.staged
    BY DEF R!MoveIn, R!At, R!IInv, R!JobInv, R!Replacing
  <2>. QED BY <2>1, <2>2, <2>3, <2>4, <2>5 DEF R!IInv, R!TypeOK
<1>4. R!Records'
  <2>1. job' \in R!Jobs
    BY <1>1, <1>2, RestoreTyped, RestoreNames
    DEF R!Jobs, R!Steps, R!Replacing, R!Replaced, R!Undoing
  <2>2. restorePast' \in R!Pasts
    BY <1>1, <1>2, RestoreTyped, RestoreNames DEF R!Pasts
  <2>. QED BY <2>1, <2>2 DEF R!Records
<1>5. R!JobInv'
  BY <1>1, <1>2, SMTT(10)
  DEF R!IInv, R!JobInv, R!MoveIn, R!At, R!Steady, R!NoJob, R!Replacing, R!Replaced,
      R!Mounts, R!Nothing
<1>6. R!StageInv'
  BY <1>1, <1>2, SMTT(10) DEF R!IInv, R!StageInv, R!MoveIn, R!At, R!Steady, R!Replacing
<1>7. R!PlaceInv'
  <2>1. /\ job.at = "in" /\ job'.at = "away" /\ m \in R!Mounts /\ stage[m] = jobs
    BY <1>1, <1>2, RestoreNames, RestoreTyped
    DEF R!MoveIn, R!At, R!IInv, R!JobInv, R!StageInv, R!Replacing
  <2>2. target' = [target EXCEPT ![m] = jobs] /\ jobs' = jobs
    BY <2>1 DEF R!MoveIn, R!Steady
  <2>3. /\ job'.swapped = job.swapped \cup {m} /\ job'.had = job.had
       /\ job'.staged = job.staged
    BY <1>1, <1>2
  <2>. QED
    BY <2>1, <2>2, <2>3, RestoreTyped
    DEF R!IInv, R!PlaceInv, R!At, R!Moving, R!Replacing, R!Replaced
<1>8. R!KeptInv'
  BY <1>1, <1>2, SMTT(10) DEF R!IInv, R!KeptInv, R!MoveIn, R!At, R!Steady, R!Moving, R!Waiting
<1>9. R!UndoInv'
  BY <1>1, <1>2, SMTT(10)
  DEF R!IInv, R!UndoInv, R!MoveIn, R!At, R!Steady, R!Moving, R!Waiting, R!Was
<1>10. R!OutputInv'
  BY <1>1, <1>2, SMTT(10) DEF R!IInv, R!OutputInv, R!MoveIn, R!At, R!Steady
<1>11. R!DataSurvivesOneRestore'
  BY <1>1, <1>2, SMTT(10)
  DEF R!IInv, R!JobInv, R!StageInv, R!PlaceInv, R!DataSurvivesOneRestore, R!MoveIn,
      R!At, R!Steady, R!NoJob, R!Moving, R!Waiting, R!Replacing, R!Replaced
<1>. QED BY <1>3, <1>4, <1>5, <1>6, <1>7, <1>8, <1>9, <1>10, <1>11 DEF R!IInv

LEMMA Restore_Moved ==
  ASSUME R!RestoreAssumption, R!IInv, R!Moved PROVE R!IInv'
<1>1. job' = [at |-> "writing", next |-> job.next, staged |-> job.staged,
              swapped |-> job.swapped, left |-> job.left, held |-> job.held, had |-> job.had,
              wasUp |-> job.wasUp, started |-> job.started, undoing |-> job.undoing]
  BY RestoreTyped DEF R!Moved, R!Goto, R!NoJob, R!Jobs
<1>2. restorePast' = restorePast
  BY RestoreTyped DEF R!Moved, R!files, R!vars
<1>3. R!TypeOK'
  BY <1>1, <1>2, SMTT(10) DEF R!IInv, R!TypeOK, R!Moved, R!At, R!Goto, R!files
<1>4. R!Records'
  <2>1. job' \in R!Jobs
    BY <1>1, <1>2, RestoreTyped, RestoreNames
    DEF R!Jobs, R!Steps, R!Replacing, R!Replaced, R!Undoing
  <2>2. restorePast' \in R!Pasts
    BY <1>1, <1>2, RestoreTyped, RestoreNames DEF R!Pasts
  <2>. QED BY <2>1, <2>2 DEF R!Records
<1>5. R!JobInv'
  <2>1. job.at = "away" /\ job.next = MaxMounts + 1 /\ job'.at = "writing"
    BY <1>1, <1>2, RestoreNames, RestoreTyped DEF R!Moved, R!At, R!IInv, R!TypeOK
  <2>2. {m \in R!Mounts : m < job.next} = R!Mounts
    BY <2>1, RestoreNames DEF R!Mounts
  <2>3. /\ job.staged = R!Mounts /\ job.swapped = R!Mounts
        /\ job.held \subseteq R!Mounts
       /\ jobs > 0 /\ (clone => db = 0 \/ restorePast.disturbed)
       /\ (job.started => job.wasUp)
    BY <2>1, <2>2, RestoreTyped DEF R!IInv, R!JobInv, R!At, R!Jobs, R!Replacing
  <2>. QED
    BY <1>1, <1>2, <2>1, <2>3
    DEF R!JobInv, R!At, R!Moved, R!Replacing, R!Replaced, R!files
<1>6. R!StageInv'
  BY <1>1, <1>2, SMTT(10)
  DEF R!IInv, R!StageInv, R!Moved, R!At, R!Goto, R!files, R!Replacing
<1>7. R!PlaceInv'
  BY <1>1, <1>2, RestoreNames, RestoreTyped, SMTT(10)
  DEF R!IInv, R!Jobs, R!Pasts, R!TypeOK, R!JobInv, R!StageInv, R!PlaceInv, R!KeptInv,
      R!UndoInv, R!OutputInv, R!DataSurvivesOneRestore, R!Moved, R!At, R!Goto, R!Fault,
      R!Steady, R!NoJob, R!files, R!Last, R!Moving, R!Waiting, R!Was, R!Replacing, R!Replaced,
      R!Undoing, R!Steps, R!Mounts, R!Versions, R!Nothing, R!Torn, R!Contents
<1>8. R!KeptInv'
  BY <1>1, <1>2, SMTT(10)
  DEF R!IInv, R!KeptInv, R!Moved, R!At, R!Goto, R!files, R!Moving, R!Waiting
<1>9. R!UndoInv'
  BY <1>1, <1>2, SMTT(10)
  DEF R!IInv, R!UndoInv, R!Moved, R!At, R!Goto, R!files, R!Moving, R!Waiting, R!Was
<1>10. R!OutputInv'
  BY <1>1, <1>2, SMTT(10) DEF R!IInv, R!OutputInv, R!Moved, R!At, R!Goto, R!files
<1>11. R!DataSurvivesOneRestore'
  BY <1>1, <1>2, SMTT(10)
  DEF R!IInv, R!DataSurvivesOneRestore, R!Moved, R!At, R!Goto, R!files
<1>. QED BY <1>3, <1>4, <1>5, <1>6, <1>7, <1>8, <1>9, <1>10, <1>11 DEF R!IInv

LEMMA Restore_MoveInFails ==
  ASSUME R!RestoreAssumption, R!IInv, NEW m \in R!Mounts, R!MoveInFails(m) PROVE R!IInv'
<1>1. job' = [at |-> "back", next |-> job.next, staged |-> job.staged,
              swapped |-> job.swapped, left |-> job.left, held |-> job.held, had |-> job.had,
              wasUp |-> job.wasUp, started |-> job.started, undoing |-> job.undoing]
  BY RestoreTyped DEF R!MoveInFails, R!Goto, R!NoJob, R!Jobs
<1>2. restorePast' = restorePast
  BY RestoreTyped DEF R!MoveInFails, R!files, R!vars
<1>3. R!TypeOK'
  BY <1>1, <1>2, RestoreTyped, RestoreNames, SMTT(10)
  DEF R!IInv, R!TypeOK, R!MoveInFails, R!At, R!Fault, R!Steady, R!Jobs, R!Pasts
<1>4. R!Records'
  <2>1. job' \in R!Jobs
    BY <1>1, <1>2, RestoreTyped, RestoreNames
    DEF R!Jobs, R!Steps, R!Replacing, R!Replaced, R!Undoing
  <2>2. restorePast' \in R!Pasts
    BY <1>1, <1>2, RestoreTyped, RestoreNames DEF R!Pasts
  <2>. QED BY <2>1, <2>2 DEF R!Records
<1>5. R!JobInv'
  BY <1>1, <1>2, SMTT(10)
  DEF R!IInv, R!JobInv, R!MoveInFails, R!At, R!Fault, R!Steady, R!NoJob, R!Replacing,
      R!Replaced
<1>6. R!StageInv'
  BY <1>1, <1>2, SMTT(10)
  DEF R!IInv, R!StageInv, R!MoveInFails, R!At, R!Fault, R!Steady, R!Replacing
<1>7. R!PlaceInv'
  BY <1>1, <1>2, SMTT(10)
  DEF R!IInv, R!PlaceInv, R!MoveInFails, R!At, R!Fault, R!Steady, R!Moving, R!Waiting, R!Replaced,
      R!JobInv, R!Replacing
<1>8. R!KeptInv'
  BY <1>1, <1>2, SMTT(10)
  DEF R!IInv, R!KeptInv, R!MoveInFails, R!At, R!Fault, R!Steady, R!Moving, R!Waiting
<1>9. R!UndoInv'
  BY <1>1, <1>2, SMTT(10)
  DEF R!IInv, R!UndoInv, R!MoveInFails, R!At, R!Fault, R!Steady, R!Moving, R!Waiting, R!Was
<1>10. R!OutputInv'
  BY <1>1, <1>2, SMTT(10)
  DEF R!IInv, R!OutputInv, R!MoveInFails, R!At, R!Fault, R!Steady
<1>11. R!DataSurvivesOneRestore'
  BY <1>1, <1>2, SMTT(10)
  DEF R!IInv, R!DataSurvivesOneRestore, R!MoveInFails, R!At, R!Fault, R!Steady
<1>. QED BY <1>3, <1>4, <1>5, <1>6, <1>7, <1>8, <1>9, <1>10, <1>11 DEF R!IInv

LEMMA Restore_MoveBack ==
  ASSUME R!RestoreAssumption, R!IInv, NEW m \in R!Mounts, R!MoveBack(m) PROVE R!IInv'
<1>1. CASE m \in job.had /\ kept[m] # R!Nothing
  <2>1. job' = [at |-> "reversing", next |-> job.next, staged |-> job.staged,
                swapped |-> job.swapped, left |-> job.swapped, held |-> job.held \ {m},
                had |-> job.had,
                wasUp |-> job.wasUp, started |-> job.started, undoing |-> job.undoing]
    BY <1>1, RestoreTyped DEF R!MoveBack, R!Goto, R!RollBack, R!NoJob, R!Jobs
  <2>2. restorePast' = restorePast
    BY <1>1 DEF R!MoveBack, R!files, R!vars
  <2>3. R!TypeOK'
    BY <1>1, <2>1, <2>2, SMTT(10)
    DEF R!IInv, R!TypeOK, R!MoveBack, R!At, R!Goto, R!RollBack, R!Steady, R!Mounts, R!Versions,
        R!Nothing, R!Torn, R!Contents
  <2>4. R!Records'
    <3>1. job' \in R!Jobs
      BY <1>1, <2>1, <2>2, RestoreTyped, RestoreNames
      DEF R!Jobs, R!Steps, R!Replacing, R!Replaced, R!Undoing
    <3>2. restorePast' \in R!Pasts
      BY <1>1, <2>1, <2>2, RestoreTyped, RestoreNames DEF R!Pasts
    <3>. QED BY <3>1, <3>2 DEF R!Records
  <2>5. R!JobInv'
    BY <1>1, <2>1, <2>2, SMTT(10)
    DEF R!IInv, R!JobInv, R!MoveBack, R!At, R!Goto, R!RollBack, R!Steady, R!NoJob, R!Replacing,
        R!Replaced
  <2>6. R!StageInv'
    BY <1>1, <2>1, <2>2, RestoreTyped, RestoreNames, SMTT(10)
    DEF R!IInv, R!StageInv, R!MoveBack, R!At, R!Goto, R!RollBack, R!Steady, R!Replacing, R!Jobs,
        R!Pasts
  <2>7. R!PlaceInv'
    BY <1>1, <2>1, <2>2, SMTT(10)
    DEF R!IInv, R!PlaceInv, R!MoveBack, R!At, R!Goto, R!RollBack, R!Steady, R!Moving,
        R!Waiting, R!Replaced,
        R!JobInv, R!Replacing
  <2>8. R!KeptInv'
    BY <1>1, <2>1, <2>2, RestoreTyped, RestoreNames, SMTT(10)
    DEF R!IInv, R!JobInv, R!KeptInv, R!MoveBack, R!At, R!Goto, R!RollBack, R!Steady, R!NoJob,
        R!Moving, R!Waiting, R!Replacing, R!Replaced, R!Jobs, R!Pasts
  <2>9. R!UndoInv'
    BY <1>1, <2>1, <2>2, RestoreTyped, RestoreNames, SMTT(10)
    DEF R!IInv, R!JobInv, R!UndoInv, R!MoveBack, R!At, R!Goto, R!RollBack, R!Steady, R!NoJob,
        R!Moving, R!Waiting, R!Was, R!Replacing, R!Replaced, R!Jobs, R!Pasts
  <2>10. R!OutputInv'
    BY <1>1, <2>1, <2>2, SMTT(10)
    DEF R!IInv, R!OutputInv, R!MoveBack, R!At, R!Goto, R!RollBack, R!Steady
  <2>11. R!DataSurvivesOneRestore'
    BY <1>1, <2>1, <2>2, RestoreTyped, RestoreNames, SMTT(10)
    DEF R!IInv, R!JobInv, R!StageInv, R!PlaceInv, R!DataSurvivesOneRestore, R!MoveBack,
        R!At, R!Goto, R!RollBack, R!Steady, R!NoJob, R!Moving, R!Waiting, R!Replacing,
        R!Replaced, R!Jobs,
        R!Pasts
  <2>. QED BY <2>3, <2>4, <2>5, <2>6, <2>7, <2>8, <2>9, <2>10, <2>11 DEF R!IInv
<1>2. CASE ~(m \in job.had /\ kept[m] # R!Nothing)
  <2>1. job' = [at |-> "reversing", next |-> job.next, staged |-> job.staged,
                swapped |-> job.swapped, left |-> job.swapped, held |-> job.held, had |-> job.had,
                wasUp |-> job.wasUp, started |-> job.started, undoing |-> job.undoing]
    BY <1>2, RestoreTyped DEF R!MoveBack, R!Goto, R!RollBack, R!NoJob, R!Jobs
  <2>2. restorePast' = restorePast
    BY <1>2 DEF R!MoveBack, R!files, R!vars
  <2>3. R!TypeOK'
    BY <1>2, <2>1, <2>2, SMTT(10)
    DEF R!IInv, R!TypeOK, R!MoveBack, R!At, R!Goto, R!RollBack, R!Steady
  <2>4. R!Records'
    <3>1. job' \in R!Jobs
      BY <1>2, <2>1, <2>2, RestoreTyped, RestoreNames
      DEF R!Jobs, R!Steps, R!Replacing, R!Replaced, R!Undoing
    <3>2. restorePast' \in R!Pasts
      BY <1>2, <2>1, <2>2, RestoreTyped, RestoreNames DEF R!Pasts
    <3>. QED BY <3>1, <3>2 DEF R!Records
  <2>5. R!JobInv'
    BY <1>2, <2>1, <2>2, SMTT(10)
    DEF R!IInv, R!JobInv, R!MoveBack, R!At, R!Goto, R!RollBack, R!Steady, R!NoJob, R!Replacing,
        R!Replaced
  <2>6. R!StageInv'
    BY <1>2, <2>1, <2>2, SMTT(10)
    DEF R!IInv, R!StageInv, R!MoveBack, R!At, R!Goto, R!RollBack, R!Steady, R!Replacing
  <2>7. R!PlaceInv'
    BY <1>2, <2>1, <2>2, SMTT(10)
    DEF R!IInv, R!PlaceInv, R!MoveBack, R!At, R!Goto, R!RollBack, R!Steady, R!Moving,
        R!Waiting, R!Replaced,
        R!JobInv, R!Replacing
  <2>8. R!KeptInv'
    BY <1>2, <2>1, <2>2, SMTT(10)
    DEF R!IInv, R!KeptInv, R!MoveBack, R!At, R!Goto, R!RollBack, R!Steady, R!Moving, R!Waiting
  <2>9. R!UndoInv'
    BY <1>2, <2>1, <2>2, SMTT(10)
    DEF R!IInv, R!JobInv, R!StageInv, R!PlaceInv, R!UndoInv, R!MoveBack, R!At, R!Goto, R!RollBack,
        R!Steady, R!NoJob, R!Moving, R!Waiting, R!Was, R!Replacing, R!Replaced
  <2>10. R!OutputInv'
    BY <1>2, <2>1, <2>2, SMTT(10)
    DEF R!IInv, R!OutputInv, R!MoveBack, R!At, R!Goto, R!RollBack, R!Steady
  <2>11. R!DataSurvivesOneRestore'
    BY <1>2, <2>1, <2>2, SMTT(10)
    DEF R!IInv, R!DataSurvivesOneRestore, R!MoveBack, R!At, R!Goto, R!RollBack, R!Steady
  <2>. QED BY <2>3, <2>4, <2>5, <2>6, <2>7, <2>8, <2>9, <2>10, <2>11 DEF R!IInv
<1>. QED BY <1>1, <1>2 DEF R!MoveBack

LEMMA Restore_MoveBackFails ==
  ASSUME R!RestoreAssumption, R!IInv, NEW m \in R!Mounts, R!MoveBackFails(m)
  PROVE  R!IInv'
<1>1. job' = [at |-> "reversing", next |-> job.next, staged |-> job.staged,
              swapped |-> job.swapped, left |-> job.swapped, held |-> job.held, had |-> job.had,
              wasUp |-> job.wasUp, started |-> job.started, undoing |-> job.undoing]
  BY RestoreTyped DEF R!MoveBackFails, R!Goto, R!RollBack, R!NoJob, R!Jobs
<1>2. restorePast' = [live |-> restorePast.live, absent |-> restorePast.absent,
                      up |-> restorePast.up, disturbed |-> TRUE,
                      discarded |-> restorePast.discarded, undone |-> restorePast.undone,
                      hostAhead |-> restorePast.hostAhead]
  BY RestoreTyped DEF R!MoveBackFails, R!Pasts, R!At
<1>3. R!TypeOK'
  BY <1>1, <1>2, RestoreTyped, RestoreNames, SMTT(10)
  DEF R!IInv, R!TypeOK, R!MoveBackFails, R!At, R!Goto, R!RollBack, R!Fault, R!Steady, R!Jobs,
      R!Pasts
<1>4. R!Records'
  <2>1. job' \in R!Jobs
    BY <1>1, <1>2, RestoreTyped, RestoreNames
    DEF R!Jobs, R!Steps, R!Replacing, R!Replaced, R!Undoing
  <2>2. restorePast' \in R!Pasts
    BY <1>1, <1>2, RestoreTyped, RestoreNames DEF R!Pasts
  <2>. QED BY <2>1, <2>2 DEF R!Records
<1>5. R!JobInv'
  BY <1>1, <1>2, SMTT(10)
  DEF R!IInv, R!JobInv, R!MoveBackFails, R!At, R!Goto, R!RollBack, R!Fault, R!Steady, R!NoJob,
      R!Replacing, R!Replaced
<1>6. R!StageInv'
  BY <1>1, <1>2, SMTT(10)
  DEF R!IInv, R!StageInv, R!MoveBackFails, R!At, R!Goto, R!RollBack, R!Fault, R!Steady, R!Replacing
<1>7. R!PlaceInv'
  BY <1>1, <1>2, SMTT(10)
  DEF R!IInv, R!PlaceInv, R!MoveBackFails, R!At, R!Goto, R!RollBack, R!Fault, R!Steady,
      R!Moving, R!Waiting,
      R!Replaced, R!JobInv, R!Replacing
<1>8. R!KeptInv'
  BY <1>1, <1>2, SMTT(10)
  DEF R!IInv, R!KeptInv, R!MoveBackFails, R!At, R!Goto, R!RollBack, R!Fault, R!Steady,
      R!Moving, R!Waiting
<1>9. R!UndoInv'
  BY <1>1, <1>2, SMTT(10)
  DEF R!IInv, R!UndoInv, R!MoveBackFails, R!At, R!Goto, R!RollBack, R!Fault, R!Steady,
      R!Moving, R!Waiting,
      R!Was
<1>10. R!OutputInv'
  BY <1>1, <1>2, SMTT(10)
  DEF R!IInv, R!OutputInv, R!MoveBackFails, R!At, R!Goto, R!RollBack, R!Fault, R!Steady
<1>11. R!DataSurvivesOneRestore'
  BY <1>1, <1>2, SMTT(10)
  DEF R!IInv, R!DataSurvivesOneRestore, R!MoveBackFails, R!At, R!Goto, R!RollBack, R!Fault,
      R!Steady
<1>. QED BY <1>3, <1>4, <1>5, <1>6, <1>7, <1>8, <1>9, <1>10, <1>11 DEF R!IInv

LEMMA Restore_Write ==
  ASSUME R!RestoreAssumption, R!IInv, R!Write PROVE R!IInv'
<1>1. CASE clone /\ R!Goto("committing")
  <2>1. job' = [at |-> "committing", next |-> job.next, staged |-> job.staged,
                swapped |-> job.swapped, left |-> job.left, held |-> job.held, had |-> job.had,
                wasUp |-> job.wasUp, started |-> job.started, undoing |-> job.undoing]
    BY <1>1, RestoreTyped DEF R!Write, R!Goto, R!NoJob, R!Jobs
  <2>2. restorePast' = restorePast
    BY <1>1 DEF R!Write, R!files, R!vars
  <2>3. R!TypeOK'
    BY <1>1, <2>1, <2>2, SMTT(10)
    DEF R!IInv, R!TypeOK, R!Write, R!At, R!Goto, R!Steady, R!Mounts, R!Versions,
        R!Nothing, R!Torn, R!Contents
  <2>4. R!Records'
    <3>1. job' \in R!Jobs
      BY <1>1, <2>1, <2>2, RestoreTyped, RestoreNames
      DEF R!Jobs, R!Steps, R!Replacing, R!Replaced, R!Undoing
    <3>2. restorePast' \in R!Pasts
      BY <1>1, <2>1, <2>2, RestoreTyped, RestoreNames DEF R!Pasts
    <3>. QED BY <3>1, <3>2 DEF R!Records
  <2>5. R!JobInv'
    BY <1>1, <2>1, <2>2, SMTT(10)
    DEF R!IInv, R!JobInv, R!Write, R!At, R!Goto, R!Steady, R!NoJob, R!Replacing,
        R!Replaced
  <2>6. R!StageInv'
    BY <1>1, <2>1, <2>2, SMTT(10)
    DEF R!IInv, R!StageInv, R!Write, R!At, R!Goto, R!Steady, R!Replacing
  <2>7. R!PlaceInv'
    BY <1>1, <2>1, <2>2, SMTT(10)
    DEF R!IInv, R!PlaceInv, R!Write, R!At, R!Goto, R!Steady, R!Moving, R!Waiting, R!Replaced,
        R!JobInv, R!Replacing
  <2>8. R!KeptInv'
    BY <1>1, <2>1, <2>2, SMTT(10)
    DEF R!IInv, R!KeptInv, R!Write, R!At, R!Goto, R!Steady, R!Moving, R!Waiting
  <2>9. R!UndoInv'
    BY <1>1, <2>1, <2>2, SMTT(10)
    DEF R!IInv, R!UndoInv, R!Write, R!At, R!Goto, R!Steady, R!Moving, R!Waiting, R!Was
  <2>10. R!OutputInv'
    BY <1>1, <2>1, <2>2, SMTT(10)
    DEF R!IInv, R!OutputInv, R!Write, R!At, R!Goto, R!Steady
  <2>11. R!DataSurvivesOneRestore'
    BY <1>1, <2>1, <2>2, SMTT(10)
    DEF R!IInv, R!DataSurvivesOneRestore, R!Write, R!At, R!Goto, R!Steady
  <2>. QED BY <2>3, <2>4, <2>5, <2>6, <2>7, <2>8, <2>9, <2>10, <2>11 DEF R!IInv
<1>2. CASE ~clone /\ R!Goto("converging")
  <2>1. job' = [at |-> "converging", next |-> job.next, staged |-> job.staged,
                swapped |-> job.swapped, left |-> job.left, held |-> job.held, had |-> job.had,
                wasUp |-> job.wasUp, started |-> job.started, undoing |-> job.undoing]
    BY <1>2, RestoreTyped DEF R!Write, R!Goto, R!NoJob, R!Jobs
  <2>2. restorePast' = restorePast
    BY <1>2 DEF R!Write, R!files, R!vars
  <2>3. R!TypeOK'
    BY <1>2, <2>1, <2>2, SMTT(10)
    DEF R!IInv, R!TypeOK, R!Write, R!At, R!Goto, R!Steady, R!Mounts, R!Versions,
        R!Nothing, R!Torn, R!Contents
  <2>4. R!Records'
    <3>1. job' \in R!Jobs
      BY <1>2, <2>1, <2>2, RestoreTyped, RestoreNames
      DEF R!Jobs, R!Steps, R!Replacing, R!Replaced, R!Undoing
    <3>2. restorePast' \in R!Pasts
      BY <1>2, <2>1, <2>2, RestoreTyped, RestoreNames DEF R!Pasts
    <3>. QED BY <3>1, <3>2 DEF R!Records
  <2>5. R!JobInv'
    BY <1>2, <2>1, <2>2, SMTT(10)
    DEF R!IInv, R!JobInv, R!Write, R!At, R!Goto, R!Steady, R!NoJob, R!Replacing,
        R!Replaced
  <2>6. R!StageInv'
    BY <1>2, <2>1, <2>2, SMTT(10)
    DEF R!IInv, R!StageInv, R!Write, R!At, R!Goto, R!Steady, R!Replacing
  <2>7. R!PlaceInv'
    BY <1>2, <2>1, <2>2, SMTT(10)
    DEF R!IInv, R!PlaceInv, R!Write, R!At, R!Goto, R!Steady, R!Moving, R!Waiting, R!Replaced,
        R!JobInv, R!Replacing
  <2>8. R!KeptInv'
    BY <1>2, <2>1, <2>2, SMTT(10)
    DEF R!IInv, R!KeptInv, R!Write, R!At, R!Goto, R!Steady, R!Moving, R!Waiting
  <2>9. R!UndoInv'
    BY <1>2, <2>1, <2>2, SMTT(10)
    DEF R!IInv, R!UndoInv, R!Write, R!At, R!Goto, R!Steady, R!Moving, R!Waiting, R!Was
  <2>10. R!OutputInv'
    BY <1>2, <2>1, <2>2, SMTT(10)
    DEF R!IInv, R!OutputInv, R!Write, R!At, R!Goto, R!Steady
  <2>11. R!DataSurvivesOneRestore'
    BY <1>2, <2>1, <2>2, SMTT(10)
    DEF R!IInv, R!DataSurvivesOneRestore, R!Write, R!At, R!Goto, R!Steady
  <2>. QED BY <2>3, <2>4, <2>5, <2>6, <2>7, <2>8, <2>9, <2>10, <2>11 DEF R!IInv
<1>3. CASE job.wasUp /\ R!Goto("starting")
  <2>1. job' = [at |-> "starting", next |-> job.next, staged |-> job.staged,
                swapped |-> job.swapped, left |-> job.left, held |-> job.held, had |-> job.had,
                wasUp |-> job.wasUp, started |-> job.started, undoing |-> job.undoing]
    BY <1>3, RestoreTyped DEF R!Write, R!Goto, R!NoJob, R!Jobs
  <2>2. restorePast' = restorePast
    BY <1>3 DEF R!Write, R!files, R!vars
  <2>3. R!TypeOK'
    BY <1>3, <2>1, <2>2, SMTT(10)
    DEF R!IInv, R!TypeOK, R!Write, R!At, R!Goto, R!Steady, R!Mounts, R!Versions,
        R!Nothing, R!Torn, R!Contents
  <2>4. R!Records'
    <3>1. job' \in R!Jobs
      BY <1>3, <2>1, <2>2, RestoreTyped, RestoreNames
      DEF R!Jobs, R!Steps, R!Replacing, R!Replaced, R!Undoing
    <3>2. restorePast' \in R!Pasts
      BY <1>3, <2>1, <2>2, RestoreTyped, RestoreNames DEF R!Pasts
    <3>. QED BY <3>1, <3>2 DEF R!Records
  <2>5. R!JobInv'
    BY <1>3, <2>1, <2>2, SMTT(10)
    DEF R!IInv, R!JobInv, R!Write, R!At, R!Goto, R!Steady, R!NoJob, R!Replacing,
        R!Replaced
  <2>6. R!StageInv'
    BY <1>3, <2>1, <2>2, SMTT(10)
    DEF R!IInv, R!StageInv, R!Write, R!At, R!Goto, R!Steady, R!Replacing
  <2>7. R!PlaceInv'
    BY <1>3, <2>1, <2>2, SMTT(10)
    DEF R!IInv, R!PlaceInv, R!Write, R!At, R!Goto, R!Steady, R!Moving, R!Waiting, R!Replaced,
        R!JobInv, R!Replacing
  <2>8. R!KeptInv'
    BY <1>3, <2>1, <2>2, SMTT(10)
    DEF R!IInv, R!KeptInv, R!Write, R!At, R!Goto, R!Steady, R!Moving, R!Waiting
  <2>9. R!UndoInv'
    BY <1>3, <2>1, <2>2, SMTT(10)
    DEF R!IInv, R!UndoInv, R!Write, R!At, R!Goto, R!Steady, R!Moving, R!Waiting, R!Was
  <2>10. R!OutputInv'
    BY <1>3, <2>1, <2>2, SMTT(10)
    DEF R!IInv, R!OutputInv, R!Write, R!At, R!Goto, R!Steady
  <2>11. R!DataSurvivesOneRestore'
    BY <1>3, <2>1, <2>2, SMTT(10)
    DEF R!IInv, R!DataSurvivesOneRestore, R!Write, R!At, R!Goto, R!Steady
  <2>. QED BY <2>3, <2>4, <2>5, <2>6, <2>7, <2>8, <2>9, <2>10, <2>11 DEF R!IInv
<1>. QED BY <1>1, <1>2, <1>3 DEF R!Write

LEMMA Restore_Start ==
  ASSUME R!RestoreAssumption, R!IInv, R!Start PROVE R!IInv'
<1>1. job' = [at |-> "converging", next |-> job.next, staged |-> job.staged,
              swapped |-> job.swapped, left |-> job.left, held |-> job.held, had |-> job.had,
              wasUp |-> job.wasUp, started |-> TRUE, undoing |-> job.undoing]
  BY RestoreTyped DEF R!Start, R!Goto, R!NoJob, R!Jobs
<1>2. restorePast' = restorePast
  BY RestoreTyped DEF R!Start, R!files, R!vars
<1>3. R!TypeOK'
  BY <1>1, <1>2, SMTT(10) DEF R!IInv, R!TypeOK, R!Start, R!At, R!Steady
<1>4. R!Records'
  <2>1. job' \in R!Jobs
    BY <1>1, <1>2, RestoreTyped, RestoreNames
    DEF R!Jobs, R!Steps, R!Replacing, R!Replaced, R!Undoing
  <2>2. restorePast' \in R!Pasts
    BY <1>1, <1>2, RestoreTyped, RestoreNames DEF R!Pasts
  <2>. QED BY <2>1, <2>2 DEF R!Records
<1>5. R!JobInv'
  BY <1>1, <1>2, SMTT(10)
  DEF R!IInv, R!JobInv, R!Start, R!At, R!Steady, R!NoJob, R!Replacing, R!Replaced
<1>6. R!StageInv'
  BY <1>1, <1>2, SMTT(10) DEF R!IInv, R!StageInv, R!Start, R!At, R!Steady, R!Replacing
<1>7. R!PlaceInv'
  BY <1>1, <1>2, SMTT(10)
  DEF R!IInv, R!PlaceInv, R!Start, R!At, R!Steady, R!Moving, R!Waiting, R!Replaced, R!JobInv,
      R!Replacing
<1>8. R!KeptInv'
  BY <1>1, <1>2, SMTT(10) DEF R!IInv, R!KeptInv, R!Start, R!At, R!Steady, R!Moving, R!Waiting
<1>9. R!UndoInv'
  BY <1>1, <1>2, SMTT(10)
  DEF R!IInv, R!UndoInv, R!Start, R!At, R!Steady, R!Moving, R!Waiting, R!Was
<1>10. R!OutputInv'
  BY <1>1, <1>2, SMTT(10) DEF R!IInv, R!OutputInv, R!Start, R!At, R!Steady
<1>11. R!DataSurvivesOneRestore'
  BY <1>1, <1>2, SMTT(10) DEF R!IInv, R!DataSurvivesOneRestore, R!Start, R!At, R!Steady
<1>. QED BY <1>3, <1>4, <1>5, <1>6, <1>7, <1>8, <1>9, <1>10, <1>11 DEF R!IInv

LEMMA Restore_Converge ==
  ASSUME R!RestoreAssumption, R!IInv, R!Converge PROVE R!IInv'
<1>1. job' = [at |-> "committing", next |-> job.next, staged |-> job.staged,
              swapped |-> job.swapped, left |-> job.left, held |-> job.held, had |-> job.had,
              wasUp |-> job.wasUp, started |-> job.started, undoing |-> job.undoing]
  BY RestoreTyped DEF R!Converge, R!Goto, R!NoJob, R!Jobs
<1>2. restorePast' = restorePast
  BY RestoreTyped DEF R!Converge, R!files, R!vars
<1>3. R!TypeOK'
  BY <1>1, <1>2, SMTT(10)
  DEF R!IInv, R!TypeOK, R!Converge, R!At, R!Goto, R!Steady, R!Mounts, R!Versions,
      R!Nothing, R!Torn, R!Contents
<1>4. R!Records'
  <2>1. job' \in R!Jobs
    BY <1>1, <1>2, RestoreTyped, RestoreNames
    DEF R!Jobs, R!Steps, R!Replacing, R!Replaced, R!Undoing
  <2>2. restorePast' \in R!Pasts
    BY <1>1, <1>2, RestoreTyped, RestoreNames DEF R!Pasts
  <2>. QED BY <2>1, <2>2 DEF R!Records
<1>5. R!JobInv'
  BY <1>1, <1>2, SMTT(10)
  DEF R!IInv, R!JobInv, R!Converge, R!At, R!Goto, R!Steady, R!NoJob, R!Replacing,
      R!Replaced
<1>6. R!StageInv'
  BY <1>1, <1>2, SMTT(10)
  DEF R!IInv, R!StageInv, R!Converge, R!At, R!Goto, R!Steady, R!Replacing
<1>7. R!PlaceInv'
  BY <1>1, <1>2, SMTT(10)
  DEF R!IInv, R!PlaceInv, R!Converge, R!At, R!Goto, R!Steady, R!Moving, R!Waiting, R!Replaced,
      R!JobInv, R!Replacing
<1>8. R!KeptInv'
  BY <1>1, <1>2, SMTT(10)
  DEF R!IInv, R!KeptInv, R!Converge, R!At, R!Goto, R!Steady, R!Moving, R!Waiting
<1>9. R!UndoInv'
  BY <1>1, <1>2, SMTT(10)
  DEF R!IInv, R!UndoInv, R!Converge, R!At, R!Goto, R!Steady, R!Moving, R!Waiting, R!Was
<1>10. R!OutputInv'
  BY <1>1, <1>2, SMTT(10) DEF R!IInv, R!OutputInv, R!Converge, R!At, R!Goto, R!Steady
<1>11. R!DataSurvivesOneRestore'
  BY <1>1, <1>2, SMTT(10)
  DEF R!IInv, R!DataSurvivesOneRestore, R!Converge, R!At, R!Goto, R!Steady
<1>. QED BY <1>3, <1>4, <1>5, <1>6, <1>7, <1>8, <1>9, <1>10, <1>11 DEF R!IInv

LEMMA Restore_ConvergeFails ==
  ASSUME R!RestoreAssumption, R!IInv, R!ConvergeFails PROVE R!IInv'
<1>1. job' = [at |-> "failing", next |-> job.next, staged |-> job.staged,
              swapped |-> job.swapped, left |-> job.left, held |-> job.held, had |-> job.had,
              wasUp |-> job.wasUp, started |-> job.started, undoing |-> job.undoing]
  BY RestoreTyped DEF R!ConvergeFails, R!Goto, R!NoJob, R!Jobs
<1>2. restorePast' = [live |-> restorePast.live, absent |-> restorePast.absent,
                      up |-> restorePast.up, disturbed |-> restorePast.disturbed,
                      discarded |-> restorePast.discarded, undone |-> restorePast.undone,
                      hostAhead |-> host' # db]
  BY RestoreTyped DEF R!ConvergeFails, R!Pasts
<1>3. R!TypeOK'
  BY <1>1, <1>2, RestoreTyped, RestoreNames, SMTT(10)
  DEF R!IInv, R!TypeOK, R!ConvergeFails, R!At, R!Goto, R!Fault, R!Steady, R!Jobs, R!Pasts
<1>4. R!Records'
  <2>1. job' \in R!Jobs
    BY <1>1, <1>2, RestoreTyped, RestoreNames
    DEF R!Jobs, R!Steps, R!Replacing, R!Replaced, R!Undoing
  <2>2. restorePast' \in R!Pasts
    BY <1>1, <1>2, RestoreTyped, RestoreNames DEF R!Pasts
  <2>. QED BY <2>1, <2>2 DEF R!Records
<1>5. R!JobInv'
  BY <1>1, <1>2, SMTT(10)
  DEF R!IInv, R!JobInv, R!ConvergeFails, R!At, R!Goto, R!Fault, R!Steady, R!NoJob,
      R!Replacing, R!Replaced
<1>6. R!StageInv'
  BY <1>1, <1>2, SMTT(10)
  DEF R!IInv, R!StageInv, R!ConvergeFails, R!At, R!Goto, R!Fault, R!Steady, R!Replacing
<1>7. R!PlaceInv'
  BY <1>1, <1>2, SMTT(10)
  DEF R!IInv, R!PlaceInv, R!ConvergeFails, R!At, R!Goto, R!Fault, R!Steady, R!Moving, R!Waiting,
      R!Replaced, R!JobInv, R!Replacing
<1>8. R!KeptInv'
  BY <1>1, <1>2, SMTT(10)
  DEF R!IInv, R!KeptInv, R!ConvergeFails, R!At, R!Goto, R!Fault, R!Steady, R!Moving, R!Waiting
<1>9. R!UndoInv'
  BY <1>1, <1>2, SMTT(10)
  DEF R!IInv, R!UndoInv, R!ConvergeFails, R!At, R!Goto, R!Fault, R!Steady, R!Moving, R!Waiting,
      R!Was
<1>10. R!OutputInv'
  <2>1. clone' = clone /\ up' = up /\ assets' = assets /\ db' = db /\ jobs' = jobs
    BY DEF R!ConvergeFails, R!Steady
  <2>2. /\ job'.at = "failing" /\ job'.wasUp = job.wasUp
        /\ restorePast'.up = restorePast.up
        /\ restorePast'.disturbed = restorePast.disturbed
    BY <1>1, <1>2
  <2>3. restorePast'.hostAhead \/ host' = db
    BY <1>2
  <2>4. job.at = "converging"
    BY DEF R!ConvergeFails, R!At
  <2>. QED BY <2>1, <2>2, <2>3, <2>4 DEF R!IInv, R!OutputInv, R!At
<1>11. R!DataSurvivesOneRestore'
  BY <1>1, <1>2, SMTT(10)
  DEF R!IInv, R!DataSurvivesOneRestore, R!ConvergeFails, R!At, R!Goto, R!Fault, R!Steady
<1>. QED BY <1>3, <1>4, <1>5, <1>6, <1>7, <1>8, <1>9, <1>10, <1>11 DEF R!IInv

LEMMA Restore_Commit ==
  ASSUME R!RestoreAssumption, R!IInv, R!Commit PROVE R!IInv'
<1>1. job' = [at |-> "committed", next |-> job.next, staged |-> job.staged,
              swapped |-> job.swapped, left |-> job.left, held |-> job.held, had |-> job.had,
              wasUp |-> job.wasUp, started |-> job.started, undoing |-> job.undoing]
  BY RestoreTyped DEF R!Commit, R!Goto, R!NoJob, R!Jobs
<1>2. restorePast' = [live |-> restorePast.live, absent |-> {},
                      up |-> IF clone THEN restorePast.up ELSE up, disturbed |-> FALSE,
                      discarded |-> restorePast.discarded, undone |-> restorePast.undone,
                      hostAhead |-> FALSE]
  BY RestoreTyped DEF R!Commit, R!Pasts, R!At
<1>3. R!TypeOK'
  BY <1>1, <1>2, SMTT(10)
  DEF R!IInv, R!TypeOK, R!Commit, R!At, R!Goto, R!Steady, R!Mounts, R!Versions,
      R!Nothing, R!Torn, R!Contents
<1>4. R!Records'
  <2>1. job' \in R!Jobs
    BY <1>1, <1>2, RestoreTyped, RestoreNames
    DEF R!Jobs, R!Steps, R!Replacing, R!Replaced, R!Undoing
  <2>2. restorePast' \in R!Pasts
    BY <1>1, <1>2, RestoreTyped, RestoreNames DEF R!Pasts
  <2>. QED BY <2>1, <2>2 DEF R!Records
<1>5. R!JobInv'
  BY <1>1, <1>2, SMTT(10)
  DEF R!IInv, R!JobInv, R!Commit, R!At, R!Goto, R!Steady, R!NoJob, R!Replacing,
      R!Replaced
<1>6. R!StageInv'
  BY <1>1, <1>2, SMTT(10)
  DEF R!IInv, R!StageInv, R!Commit, R!At, R!Goto, R!Steady, R!Replacing
<1>7. R!PlaceInv'
  BY <1>1, <1>2, SMTT(10)
  DEF R!IInv, R!PlaceInv, R!Commit, R!At, R!Goto, R!Steady, R!Moving, R!Waiting, R!Replaced,
      R!JobInv, R!Replacing
<1>8. R!KeptInv'
  BY <1>1, <1>2, SMTT(10)
  DEF R!IInv, R!KeptInv, R!Commit, R!At, R!Goto, R!Steady, R!Moving, R!Waiting
<1>9. R!UndoInv'
  BY <1>1, <1>2, SMTT(10)
  DEF R!IInv, R!JobInv, R!StageInv, R!PlaceInv, R!UndoInv, R!Commit, R!At, R!Goto,
      R!Steady, R!NoJob, R!Moving, R!Waiting, R!Was, R!Replacing, R!Replaced
<1>10. R!OutputInv'
  BY <1>1, <1>2, SMTT(10) DEF R!IInv, R!OutputInv, R!Commit, R!At, R!Goto, R!Steady
<1>11. R!DataSurvivesOneRestore'
  BY <1>1, <1>2, SMTT(10)
  DEF R!IInv, R!DataSurvivesOneRestore, R!Commit, R!At, R!Goto, R!Steady
<1>. QED BY <1>3, <1>4, <1>5, <1>6, <1>7, <1>8, <1>9, <1>10, <1>11 DEF R!IInv

LEMMA Restore_Settle ==
  ASSUME R!RestoreAssumption, R!IInv, R!Settle PROVE R!IInv'
<1>1. job' = [at |-> "reporting", next |-> job.next, staged |-> {}, swapped |-> {},
              left |-> {}, held |-> {}, had |-> job.had, wasUp |-> job.wasUp,
              started |-> job.started, undoing |-> job.undoing]
  BY RestoreTyped DEF R!Settle, R!Goto, R!NoJob, R!Jobs
<1>2. restorePast' = [live |-> [m \in R!Mounts |-> jobs],
                      absent |-> restorePast.absent, up |-> restorePast.up,
                      disturbed |-> restorePast.disturbed,
                      discarded |-> restorePast.discarded, undone |-> {},
                      hostAhead |-> restorePast.hostAhead]
  BY RestoreTyped DEF R!Settle, R!Pasts, R!At
<1>3. R!TypeOK'
  BY <1>1, <1>2, RestoreTyped, RestoreNames, SMTT(10)
  DEF R!IInv, R!TypeOK, R!Settle, R!At, R!Steady, R!Jobs, R!Pasts
<1>4. R!Records'
  <2>1. job' \in R!Jobs
    BY <1>1, <1>2, RestoreTyped, RestoreNames
    DEF R!Jobs, R!Steps, R!Replacing, R!Replaced, R!Undoing
  <2>2. restorePast' \in R!Pasts
    BY <1>1, <1>2, RestoreTyped, RestoreNames DEF R!Pasts
  <2>. QED BY <2>1, <2>2 DEF R!Records
<1>5. R!JobInv'
  BY <1>1, <1>2, SMTT(10)
  DEF R!IInv, R!JobInv, R!Settle, R!At, R!Steady, R!NoJob, R!Replacing, R!Replaced
<1>6. R!StageInv'
  BY <1>1, <1>2, SMTT(10) DEF R!IInv, R!StageInv, R!Settle, R!At, R!Steady, R!Replacing
<1>7. R!PlaceInv'
  BY <1>1, <1>2, SMTT(10)
  DEF R!IInv, R!PlaceInv, R!Settle, R!At, R!Steady, R!Moving, R!Waiting, R!Replaced, R!JobInv,
      R!Replacing
<1>8. R!KeptInv'
  BY <1>1, <1>2, SMTT(10) DEF R!IInv, R!KeptInv, R!Settle, R!At, R!Steady, R!Moving, R!Waiting
<1>9. R!UndoInv'
  BY <1>1, <1>2, SMTT(10)
  DEF R!IInv, R!UndoInv, R!Settle, R!At, R!Steady, R!Moving, R!Waiting, R!Was
<1>10. R!OutputInv'
  BY <1>1, <1>2, SMTT(10) DEF R!IInv, R!OutputInv, R!Settle, R!At, R!Steady
<1>11. R!DataSurvivesOneRestore'
  BY <1>1, <1>2, SMTT(10)
  DEF R!IInv, R!JobInv, R!StageInv, R!PlaceInv, R!DataSurvivesOneRestore, R!Settle,
      R!At, R!Steady, R!NoJob, R!Moving, R!Waiting, R!Replacing, R!Replaced
<1>. QED BY <1>3, <1>4, <1>5, <1>6, <1>7, <1>8, <1>9, <1>10, <1>11 DEF R!IInv

LEMMA Restore_Report ==
  ASSUME R!RestoreAssumption, R!IInv, R!Report PROVE R!IInv'
<1>1. job' = [at |-> "idle", next |-> 1, staged |-> {}, swapped |-> {}, left |-> {}, held |-> {},
              had |-> {}, wasUp |-> FALSE, started |-> FALSE, undoing |-> FALSE]
  BY RestoreTyped DEF R!Report, R!Goto, R!NoJob, R!Jobs
<1>2. restorePast' = restorePast
  BY RestoreTyped DEF R!Report, R!files, R!vars
<1>3. R!TypeOK'
  BY <1>1, <1>2, RestoreTyped, RestoreNames, SMTT(10)
  DEF R!IInv, R!TypeOK, R!Report, R!At, R!Steady, R!NoJob, R!Jobs, R!Pasts
<1>4. R!Records'
  <2>1. job' \in R!Jobs
    BY <1>1, <1>2, RestoreTyped, RestoreNames
    DEF R!Jobs, R!Steps, R!Replacing, R!Replaced, R!Undoing
  <2>2. restorePast' \in R!Pasts
    BY <1>1, <1>2, RestoreTyped, RestoreNames DEF R!Pasts
  <2>. QED BY <2>1, <2>2 DEF R!Records
<1>5. R!JobInv'
  BY <1>1, <1>2, SMTT(10)
  DEF R!IInv, R!JobInv, R!Report, R!At, R!Steady, R!NoJob, R!Replacing, R!Replaced
<1>6. R!StageInv'
  BY <1>1, <1>2, SMTT(10)
  DEF R!IInv, R!StageInv, R!Report, R!At, R!Steady, R!NoJob, R!Replacing
<1>7. R!PlaceInv'
  BY <1>1, <1>2, SMTT(10)
  DEF R!IInv, R!PlaceInv, R!Report, R!At, R!Steady, R!NoJob, R!Moving, R!Waiting, R!Replaced,
      R!JobInv, R!Replacing
<1>8. R!KeptInv'
  BY <1>1, <1>2, SMTT(10)
  DEF R!IInv, R!KeptInv, R!Report, R!At, R!Steady, R!NoJob, R!Moving, R!Waiting
<1>9. R!UndoInv'
  BY <1>1, <1>2, SMTT(10)
  DEF R!IInv, R!UndoInv, R!Report, R!At, R!Steady, R!NoJob, R!Moving, R!Waiting, R!Was
<1>10. R!OutputInv'
  BY <1>1, <1>2, SMTT(10) DEF R!IInv, R!OutputInv, R!Report, R!At, R!Steady, R!NoJob
<1>11. R!DataSurvivesOneRestore'
  BY <1>1, <1>2, SMTT(10)
  DEF R!IInv, R!DataSurvivesOneRestore, R!Report, R!At, R!Steady, R!NoJob
<1>. QED BY <1>3, <1>4, <1>5, <1>6, <1>7, <1>8, <1>9, <1>10, <1>11 DEF R!IInv

LEMMA Restore_Fails ==
  ASSUME R!RestoreAssumption, R!IInv, R!Fails PROVE R!IInv'
<1>1. CASE /\ job.at \in {"staging", "away"} /\ R!RollBack
           /\ UNCHANGED restorePast
  <2>1. job' = [at |-> "reversing", next |-> job.next, staged |-> job.staged,
                swapped |-> job.swapped, left |-> job.swapped, held |-> job.held, had |-> job.had,
                wasUp |-> job.wasUp, started |-> job.started, undoing |-> job.undoing]
    BY <1>1, RestoreTyped DEF R!RollBack, R!Jobs
  <2>2. restorePast' = restorePast
    BY <1>1 DEF R!Fails, R!files, R!vars
  <2>3. R!TypeOK'
    BY <1>1, <2>1, <2>2, RestoreTyped, RestoreNames, SMTT(10)
    DEF R!IInv, R!TypeOK, R!Fails, R!At, R!Goto, R!RollBack, R!Fault, R!Steady, R!Jobs, R!Pasts
  <2>4. R!Records'
    <3>1. job' \in R!Jobs
      BY <1>1, <2>1, <2>2, RestoreTyped, RestoreNames
      DEF R!Jobs, R!Steps, R!Replacing, R!Replaced, R!Undoing
    <3>2. restorePast' \in R!Pasts
      BY <1>1, <2>1, <2>2, RestoreTyped, RestoreNames DEF R!Pasts
    <3>. QED BY <3>1, <3>2 DEF R!Records
  <2>5. R!JobInv'
    BY <1>1, <2>1, <2>2, SMTT(10)
    DEF R!IInv, R!JobInv, R!Fails, R!At, R!Goto, R!RollBack, R!Fault, R!Steady, R!NoJob,
        R!Replacing, R!Replaced
  <2>6. R!StageInv'
    BY <1>1, <2>1, <2>2, SMTT(10)
    DEF R!IInv, R!StageInv, R!Fails, R!At, R!Goto, R!RollBack, R!Fault, R!Steady, R!Replacing
  <2>7. R!PlaceInv'
    BY <1>1, <2>1, <2>2, SMTT(10)
    DEF R!IInv, R!PlaceInv, R!Fails, R!At, R!Goto, R!RollBack, R!Fault, R!Steady, R!Moving,
        R!Waiting,
        R!Replaced, R!JobInv, R!Replacing
  <2>8. R!KeptInv'
    BY <1>1, <2>1, <2>2, SMTT(10)
    DEF R!IInv, R!KeptInv, R!Fails, R!At, R!Goto, R!RollBack, R!Fault, R!Steady, R!Moving, R!Waiting
  <2>9. R!UndoInv'
    BY <1>1, <2>1, <2>2, SMTT(10)
    DEF R!IInv, R!UndoInv, R!Fails, R!At, R!Goto, R!RollBack, R!Fault, R!Steady, R!Moving,
        R!Waiting, R!Was
  <2>10. R!OutputInv'
    BY <1>1, <2>1, <2>2, SMTT(10)
    DEF R!IInv, R!OutputInv, R!Fails, R!At, R!Goto, R!RollBack, R!Fault, R!Steady
  <2>11. R!DataSurvivesOneRestore'
    BY <1>1, <2>1, <2>2, SMTT(10)
    DEF R!IInv, R!DataSurvivesOneRestore, R!Fails, R!At, R!Goto, R!RollBack, R!Fault, R!Steady
  <2>. QED BY <2>3, <2>4, <2>5, <2>6, <2>7, <2>8, <2>9, <2>10, <2>11 DEF R!IInv
<1>2. CASE /\ job.at \in {"stopping", "writing", "starting"}
           /\ R!Goto("failing") /\ UNCHANGED restorePast
  <2>1. job' = [at |-> "failing", next |-> job.next, staged |-> job.staged,
                swapped |-> job.swapped, left |-> job.left, held |-> job.held, had |-> job.had,
                wasUp |-> job.wasUp, started |-> job.started, undoing |-> job.undoing]
    BY <1>2, RestoreTyped DEF R!Fails, R!Goto, R!RollBack, R!NoJob, R!Jobs
  <2>2. restorePast' = restorePast
    BY <1>2 DEF R!Fails, R!files, R!vars
  <2>3. R!TypeOK'
    BY <1>2, <2>1, <2>2, RestoreTyped, RestoreNames, SMTT(10)
    DEF R!IInv, R!TypeOK, R!Fails, R!At, R!Goto, R!RollBack, R!Fault, R!Steady, R!Jobs, R!Pasts
  <2>4. R!Records'
    <3>1. job' \in R!Jobs
      BY <1>2, <2>1, <2>2, RestoreTyped, RestoreNames
      DEF R!Jobs, R!Steps, R!Replacing, R!Replaced, R!Undoing
    <3>2. restorePast' \in R!Pasts
      BY <1>2, <2>1, <2>2, RestoreTyped, RestoreNames DEF R!Pasts
    <3>. QED BY <3>1, <3>2 DEF R!Records
  <2>5. R!JobInv'
    BY <1>2, <2>1, <2>2, SMTT(10)
    DEF R!IInv, R!JobInv, R!Fails, R!At, R!Goto, R!RollBack, R!Fault, R!Steady, R!NoJob,
        R!Replacing, R!Replaced
  <2>6. R!StageInv'
    BY <1>2, <2>1, <2>2, SMTT(10)
    DEF R!IInv, R!StageInv, R!Fails, R!At, R!Goto, R!RollBack, R!Fault, R!Steady, R!Replacing
  <2>7. R!PlaceInv'
    BY <1>2, <2>1, <2>2, SMTT(10)
    DEF R!IInv, R!PlaceInv, R!Fails, R!At, R!Goto, R!RollBack, R!Fault, R!Steady, R!Moving,
        R!Waiting,
        R!Replaced, R!JobInv, R!Replacing
  <2>8. R!KeptInv'
    BY <1>2, <2>1, <2>2, SMTT(10)
    DEF R!IInv, R!KeptInv, R!Fails, R!At, R!Goto, R!RollBack, R!Fault, R!Steady, R!Moving, R!Waiting
  <2>9. R!UndoInv'
    BY <1>2, <2>1, <2>2, SMTT(10)
    DEF R!IInv, R!UndoInv, R!Fails, R!At, R!Goto, R!RollBack, R!Fault, R!Steady, R!Moving,
        R!Waiting, R!Was
  <2>10. R!OutputInv'
    BY <1>2, <2>1, <2>2, SMTT(10)
    DEF R!IInv, R!JobInv, R!OutputInv, R!Fails, R!At, R!Goto, R!RollBack, R!Fault, R!Steady,
        R!NoJob, R!Replacing, R!Replaced
  <2>11. R!DataSurvivesOneRestore'
    BY <1>2, <2>1, <2>2, SMTT(10)
    DEF R!IInv, R!DataSurvivesOneRestore, R!Fails, R!At, R!Goto, R!RollBack, R!Fault, R!Steady
  <2>. QED BY <2>3, <2>4, <2>5, <2>6, <2>7, <2>8, <2>9, <2>10, <2>11 DEF R!IInv
<1>3. CASE R!At("reporting") /\ ~clone /\ R!Goto("failing") /\ UNCHANGED restorePast
  <2>1. job' = [at |-> "failing", next |-> job.next, staged |-> job.staged,
                swapped |-> job.swapped, left |-> job.left, held |-> job.held, had |-> job.had,
                wasUp |-> job.wasUp, started |-> job.started, undoing |-> job.undoing]
    BY <1>3, RestoreTyped DEF R!Fails, R!Goto, R!RollBack, R!NoJob, R!Jobs
  <2>2. restorePast' = restorePast
    BY <1>3 DEF R!Fails, R!files, R!vars
  <2>3. R!TypeOK'
    BY <1>3, <2>1, <2>2, RestoreTyped, RestoreNames, SMTT(10)
    DEF R!IInv, R!TypeOK, R!Fails, R!At, R!Goto, R!RollBack, R!Fault, R!Steady, R!Jobs, R!Pasts
  <2>4. R!Records'
    <3>1. job' \in R!Jobs
      BY <1>3, <2>1, <2>2, RestoreTyped, RestoreNames
      DEF R!Jobs, R!Steps, R!Replacing, R!Replaced, R!Undoing
    <3>2. restorePast' \in R!Pasts
      BY <1>3, <2>1, <2>2, RestoreTyped, RestoreNames DEF R!Pasts
    <3>. QED BY <3>1, <3>2 DEF R!Records
  <2>5. R!JobInv'
    BY <1>3, <2>1, <2>2, SMTT(10)
    DEF R!IInv, R!JobInv, R!Fails, R!At, R!Goto, R!RollBack, R!Fault, R!Steady, R!NoJob,
        R!Replacing, R!Replaced
  <2>6. R!StageInv'
    BY <1>3, <2>1, <2>2, SMTT(10)
    DEF R!IInv, R!StageInv, R!Fails, R!At, R!Goto, R!RollBack, R!Fault, R!Steady, R!Replacing
  <2>7. R!PlaceInv'
    BY <1>3, <2>1, <2>2, SMTT(10)
    DEF R!IInv, R!PlaceInv, R!Fails, R!At, R!Goto, R!RollBack, R!Fault, R!Steady, R!Moving,
        R!Waiting,
        R!Replaced, R!JobInv, R!Replacing
  <2>8. R!KeptInv'
    BY <1>3, <2>1, <2>2, SMTT(10)
    DEF R!IInv, R!KeptInv, R!Fails, R!At, R!Goto, R!RollBack, R!Fault, R!Steady, R!Moving, R!Waiting
  <2>9. R!UndoInv'
    BY <1>3, <2>1, <2>2, SMTT(10)
    DEF R!IInv, R!TypeOK, R!JobInv, R!UndoInv, R!Fails, R!At, R!Goto, R!RollBack, R!Fault,
        R!Steady, R!NoJob, R!Moving, R!Waiting, R!Was, R!Replacing, R!Replaced
  <2>10. R!OutputInv'
    BY <1>3, <2>1, <2>2, SMTT(10)
    DEF R!IInv, R!OutputInv, R!Fails, R!At, R!Goto, R!RollBack, R!Fault, R!Steady
  <2>11. R!DataSurvivesOneRestore'
    BY <1>3, <2>1, <2>2, SMTT(10)
    DEF R!IInv, R!DataSurvivesOneRestore, R!Fails, R!At, R!Goto, R!RollBack, R!Fault, R!Steady
  <2>. QED BY <2>3, <2>4, <2>5, <2>6, <2>7, <2>8, <2>9, <2>10, <2>11 DEF R!IInv
<1>4. CASE /\ R!At("committing") /\ R!Goto("failing")
           /\ restorePast' = [restorePast EXCEPT !.hostAhead = (host # db)]
  <2>1. job' = [at |-> "failing", next |-> job.next, staged |-> job.staged,
                swapped |-> job.swapped, left |-> job.left, held |-> job.held, had |-> job.had,
                wasUp |-> job.wasUp, started |-> job.started, undoing |-> job.undoing]
    BY <1>4, RestoreTyped DEF R!Fails, R!Goto, R!RollBack, R!NoJob, R!Jobs
  <2>2. restorePast' = [live |-> restorePast.live, absent |-> restorePast.absent,
                        up |-> restorePast.up, disturbed |-> restorePast.disturbed,
                        discarded |-> restorePast.discarded, undone |-> restorePast.undone,
                        hostAhead |-> host # db]
    BY <1>4, RestoreTyped DEF R!Fails, R!Pasts, R!At
  <2>3. R!TypeOK'
    BY <1>4, <2>1, <2>2, RestoreTyped, RestoreNames, SMTT(10)
    DEF R!IInv, R!TypeOK, R!Fails, R!At, R!Goto, R!RollBack, R!Fault, R!Steady, R!Jobs, R!Pasts
  <2>4. R!Records'
    <3>1. job' \in R!Jobs
      BY <1>4, <2>1, <2>2, RestoreTyped, RestoreNames
      DEF R!Jobs, R!Steps, R!Replacing, R!Replaced, R!Undoing
    <3>2. restorePast' \in R!Pasts
      BY <1>4, <2>1, <2>2, RestoreTyped, RestoreNames DEF R!Pasts
    <3>. QED BY <3>1, <3>2 DEF R!Records
  <2>5. R!JobInv'
    BY <1>4, <2>1, <2>2, SMTT(10)
    DEF R!IInv, R!JobInv, R!Fails, R!At, R!Goto, R!RollBack, R!Fault, R!Steady, R!NoJob,
        R!Replacing, R!Replaced
  <2>6. R!StageInv'
    BY <1>4, <2>1, <2>2, SMTT(10)
    DEF R!IInv, R!StageInv, R!Fails, R!At, R!Goto, R!RollBack, R!Fault, R!Steady, R!Replacing
  <2>7. R!PlaceInv'
    BY <1>4, <2>1, <2>2, SMTT(10)
    DEF R!IInv, R!PlaceInv, R!Fails, R!At, R!Goto, R!RollBack, R!Fault, R!Steady, R!Moving,
        R!Waiting,
        R!Replaced, R!JobInv, R!Replacing
  <2>8. R!KeptInv'
    BY <1>4, <2>1, <2>2, SMTT(10)
    DEF R!IInv, R!KeptInv, R!Fails, R!At, R!Goto, R!RollBack, R!Fault, R!Steady, R!Moving, R!Waiting
  <2>9. R!UndoInv'
    BY <1>4, <2>1, <2>2, SMTT(10)
    DEF R!IInv, R!UndoInv, R!Fails, R!At, R!Goto, R!RollBack, R!Fault, R!Steady, R!Moving,
        R!Waiting, R!Was
  <2>10. R!OutputInv'
    <3>1. /\ job.at = "committing" /\ job'.at = "failing"
          /\ restorePast'.hostAhead = (host # db)
         /\ restorePast'.up = restorePast.up
         /\ restorePast'.disturbed = restorePast.disturbed /\ job'.wasUp = job.wasUp
      BY <1>4, <2>1, <2>2 DEF R!At
    <3>2. clone' = clone /\ assets' = assets /\ host' = host /\ db' = db /\ up' = up
      BY <1>4, <2>1, <2>2, <3>1 DEF R!Fails, R!Steady
    <3>. QED BY <3>1, <3>2 DEF R!IInv, R!OutputInv, R!At
  <2>11. R!DataSurvivesOneRestore'
    BY <1>4, <2>1, <2>2, SMTT(10)
    DEF R!IInv, R!DataSurvivesOneRestore, R!Fails, R!At, R!Goto, R!RollBack, R!Fault, R!Steady
  <2>. QED BY <2>3, <2>4, <2>5, <2>6, <2>7, <2>8, <2>9, <2>10, <2>11 DEF R!IInv
<1>5. CASE /\ R!At("committed") /\ R!Goto("failing")
           /\ restorePast' = [restorePast EXCEPT !.disturbed = TRUE]
  <2>1. job' = [at |-> "failing", next |-> job.next, staged |-> job.staged,
                swapped |-> job.swapped, left |-> job.left, held |-> job.held, had |-> job.had,
                wasUp |-> job.wasUp, started |-> job.started, undoing |-> job.undoing]
    BY <1>5, RestoreTyped DEF R!Fails, R!Goto, R!RollBack, R!NoJob, R!Jobs
  <2>2. restorePast' = [live |-> restorePast.live, absent |-> restorePast.absent,
                        up |-> restorePast.up, disturbed |-> TRUE,
                        discarded |-> restorePast.discarded, undone |-> restorePast.undone,
                        hostAhead |-> restorePast.hostAhead]
    BY <1>5, RestoreTyped DEF R!Fails, R!Pasts, R!At
  <2>3. R!TypeOK'
    BY <1>5, <2>1, <2>2, RestoreTyped, RestoreNames, SMTT(10)
    DEF R!IInv, R!TypeOK, R!Fails, R!At, R!Goto, R!RollBack, R!Fault, R!Steady, R!Jobs, R!Pasts
  <2>4. R!Records'
    <3>1. job' \in R!Jobs
      BY <1>5, <2>1, <2>2, RestoreTyped, RestoreNames
      DEF R!Jobs, R!Steps, R!Replacing, R!Replaced, R!Undoing
    <3>2. restorePast' \in R!Pasts
      BY <1>5, <2>1, <2>2, RestoreTyped, RestoreNames DEF R!Pasts
    <3>. QED BY <3>1, <3>2 DEF R!Records
  <2>5. R!JobInv'
    BY <1>5, <2>1, <2>2, SMTT(10)
    DEF R!IInv, R!JobInv, R!Fails, R!At, R!Goto, R!RollBack, R!Fault, R!Steady, R!NoJob,
        R!Replacing, R!Replaced
  <2>6. R!StageInv'
    BY <1>5, <2>1, <2>2, SMTT(10)
    DEF R!IInv, R!StageInv, R!Fails, R!At, R!Goto, R!RollBack, R!Fault, R!Steady, R!Replacing
  <2>7. R!PlaceInv'
    BY <1>5, <2>1, <2>2, SMTT(10)
    DEF R!IInv, R!PlaceInv, R!Fails, R!At, R!Goto, R!RollBack, R!Fault, R!Steady, R!Moving,
        R!Waiting,
        R!Replaced, R!JobInv, R!Replacing
  <2>8. R!KeptInv'
    BY <1>5, <2>1, <2>2, SMTT(10)
    DEF R!IInv, R!KeptInv, R!Fails, R!At, R!Goto, R!RollBack, R!Fault, R!Steady, R!Moving, R!Waiting
  <2>9. R!UndoInv'
    BY <1>5, <2>1, <2>2, SMTT(10)
    DEF R!IInv, R!UndoInv, R!Fails, R!At, R!Goto, R!RollBack, R!Fault, R!Steady, R!Moving,
        R!Waiting, R!Was
  <2>10. R!OutputInv'
    BY <1>5, <2>1, <2>2, SMTT(10)
    DEF R!IInv, R!OutputInv, R!Fails, R!At, R!Goto, R!RollBack, R!Fault, R!Steady
  <2>11. R!DataSurvivesOneRestore'
    BY <1>5, <2>1, <2>2, SMTT(10)
    DEF R!IInv, R!DataSurvivesOneRestore, R!Fails, R!At, R!Goto, R!RollBack, R!Fault, R!Steady
  <2>. QED BY <2>3, <2>4, <2>5, <2>6, <2>7, <2>8, <2>9, <2>10, <2>11 DEF R!IInv
<1>. QED BY <1>1, <1>2, <1>3, <1>4, <1>5 DEF R!Fails

LEMMA Restore_StopAgain ==
  ASSUME R!RestoreAssumption, R!IInv, R!StopAgain PROVE R!IInv'
<1>1. job' = [at |-> "reversing", next |-> job.next, staged |-> job.staged,
              swapped |-> job.swapped, left |-> job.swapped, held |-> job.held, had |-> job.had,
              wasUp |-> job.wasUp, started |-> job.started, undoing |-> TRUE]
  BY RestoreTyped DEF R!StopAgain, R!Goto, R!NoJob, R!Jobs
<1>2. restorePast' = restorePast
  BY RestoreTyped DEF R!StopAgain, R!files, R!vars
<1>3. R!TypeOK'
  <2>1. UNCHANGED <<clone, target, stage, kept, strays, db, assets, host, jobs>>
    BY DEF R!StopAgain, R!Steady
  <2>2. up' \in BOOLEAN
    BY RestoreTyped DEF R!StopAgain
  <2>3. restoreFaults' \in 0..MaxRestoreFaults
    BY RestoreTyped, RestoreNames DEF R!StopAgain, R!Fault, R!IInv, R!TypeOK
  <2>4. /\ job'.next = job.next /\ job'.swapped = job.swapped
        /\ job'.staged = job.staged
       /\ job'.held = job.held /\ job'.had = job.had /\ job'.left = job.swapped
    BY <1>1, <1>2
  <2>. QED BY <2>1, <2>2, <2>3, <2>4 DEF R!IInv, R!TypeOK
<1>4. R!Records'
  <2>1. job' \in R!Jobs
    BY <1>1, <1>2, RestoreTyped, RestoreNames
    DEF R!Jobs, R!Steps, R!Replacing, R!Replaced, R!Undoing
  <2>2. restorePast' \in R!Pasts
    BY <1>1, <1>2, RestoreTyped, RestoreNames DEF R!Pasts
  <2>. QED BY <2>1, <2>2 DEF R!Records
<1>5. R!JobInv'
  BY <1>1, <1>2, SMTT(10)
  DEF R!IInv, R!JobInv, R!StopAgain, R!At, R!Fault, R!Steady, R!NoJob, R!Replacing,
      R!Replaced
<1>6. R!StageInv'
  BY <1>1, <1>2, SMTT(10)
  DEF R!IInv, R!StageInv, R!StopAgain, R!At, R!Fault, R!Steady, R!Replacing
<1>7. R!PlaceInv'
  BY <1>1, <1>2, SMTT(10)
  DEF R!IInv, R!PlaceInv, R!StopAgain, R!At, R!Fault, R!Steady, R!Moving, R!Waiting, R!Replaced,
      R!JobInv, R!Replacing
<1>8. R!KeptInv'
  BY <1>1, <1>2, SMTT(10)
  DEF R!IInv, R!KeptInv, R!StopAgain, R!At, R!Fault, R!Steady, R!Moving, R!Waiting
<1>9. R!UndoInv'
  BY <1>1, <1>2, SMTT(10)
  DEF R!IInv, R!UndoInv, R!StopAgain, R!At, R!Fault, R!Steady, R!Moving, R!Waiting, R!Was
<1>10. R!OutputInv'
  BY <1>1, <1>2, RestoreTyped, RestoreNames, SMTT(10)
  DEF R!IInv, R!JobInv, R!OutputInv, R!StopAgain, R!At, R!Fault, R!Steady, R!NoJob,
      R!Replacing, R!Replaced, R!Jobs, R!Pasts
<1>11. R!DataSurvivesOneRestore'
  BY <1>1, <1>2, SMTT(10)
  DEF R!IInv, R!DataSurvivesOneRestore, R!StopAgain, R!At, R!Fault, R!Steady
<1>. QED BY <1>3, <1>4, <1>5, <1>6, <1>7, <1>8, <1>9, <1>10, <1>11 DEF R!IInv

LEMMA Restore_Reverse ==
  ASSUME R!RestoreAssumption, R!IInv, NEW m \in R!Mounts, R!Reverse(m) PROVE R!IInv'
<1>1. job' = [at |-> job.at, next |-> job.next, staged |-> job.staged,
              swapped |-> job.swapped, left |-> job.left \ {m}, held |-> job.held \ {m},
              had |-> job.had,
              wasUp |-> job.wasUp, started |-> job.started, undoing |-> job.undoing]
  BY RestoreTyped DEF R!Reverse, R!Goto, R!NoJob, R!Jobs
<1>2. restorePast' = restorePast
  BY RestoreTyped DEF R!Reverse, R!files, R!vars
<1>3. R!TypeOK'
  BY <1>1, <1>2, SMTT(10)
  DEF R!IInv, R!TypeOK, R!Reverse, R!At, R!Steady, R!Last, R!Mounts, R!Versions,
      R!Nothing, R!Torn, R!Contents
<1>4. R!Records'
  <2>1. job' \in R!Jobs
    BY <1>1, <1>2, RestoreTyped, RestoreNames
    DEF R!Jobs, R!Steps, R!Replacing, R!Replaced, R!Undoing
  <2>2. restorePast' \in R!Pasts
    BY <1>1, <1>2, RestoreTyped, RestoreNames DEF R!Pasts
  <2>. QED BY <2>1, <2>2 DEF R!Records
<1>5. R!JobInv'
  BY <1>1, <1>2, SMTT(10)
  DEF R!IInv, R!JobInv, R!Reverse, R!At, R!Steady, R!NoJob, R!Last, R!Replacing,
      R!Replaced
<1>6. R!StageInv'
  BY <1>1, <1>2, SMTT(10)
  DEF R!IInv, R!TypeOK, R!JobInv, R!StageInv, R!Reverse, R!At, R!Steady, R!NoJob,
      R!Last, R!Replacing, R!Replaced
<1>7. R!PlaceInv'
  <2>1. /\ job.at = "reversing" /\ job'.at = "reversing" /\ job'.had = job.had
        /\ job'.swapped = job.swapped /\ job'.left = job.left \ {m}
    BY <1>1, <1>2 DEF R!Reverse, R!At
  <2>2. target' = [target EXCEPT ![m] = IF m \in job.had THEN kept[m] ELSE R!Nothing]
    BY DEF R!Reverse
  <2>3. \A k \in job.swapped \ (job.left \cup job.had) : target[k] = R!Nothing
    BY <2>1 DEF R!IInv, R!PlaceInv, R!At
  <2>4. job.swapped \subseteq R!Mounts /\ target \in [R!Mounts -> R!Contents]
    BY RestoreTyped DEF R!Jobs
  <2>5. ASSUME NEW k \in job'.swapped \ (job'.left \cup job'.had)
        PROVE  target'[k] = R!Nothing
    BY <2>1, <2>2, <2>3, <2>4, <2>5
  <2>. QED BY <2>1, <2>5 DEF R!PlaceInv, R!At, R!Moving, R!Replacing, R!Replaced
<1>8. R!KeptInv'
  BY <1>1, <1>2, SMTT(10)
  DEF R!IInv, R!KeptInv, R!Reverse, R!At, R!Steady, R!Last, R!Moving, R!Waiting
<1>9. R!UndoInv'
  BY <1>1, <1>2, SMTT(10)
  DEF R!IInv, R!TypeOK, R!JobInv, R!UndoInv, R!Reverse, R!At, R!Steady, R!NoJob,
      R!Last, R!Moving, R!Waiting, R!Was, R!Replacing, R!Replaced
<1>10. R!OutputInv'
  BY <1>1, <1>2, SMTT(10) DEF R!IInv, R!OutputInv, R!Reverse, R!At, R!Steady, R!Last
<1>11. R!DataSurvivesOneRestore'
  BY <1>1, <1>2, RestoreTyped, RestoreNames, SMTT(10)
  DEF R!IInv, R!JobInv, R!StageInv, R!PlaceInv, R!KeptInv, R!DataSurvivesOneRestore,
      R!Reverse, R!At, R!Steady, R!NoJob, R!Last, R!Moving, R!Waiting, R!Replacing, R!Replaced,
      R!Jobs, R!Pasts
<1>. QED BY <1>3, <1>4, <1>5, <1>6, <1>7, <1>8, <1>9, <1>10, <1>11 DEF R!IInv

LEMMA Restore_ReverseFails ==
  ASSUME R!RestoreAssumption, R!IInv, NEW m \in R!Mounts, R!ReverseFails(m)
  PROVE  R!IInv'
<1>1. CASE job.undoing
  <2>1. job' = [at |-> "idle", next |-> 1, staged |-> {}, swapped |-> {}, left |-> {},
                held |-> {}, had |-> {}, wasUp |-> FALSE, started |-> FALSE,
                undoing |-> FALSE]
    BY <1>1, RestoreTyped DEF R!ReverseFails, R!StopsShort, R!Goto, R!NoJob, R!Jobs
  <2>2. restorePast' = [live |-> restorePast.live, absent |-> restorePast.absent,
                        up |-> restorePast.up, disturbed |-> TRUE,
                        discarded |-> restorePast.discarded,
                        undone |-> restorePast.undone,
                        hostAhead |-> restorePast.hostAhead]
    BY <1>1, RestoreTyped DEF R!ReverseFails, R!StopsShort, R!Pasts, R!At
  <2>0. /\ restoreFaults' \in 0..MaxRestoreFaults
    BY <1>1, RestoreTyped, RestoreNames
    DEF R!ReverseFails, R!TidyFails, R!StopsShort, R!Fault, R!IInv, R!TypeOK, R!Pasts
  <2>3. R!TypeOK'
    BY <1>1, <2>0, <2>1, <2>2, RestoreTyped, RestoreNames, SMTT(10)
    DEF R!IInv, R!TypeOK, R!ReverseFails, R!At, R!Goto, R!Fault, R!Steady, R!NoJob, R!Last,
        R!Jobs, R!Pasts
  <2>4. R!Records'
    <3>1. job' \in R!Jobs
      BY <1>1, <2>1, <2>2, RestoreTyped, RestoreNames
      DEF R!Jobs, R!Steps, R!Replacing, R!Replaced, R!Undoing
    <3>2. restorePast' \in R!Pasts
      BY <2>0, <1>1, <2>1, <2>2, RestoreTyped, RestoreNames DEF R!Pasts, R!Undone, R!Jobs
    <3>. QED BY <3>1, <3>2 DEF R!Records
  <2>5. R!JobInv'
    BY <1>1, <2>1, <2>2, SMTT(10)
    DEF R!IInv, R!JobInv, R!ReverseFails, R!At, R!Goto, R!Fault, R!Steady, R!NoJob, R!Last,
        R!Replacing, R!Replaced
  <2>6. R!StageInv'
    BY <1>1, <2>1, <2>2, SMTT(10)
    DEF R!IInv, R!StageInv, R!ReverseFails, R!At, R!Goto, R!Fault, R!Steady, R!NoJob, R!Last,
        R!Replacing
  <2>7. R!PlaceInv'
    BY <1>1, <2>1, <2>2, SMTT(10)
    DEF R!IInv, R!PlaceInv, R!ReverseFails, R!At, R!Goto, R!Fault, R!Steady, R!NoJob, R!Last,
        R!Moving, R!Replaced, R!JobInv, R!Replacing
  <2>8. R!KeptInv'
    BY <1>1, <2>0, <2>1, <2>2, SMTT(10)
    DEF R!IInv, R!TypeOK, R!PlaceInv, R!KeptInv, R!DataSurvivesOneRestore, R!ReverseFails,
        R!At, R!Goto, R!Fault, R!Steady, R!NoJob, R!Last,
        R!Moving, R!Waiting, R!Undone
  <2>9. R!UndoInv'
    BY <1>1, <2>1, <2>2, SMTT(10)
    DEF R!IInv, R!TypeOK, R!UndoInv, R!ReverseFails, R!At, R!Goto, R!Fault, R!Steady, R!NoJob,
        R!Last, R!Moving, R!Waiting, R!Was, R!Undone
  <2>10. R!OutputInv'
    BY <1>1, <2>1, <2>2, SMTT(10)
    DEF R!IInv, R!OutputInv, R!ReverseFails, R!At, R!Goto, R!Fault, R!Steady, R!NoJob, R!Last
  <2>11. R!DataSurvivesOneRestore'
    BY <2>0, <1>1, <2>1, <2>2, SMTT(10)
    DEF R!IInv, R!KeptInv, R!DataSurvivesOneRestore, R!ReverseFails, R!At, R!Goto, R!Fault,
        R!Steady, R!NoJob, R!Last, R!Waiting
  <2>. QED BY <2>3, <2>4, <2>5, <2>6, <2>7, <2>8, <2>9, <2>10, <2>11 DEF R!IInv
<1>2. CASE ~job.undoing /\ R!Undone # {}
  <2>1. job' = [at |-> "failing", next |-> job.next, staged |-> job.staged,
                swapped |-> job.swapped, left |-> job.left, held |-> job.held,
                had |-> job.had, wasUp |-> job.wasUp, started |-> job.started,
                undoing |-> job.undoing]
    BY <1>2, RestoreTyped DEF R!ReverseFails, R!StopsShort, R!Goto, R!NoJob, R!Jobs
  <2>2. restorePast' = [live |-> restorePast.live, absent |-> restorePast.absent,
                        up |-> restorePast.up, disturbed |-> TRUE,
                        discarded |-> restorePast.discarded,
                        undone |-> restorePast'.undone,
                        hostAhead |-> restorePast.hostAhead]
    BY <1>2, RestoreTyped DEF R!ReverseFails, R!StopsShort, R!Pasts, R!At
  <2>0. /\ restoreFaults' \in 0..MaxRestoreFaults
        /\ restorePast'.undone = restorePast.undone \cup R!Undone
    BY <1>2, RestoreTyped, RestoreNames
    DEF R!ReverseFails, R!TidyFails, R!StopsShort, R!Fault, R!IInv, R!TypeOK, R!Pasts,
        R!Undone, R!Jobs
  <2>3. R!TypeOK'
    BY <1>2, <2>0, <2>1, <2>2, RestoreTyped, RestoreNames, SMTT(10)
    DEF R!IInv, R!TypeOK, R!ReverseFails, R!At, R!Goto, R!Fault, R!Steady, R!NoJob, R!Last,
        R!Jobs, R!Pasts
  <2>4. R!Records'
    <3>1. job' \in R!Jobs
      BY <1>2, <2>1, <2>2, RestoreTyped, RestoreNames
      DEF R!Jobs, R!Steps, R!Replacing, R!Replaced, R!Undoing
    <3>2. R!Undone \in SUBSET R!Mounts
      BY RestoreTyped DEF R!Undone, R!Jobs
    <3>3. restorePast' = [restorePast EXCEPT !.disturbed = TRUE, !.undone = @ \cup R!Undone]
      BY <1>2, RestoreTyped DEF R!ReverseFails, R!TidyFails, R!StopsShort, R!Pasts
    <3>4. restorePast' \in R!Pasts
      BY <3>2, <3>3, RestoreTyped DEF R!Pasts
    <3>. QED BY <3>1, <3>4 DEF R!Records
  <2>5. R!JobInv'
    BY <1>2, <2>1, <2>2, SMTT(10)
    DEF R!IInv, R!JobInv, R!ReverseFails, R!At, R!Goto, R!Fault, R!Steady, R!NoJob, R!Last,
        R!Replacing, R!Replaced
  <2>6. R!StageInv'
    BY <1>2, <2>1, <2>2, SMTT(10)
    DEF R!IInv, R!StageInv, R!ReverseFails, R!At, R!Goto, R!Fault, R!Steady, R!NoJob, R!Last,
        R!Replacing
  <2>7. R!PlaceInv'
    BY <1>2, <2>1, <2>2, SMTT(10)
    DEF R!IInv, R!PlaceInv, R!ReverseFails, R!At, R!Goto, R!Fault, R!Steady, R!NoJob, R!Last,
        R!Moving, R!Replaced, R!JobInv, R!Replacing
  <2>8. R!KeptInv'
    BY <1>2, <2>0, <2>1, <2>2, SMTT(10)
    DEF R!IInv, R!TypeOK, R!PlaceInv, R!KeptInv, R!DataSurvivesOneRestore, R!ReverseFails,
        R!At, R!Goto, R!Fault, R!Steady, R!NoJob, R!Last,
        R!Moving, R!Waiting, R!Undone
  <2>9. R!UndoInv'
    BY <1>2, <2>1, <2>2, SMTT(10)
    DEF R!IInv, R!TypeOK, R!UndoInv, R!ReverseFails, R!At, R!Goto, R!Fault, R!Steady, R!NoJob,
        R!Last, R!Moving, R!Waiting, R!Was, R!Undone
  <2>10. R!OutputInv'
    BY <1>2, <2>1, <2>2, SMTT(10)
    DEF R!IInv, R!OutputInv, R!ReverseFails, R!At, R!Goto, R!Fault, R!Steady, R!NoJob, R!Last
  <2>11. R!DataSurvivesOneRestore'
    BY <2>0, <1>2, <2>1, <2>2, SMTT(10)
    DEF R!IInv, R!KeptInv, R!DataSurvivesOneRestore, R!ReverseFails, R!At, R!Goto, R!Fault,
        R!Steady, R!NoJob, R!Last, R!Waiting
  <2>. QED BY <2>3, <2>4, <2>5, <2>6, <2>7, <2>8, <2>9, <2>10, <2>11 DEF R!IInv
<1>3. CASE ~job.undoing /\ R!Undone = {}
  <2>1. job' = [at |-> "failing", next |-> job.next, staged |-> job.staged,
                swapped |-> job.swapped, left |-> job.left, held |-> job.held,
                had |-> job.had, wasUp |-> job.wasUp, started |-> job.started,
                undoing |-> job.undoing]
    BY <1>3, RestoreTyped DEF R!ReverseFails, R!StopsShort, R!Goto, R!NoJob, R!Jobs
  <2>2. restorePast' = [live |-> restorePast.live, absent |-> restorePast.absent,
                        up |-> restorePast.up, disturbed |-> restorePast.disturbed,
                        discarded |-> restorePast.discarded,
                        undone |-> restorePast.undone,
                        hostAhead |-> restorePast.hostAhead]
    BY <1>3, RestoreTyped DEF R!ReverseFails, R!StopsShort, R!Pasts, R!At
  <2>0. /\ restoreFaults' \in 0..MaxRestoreFaults
    BY <1>3, RestoreTyped, RestoreNames
    DEF R!ReverseFails, R!TidyFails, R!StopsShort, R!Fault, R!IInv, R!TypeOK, R!Pasts
  <2>3. R!TypeOK'
    BY <1>3, <2>0, <2>1, <2>2, RestoreTyped, RestoreNames, SMTT(10)
    DEF R!IInv, R!TypeOK, R!ReverseFails, R!At, R!Goto, R!Fault, R!Steady, R!NoJob, R!Last,
        R!Jobs, R!Pasts
  <2>4. R!Records'
    <3>1. job' \in R!Jobs
      BY <1>3, <2>1, <2>2, RestoreTyped, RestoreNames
      DEF R!Jobs, R!Steps, R!Replacing, R!Replaced, R!Undoing
    <3>2. restorePast' \in R!Pasts
      BY <2>0, <1>3, <2>1, <2>2, RestoreTyped, RestoreNames DEF R!Pasts, R!Undone, R!Jobs
    <3>. QED BY <3>1, <3>2 DEF R!Records
  <2>5. R!JobInv'
    BY <1>3, <2>1, <2>2, SMTT(10)
    DEF R!IInv, R!JobInv, R!ReverseFails, R!At, R!Goto, R!Fault, R!Steady, R!NoJob, R!Last,
        R!Replacing, R!Replaced
  <2>6. R!StageInv'
    BY <1>3, <2>1, <2>2, SMTT(10)
    DEF R!IInv, R!StageInv, R!ReverseFails, R!At, R!Goto, R!Fault, R!Steady, R!NoJob, R!Last,
        R!Replacing
  <2>7. R!PlaceInv'
    BY <1>3, <2>1, <2>2, SMTT(10)
    DEF R!IInv, R!PlaceInv, R!ReverseFails, R!At, R!Goto, R!Fault, R!Steady, R!NoJob, R!Last,
        R!Moving, R!Replaced, R!JobInv, R!Replacing
  <2>8. R!KeptInv'
    BY <1>3, <2>0, <2>1, <2>2, SMTT(10)
    DEF R!IInv, R!TypeOK, R!PlaceInv, R!KeptInv, R!DataSurvivesOneRestore, R!ReverseFails,
        R!At, R!Goto, R!Fault, R!Steady, R!NoJob, R!Last,
        R!Moving, R!Waiting, R!Undone
  <2>9. R!UndoInv'
    BY <1>3, <2>1, <2>2, SMTT(10)
    DEF R!IInv, R!TypeOK, R!UndoInv, R!ReverseFails, R!At, R!Goto, R!Fault, R!Steady, R!NoJob,
        R!Last, R!Moving, R!Waiting, R!Was, R!Undone
  <2>10. R!OutputInv'
    BY <1>3, <2>1, <2>2, SMTT(10)
    DEF R!IInv, R!OutputInv, R!ReverseFails, R!At, R!Goto, R!Fault, R!Steady, R!NoJob, R!Last
  <2>11. R!DataSurvivesOneRestore'
    BY <2>0, <1>3, <2>1, <2>2, SMTT(10)
    DEF R!IInv, R!KeptInv, R!DataSurvivesOneRestore, R!ReverseFails, R!At, R!Goto, R!Fault,
        R!Steady, R!NoJob, R!Last, R!Waiting
  <2>. QED BY <2>3, <2>4, <2>5, <2>6, <2>7, <2>8, <2>9, <2>10, <2>11 DEF R!IInv
<1>. QED BY <1>1, <1>2, <1>3

LEMMA Restore_TidyFails ==
  ASSUME R!RestoreAssumption, R!IInv, R!TidyFails
  PROVE  R!IInv'
<1>1. CASE job.undoing
  <2>1. job' = [at |-> "idle", next |-> 1, staged |-> {}, swapped |-> {}, left |-> {},
                held |-> {}, had |-> {}, wasUp |-> FALSE, started |-> FALSE,
                undoing |-> FALSE]
    BY <1>1, RestoreTyped DEF R!TidyFails, R!StopsShort, R!Goto, R!NoJob, R!Jobs
  <2>2. restorePast' = [live |-> restorePast.live, absent |-> restorePast.absent,
                        up |-> restorePast.up, disturbed |-> TRUE,
                        discarded |-> restorePast.discarded,
                        undone |-> restorePast.undone,
                        hostAhead |-> restorePast.hostAhead]
    BY <1>1, RestoreTyped DEF R!TidyFails, R!StopsShort, R!Pasts, R!At
  <2>0. /\ restoreFaults' \in 0..MaxRestoreFaults
    BY <1>1, RestoreTyped, RestoreNames
    DEF R!ReverseFails, R!TidyFails, R!StopsShort, R!Fault, R!IInv, R!TypeOK, R!Pasts
  <2>3. R!TypeOK'
    BY <1>1, <2>0, <2>1, <2>2, RestoreTyped, RestoreNames, SMTT(10)
    DEF R!IInv, R!TypeOK, R!TidyFails, R!At, R!Goto, R!Fault, R!Steady, R!NoJob, R!Jobs, R!Pasts
  <2>4. R!Records'
    <3>1. job' \in R!Jobs
      BY <1>1, <2>1, <2>2, RestoreTyped, RestoreNames
      DEF R!Jobs, R!Steps, R!Replacing, R!Replaced, R!Undoing
    <3>2. restorePast' \in R!Pasts
      BY <2>0, <1>1, <2>1, <2>2, RestoreTyped, RestoreNames DEF R!Pasts, R!Undone, R!Jobs
    <3>. QED BY <3>1, <3>2 DEF R!Records
  <2>5. R!JobInv'
    BY <1>1, <2>1, <2>2, SMTT(10)
    DEF R!IInv, R!JobInv, R!TidyFails, R!At, R!Goto, R!Fault, R!Steady, R!NoJob, R!Replacing,
        R!Replaced
  <2>6. R!StageInv'
    BY <1>1, <2>1, <2>2, SMTT(10)
    DEF R!IInv, R!StageInv, R!TidyFails, R!At, R!Goto, R!Fault, R!Steady, R!NoJob, R!Replacing
  <2>7. R!PlaceInv'
    BY <1>1, <2>1, <2>2, SMTT(10)
    DEF R!IInv, R!PlaceInv, R!TidyFails, R!At, R!Goto, R!Fault, R!Steady, R!NoJob, R!Moving,
        R!Replaced, R!JobInv, R!Replacing
  <2>8. R!KeptInv'
    BY <1>1, <2>0, <2>1, <2>2, SMTT(10)
    DEF R!IInv, R!TypeOK, R!PlaceInv, R!KeptInv, R!DataSurvivesOneRestore, R!TidyFails, R!At,
        R!Goto, R!Fault, R!Steady, R!NoJob,
        R!Moving, R!Waiting, R!Undone
  <2>9. R!UndoInv'
    BY <1>1, <2>1, <2>2, SMTT(10)
    DEF R!IInv, R!TypeOK, R!UndoInv, R!TidyFails, R!At, R!Goto, R!Fault, R!Steady, R!NoJob,
        R!Moving, R!Waiting, R!Was, R!Undone
  <2>10. R!OutputInv'
    BY <1>1, <2>1, <2>2, SMTT(10)
    DEF R!IInv, R!OutputInv, R!TidyFails, R!At, R!Goto, R!Fault, R!Steady, R!NoJob
  <2>11. R!DataSurvivesOneRestore'
    BY <2>0, <1>1, <2>1, <2>2, SMTT(10)
    DEF R!IInv, R!KeptInv, R!DataSurvivesOneRestore, R!TidyFails, R!At, R!Goto, R!Fault,
        R!Steady, R!NoJob, R!Waiting
  <2>. QED BY <2>3, <2>4, <2>5, <2>6, <2>7, <2>8, <2>9, <2>10, <2>11 DEF R!IInv
<1>2. CASE ~job.undoing /\ R!Undone # {}
  <2>1. job' = [at |-> "failing", next |-> job.next, staged |-> job.staged,
                swapped |-> job.swapped, left |-> job.left, held |-> job.held,
                had |-> job.had, wasUp |-> job.wasUp, started |-> job.started,
                undoing |-> job.undoing]
    BY <1>2, RestoreTyped DEF R!TidyFails, R!StopsShort, R!Goto, R!NoJob, R!Jobs
  <2>2. restorePast' = [live |-> restorePast.live, absent |-> restorePast.absent,
                        up |-> restorePast.up, disturbed |-> TRUE,
                        discarded |-> restorePast.discarded,
                        undone |-> restorePast'.undone,
                        hostAhead |-> restorePast.hostAhead]
    BY <1>2, RestoreTyped DEF R!TidyFails, R!StopsShort, R!Pasts, R!At
  <2>0. /\ restoreFaults' \in 0..MaxRestoreFaults
        /\ restorePast'.undone = restorePast.undone \cup R!Undone
    BY <1>2, RestoreTyped, RestoreNames
    DEF R!ReverseFails, R!TidyFails, R!StopsShort, R!Fault, R!IInv, R!TypeOK, R!Pasts,
        R!Undone, R!Jobs
  <2>3. R!TypeOK'
    BY <1>2, <2>0, <2>1, <2>2, RestoreTyped, RestoreNames, SMTT(10)
    DEF R!IInv, R!TypeOK, R!TidyFails, R!At, R!Goto, R!Fault, R!Steady, R!NoJob, R!Jobs, R!Pasts
  <2>4. R!Records'
    <3>1. job' \in R!Jobs
      BY <1>2, <2>1, <2>2, RestoreTyped, RestoreNames
      DEF R!Jobs, R!Steps, R!Replacing, R!Replaced, R!Undoing
    <3>2. R!Undone \in SUBSET R!Mounts
      BY RestoreTyped DEF R!Undone, R!Jobs
    <3>3. restorePast' = [restorePast EXCEPT !.disturbed = TRUE, !.undone = @ \cup R!Undone]
      BY <1>2, RestoreTyped DEF R!ReverseFails, R!TidyFails, R!StopsShort, R!Pasts
    <3>4. restorePast' \in R!Pasts
      BY <3>2, <3>3, RestoreTyped DEF R!Pasts
    <3>. QED BY <3>1, <3>4 DEF R!Records
  <2>5. R!JobInv'
    BY <1>2, <2>1, <2>2, SMTT(10)
    DEF R!IInv, R!JobInv, R!TidyFails, R!At, R!Goto, R!Fault, R!Steady, R!NoJob, R!Replacing,
        R!Replaced
  <2>6. R!StageInv'
    BY <1>2, <2>1, <2>2, SMTT(10)
    DEF R!IInv, R!StageInv, R!TidyFails, R!At, R!Goto, R!Fault, R!Steady, R!NoJob, R!Replacing
  <2>7. R!PlaceInv'
    BY <1>2, <2>1, <2>2, SMTT(10)
    DEF R!IInv, R!PlaceInv, R!TidyFails, R!At, R!Goto, R!Fault, R!Steady, R!NoJob, R!Moving,
        R!Replaced, R!JobInv, R!Replacing
  <2>8. R!KeptInv'
    BY <1>2, <2>0, <2>1, <2>2, SMTT(10)
    DEF R!IInv, R!TypeOK, R!PlaceInv, R!KeptInv, R!DataSurvivesOneRestore, R!TidyFails, R!At,
        R!Goto, R!Fault, R!Steady, R!NoJob,
        R!Moving, R!Waiting, R!Undone
  <2>9. R!UndoInv'
    BY <1>2, <2>1, <2>2, SMTT(10)
    DEF R!IInv, R!TypeOK, R!UndoInv, R!TidyFails, R!At, R!Goto, R!Fault, R!Steady, R!NoJob,
        R!Moving, R!Waiting, R!Was, R!Undone
  <2>10. R!OutputInv'
    BY <1>2, <2>1, <2>2, SMTT(10)
    DEF R!IInv, R!OutputInv, R!TidyFails, R!At, R!Goto, R!Fault, R!Steady, R!NoJob
  <2>11. R!DataSurvivesOneRestore'
    BY <2>0, <1>2, <2>1, <2>2, SMTT(10)
    DEF R!IInv, R!KeptInv, R!DataSurvivesOneRestore, R!TidyFails, R!At, R!Goto, R!Fault,
        R!Steady, R!NoJob, R!Waiting
  <2>. QED BY <2>3, <2>4, <2>5, <2>6, <2>7, <2>8, <2>9, <2>10, <2>11 DEF R!IInv
<1>3. CASE ~job.undoing /\ R!Undone = {}
  <2>1. job' = [at |-> "failing", next |-> job.next, staged |-> job.staged,
                swapped |-> job.swapped, left |-> job.left, held |-> job.held,
                had |-> job.had, wasUp |-> job.wasUp, started |-> job.started,
                undoing |-> job.undoing]
    BY <1>3, RestoreTyped DEF R!TidyFails, R!StopsShort, R!Goto, R!NoJob, R!Jobs
  <2>2. restorePast' = [live |-> restorePast.live, absent |-> restorePast.absent,
                        up |-> restorePast.up, disturbed |-> restorePast.disturbed,
                        discarded |-> restorePast.discarded,
                        undone |-> restorePast.undone,
                        hostAhead |-> restorePast.hostAhead]
    BY <1>3, RestoreTyped DEF R!TidyFails, R!StopsShort, R!Pasts, R!At
  <2>0. /\ restoreFaults' \in 0..MaxRestoreFaults
    BY <1>3, RestoreTyped, RestoreNames
    DEF R!ReverseFails, R!TidyFails, R!StopsShort, R!Fault, R!IInv, R!TypeOK, R!Pasts
  <2>3. R!TypeOK'
    BY <1>3, <2>0, <2>1, <2>2, RestoreTyped, RestoreNames, SMTT(10)
    DEF R!IInv, R!TypeOK, R!TidyFails, R!At, R!Goto, R!Fault, R!Steady, R!NoJob, R!Jobs, R!Pasts
  <2>4. R!Records'
    <3>1. job' \in R!Jobs
      BY <1>3, <2>1, <2>2, RestoreTyped, RestoreNames
      DEF R!Jobs, R!Steps, R!Replacing, R!Replaced, R!Undoing
    <3>2. restorePast' \in R!Pasts
      BY <2>0, <1>3, <2>1, <2>2, RestoreTyped, RestoreNames DEF R!Pasts, R!Undone, R!Jobs
    <3>. QED BY <3>1, <3>2 DEF R!Records
  <2>5. R!JobInv'
    BY <1>3, <2>1, <2>2, SMTT(10)
    DEF R!IInv, R!JobInv, R!TidyFails, R!At, R!Goto, R!Fault, R!Steady, R!NoJob, R!Replacing,
        R!Replaced
  <2>6. R!StageInv'
    BY <1>3, <2>1, <2>2, SMTT(10)
    DEF R!IInv, R!StageInv, R!TidyFails, R!At, R!Goto, R!Fault, R!Steady, R!NoJob, R!Replacing
  <2>7. R!PlaceInv'
    BY <1>3, <2>1, <2>2, SMTT(10)
    DEF R!IInv, R!PlaceInv, R!TidyFails, R!At, R!Goto, R!Fault, R!Steady, R!NoJob, R!Moving,
        R!Replaced, R!JobInv, R!Replacing
  <2>8. R!KeptInv'
    BY <1>3, <2>0, <2>1, <2>2, SMTT(10)
    DEF R!IInv, R!TypeOK, R!PlaceInv, R!KeptInv, R!DataSurvivesOneRestore, R!TidyFails, R!At,
        R!Goto, R!Fault, R!Steady, R!NoJob,
        R!Moving, R!Waiting, R!Undone
  <2>9. R!UndoInv'
    BY <1>3, <2>1, <2>2, SMTT(10)
    DEF R!IInv, R!TypeOK, R!UndoInv, R!TidyFails, R!At, R!Goto, R!Fault, R!Steady, R!NoJob,
        R!Moving, R!Waiting, R!Was, R!Undone
  <2>10. R!OutputInv'
    BY <1>3, <2>1, <2>2, SMTT(10)
    DEF R!IInv, R!OutputInv, R!TidyFails, R!At, R!Goto, R!Fault, R!Steady, R!NoJob
  <2>11. R!DataSurvivesOneRestore'
    BY <2>0, <1>3, <2>1, <2>2, SMTT(10)
    DEF R!IInv, R!KeptInv, R!DataSurvivesOneRestore, R!TidyFails, R!At, R!Goto, R!Fault,
        R!Steady, R!NoJob, R!Waiting
  <2>. QED BY <2>3, <2>4, <2>5, <2>6, <2>7, <2>8, <2>9, <2>10, <2>11 DEF R!IInv
<1>. QED BY <1>1, <1>2, <1>3

LEMMA Restore_Tidy ==
  ASSUME R!RestoreAssumption, R!IInv, R!Tidy PROVE R!IInv'
<1>1. job' = [at |-> IF job.undoing THEN "rewriting" ELSE "failing", next |-> job.next,
              staged |-> {}, swapped |-> {}, left |-> job.left, held |-> {}, had |-> job.had,
              wasUp |-> job.wasUp, started |-> job.started, undoing |-> job.undoing]
  BY RestoreTyped DEF R!Tidy, R!Goto, R!NoJob, R!Jobs
<1>2. restorePast' = restorePast
  BY RestoreTyped DEF R!Tidy, R!files, R!vars
<1>3. R!TypeOK'
  BY <1>1, <1>2, SMTT(10)
  DEF R!IInv, R!TypeOK, R!Tidy, R!At, R!Steady, R!Mounts, R!Versions, R!Nothing,
      R!Torn, R!Contents
<1>4. R!Records'
  <2>1. job' \in R!Jobs
    BY <1>1, <1>2, RestoreTyped, RestoreNames
    DEF R!Jobs, R!Steps, R!Replacing, R!Replaced, R!Undoing
  <2>2. restorePast' \in R!Pasts
    BY <1>1, <1>2, RestoreTyped, RestoreNames DEF R!Pasts
  <2>. QED BY <2>1, <2>2 DEF R!Records
<1>5. R!JobInv'
  BY <1>1, <1>2, SMTT(10)
  DEF R!IInv, R!JobInv, R!Tidy, R!At, R!Steady, R!NoJob, R!Replacing, R!Replaced
<1>6. R!StageInv'
  BY <1>1, <1>2, SMTT(10) DEF R!IInv, R!StageInv, R!Tidy, R!At, R!Steady, R!Replacing
<1>7. R!PlaceInv'
  BY <1>1, <1>2, SMTT(10)
  DEF R!IInv, R!PlaceInv, R!Tidy, R!At, R!Steady, R!Moving, R!Waiting, R!Replaced, R!JobInv,
      R!Replacing
<1>8. R!KeptInv'
  BY <1>1, <1>2, SMTT(10) DEF R!IInv, R!KeptInv, R!Tidy, R!At, R!Steady, R!Moving, R!Waiting
<1>9. R!UndoInv'
  BY <1>1, <1>2, SMTT(10) DEF R!IInv, R!UndoInv, R!Tidy, R!At, R!Steady, R!Moving, R!Waiting, R!Was
<1>10. R!OutputInv'
  BY <1>1, <1>2, SMTT(10) DEF R!IInv, R!OutputInv, R!Tidy, R!At, R!Steady
<1>11. R!DataSurvivesOneRestore'
  BY <1>1, <1>2, SMTT(10)
  DEF R!IInv, R!TypeOK, R!JobInv, R!StageInv, R!DataSurvivesOneRestore, R!Tidy, R!At,
      R!Steady, R!NoJob, R!Replacing, R!Replaced
<1>. QED BY <1>3, <1>4, <1>5, <1>6, <1>7, <1>8, <1>9, <1>10, <1>11 DEF R!IInv

LEMMA Restore_Rewrite ==
  ASSUME R!RestoreAssumption, R!IInv, R!Rewrite PROVE R!IInv'
<1>1. job' = [at |-> "idle", next |-> 1, staged |-> {}, swapped |-> {}, left |-> {}, held |-> {},
              had |-> {}, wasUp |-> FALSE, started |-> FALSE, undoing |-> FALSE]
  BY RestoreTyped DEF R!Rewrite, R!Goto, R!NoJob, R!Jobs
<1>2. restorePast' = restorePast
  BY RestoreTyped DEF R!Rewrite, R!files, R!vars
<1>3. R!TypeOK'
  BY <1>1, <1>2, RestoreTyped, RestoreNames, SMTT(10)
  DEF R!IInv, R!TypeOK, R!Rewrite, R!At, R!Steady, R!NoJob, R!Jobs, R!Pasts
<1>4. R!Records'
  <2>1. job' \in R!Jobs
    BY <1>1, <1>2, RestoreTyped, RestoreNames
    DEF R!Jobs, R!Steps, R!Replacing, R!Replaced, R!Undoing
  <2>2. restorePast' \in R!Pasts
    BY <1>1, <1>2, RestoreTyped, RestoreNames DEF R!Pasts
  <2>. QED BY <2>1, <2>2 DEF R!Records
<1>5. R!JobInv'
  BY <1>1, <1>2, SMTT(10)
  DEF R!IInv, R!JobInv, R!Rewrite, R!At, R!Steady, R!NoJob, R!Replacing, R!Replaced
<1>6. R!StageInv'
  BY <1>1, <1>2, SMTT(10)
  DEF R!IInv, R!StageInv, R!Rewrite, R!At, R!Steady, R!NoJob, R!Replacing
<1>7. R!PlaceInv'
  BY <1>1, <1>2, SMTT(10)
  DEF R!IInv, R!PlaceInv, R!Rewrite, R!At, R!Steady, R!NoJob, R!Moving, R!Waiting, R!Replaced,
      R!JobInv, R!Replacing
<1>8. R!KeptInv'
  BY <1>1, <1>2, SMTT(10)
  DEF R!IInv, R!KeptInv, R!Rewrite, R!At, R!Steady, R!NoJob, R!Moving, R!Waiting
<1>9. R!UndoInv'
  BY <1>1, <1>2, SMTT(10)
  DEF R!IInv, R!TypeOK, R!JobInv, R!UndoInv, R!Rewrite, R!At, R!Steady, R!NoJob,
      R!Moving, R!Waiting, R!Was, R!Replacing, R!Replaced
<1>10. R!OutputInv'
  BY <1>1, <1>2, RestoreTyped, RestoreNames, SMTT(10)
  DEF R!IInv, R!JobInv, R!OutputInv, R!Rewrite, R!At, R!Steady, R!NoJob, R!Replacing,
      R!Replaced, R!Jobs, R!Pasts
<1>11. R!DataSurvivesOneRestore'
  BY <1>1, <1>2, SMTT(10)
  DEF R!IInv, R!DataSurvivesOneRestore, R!Rewrite, R!At, R!Steady, R!NoJob
<1>. QED BY <1>3, <1>4, <1>5, <1>6, <1>7, <1>8, <1>9, <1>10, <1>11 DEF R!IInv

LEMMA Restore_RewriteFails ==
  ASSUME R!RestoreAssumption, R!IInv, R!RewriteFails PROVE R!IInv'
<1>1. job' = [at |-> "idle", next |-> 1, staged |-> {}, swapped |-> {}, left |-> {}, held |-> {},
              had |-> {}, wasUp |-> FALSE, started |-> FALSE, undoing |-> FALSE]
  BY RestoreTyped DEF R!RewriteFails, R!Goto, R!NoJob, R!Jobs
<1>2. restorePast' = [live |-> restorePast.live, absent |-> restorePast.absent,
                      up |-> restorePast.up, disturbed |-> TRUE,
                      discarded |-> restorePast.discarded, undone |-> restorePast.undone,
                      hostAhead |-> restorePast.hostAhead]
  BY RestoreTyped DEF R!RewriteFails, R!Pasts, R!At
<1>3. R!TypeOK'
  BY <1>1, <1>2, RestoreTyped, RestoreNames, SMTT(10)
  DEF R!IInv, R!TypeOK, R!RewriteFails, R!At, R!Fault, R!Steady, R!NoJob, R!Jobs,
      R!Pasts
<1>4. R!Records'
  <2>1. job' \in R!Jobs
    BY <1>1, <1>2, RestoreTyped, RestoreNames
    DEF R!Jobs, R!Steps, R!Replacing, R!Replaced, R!Undoing
  <2>2. restorePast' \in R!Pasts
    BY <1>1, <1>2, RestoreTyped, RestoreNames DEF R!Pasts
  <2>. QED BY <2>1, <2>2 DEF R!Records
<1>5. R!JobInv'
  BY <1>1, <1>2, SMTT(10)
  DEF R!IInv, R!JobInv, R!RewriteFails, R!At, R!Fault, R!Steady, R!NoJob, R!Replacing,
      R!Replaced
<1>6. R!StageInv'
  BY <1>1, <1>2, SMTT(10)
  DEF R!IInv, R!StageInv, R!RewriteFails, R!At, R!Fault, R!Steady, R!NoJob, R!Replacing
<1>7. R!PlaceInv'
  BY <1>1, <1>2, SMTT(10)
  DEF R!IInv, R!PlaceInv, R!RewriteFails, R!At, R!Fault, R!Steady, R!NoJob, R!Moving, R!Waiting,
      R!Replaced, R!JobInv, R!Replacing
<1>8. R!KeptInv'
  BY <1>1, <1>2, SMTT(10)
  DEF R!IInv, R!KeptInv, R!RewriteFails, R!At, R!Fault, R!Steady, R!NoJob, R!Moving, R!Waiting
<1>9. R!UndoInv'
  BY <1>1, <1>2, SMTT(10)
  DEF R!IInv, R!UndoInv, R!RewriteFails, R!At, R!Fault, R!Steady, R!NoJob, R!Moving, R!Waiting,
      R!Was
<1>10. R!OutputInv'
  BY <1>1, <1>2, SMTT(10)
  DEF R!IInv, R!OutputInv, R!RewriteFails, R!At, R!Fault, R!Steady, R!NoJob
<1>11. R!DataSurvivesOneRestore'
  BY <1>1, <1>2, SMTT(10)
  DEF R!IInv, R!DataSurvivesOneRestore, R!RewriteFails, R!At, R!Fault, R!Steady,
      R!NoJob
<1>. QED BY <1>3, <1>4, <1>5, <1>6, <1>7, <1>8, <1>9, <1>10, <1>11 DEF R!IInv

LEMMA Restore_Dies ==
  ASSUME R!RestoreAssumption, R!IInv, R!Dies PROVE R!IInv'
<1>1. CASE R!At("reporting")
  <2>1. job' = [at |-> "idle", next |-> 1, staged |-> {}, swapped |-> {}, left |-> {}, held |-> {},
                had |-> {}, wasUp |-> FALSE, started |-> FALSE, undoing |-> FALSE]
    BY <1>1, RestoreTyped DEF R!Dies, R!Goto, R!NoJob, R!Jobs
  <2>2. restorePast' = [live |-> restorePast.live, absent |-> restorePast.absent,
                        up |-> restorePast.up, disturbed |-> restorePast.disturbed,
                        discarded |-> restorePast.discarded, undone |-> restorePast.undone,
                        hostAhead |-> restorePast.hostAhead]
    BY <1>1, RestoreTyped DEF R!Dies, R!Pasts, R!At
  <2>3. R!TypeOK'
    BY <1>1, <2>1, <2>2, RestoreTyped, RestoreNames, SMTT(10)
    DEF R!IInv, R!TypeOK, R!Dies, R!At, R!Fault, R!NoJob, R!Jobs, R!Pasts
  <2>4. R!Records'
    <3>1. job' \in R!Jobs
      BY <1>1, <2>1, <2>2, RestoreTyped, RestoreNames
      DEF R!Jobs, R!Steps, R!Replacing, R!Replaced, R!Undoing
    <3>2. restorePast' \in R!Pasts
      BY <1>1, <2>1, <2>2, RestoreTyped, RestoreNames DEF R!Pasts
    <3>. QED BY <3>1, <3>2 DEF R!Records
  <2>5. R!JobInv'
    BY <1>1, <2>1, <2>2, SMTT(10)
    DEF R!IInv, R!JobInv, R!Dies, R!At, R!Fault, R!NoJob, R!Replacing, R!Replaced
  <2>6. R!StageInv'
    BY <1>1, <2>1, <2>2, SMTT(10)
    DEF R!IInv, R!StageInv, R!Dies, R!At, R!Fault, R!NoJob, R!Replacing
  <2>7. R!PlaceInv'
    BY <1>1, <2>1, <2>2, SMTT(10)
    DEF R!IInv, R!PlaceInv, R!Dies, R!At, R!Fault, R!NoJob, R!Moving, R!Waiting, R!Replaced,
        R!JobInv, R!Replacing
  <2>8. R!KeptInv'
    BY <1>1, <2>1, <2>2, SMTT(10)
    DEF R!IInv, R!KeptInv, R!Dies, R!At, R!Fault, R!NoJob, R!Moving, R!Waiting
  <2>9. R!UndoInv'
    BY <1>1, <2>1, <2>2, SMTT(10)
    DEF R!IInv, R!UndoInv, R!Dies, R!At, R!Fault, R!NoJob, R!Moving, R!Waiting, R!Was
  <2>10. R!OutputInv'
    BY <1>1, <2>1, <2>2, SMTT(10)
    DEF R!IInv, R!OutputInv, R!Dies, R!At, R!Fault, R!NoJob
  <2>11. R!DataSurvivesOneRestore'
    BY <1>1, <2>1, <2>2, SMTT(10)
    DEF R!IInv, R!DataSurvivesOneRestore, R!Dies, R!At, R!Fault, R!NoJob
  <2>. QED BY <2>3, <2>4, <2>5, <2>6, <2>7, <2>8, <2>9, <2>10, <2>11 DEF R!IInv
<1>2. CASE ~R!At("reporting")
  <2>1. job' = [at |-> "idle", next |-> 1, staged |-> {}, swapped |-> {}, left |-> {}, held |-> {},
                had |-> {}, wasUp |-> FALSE, started |-> FALSE, undoing |-> FALSE]
    BY <1>2, RestoreTyped DEF R!Dies, R!Goto, R!NoJob, R!Jobs
  <2>2. restorePast' = [live |-> restorePast.live, absent |-> restorePast.absent,
                        up |-> restorePast.up, disturbed |-> TRUE,
                        discarded |-> restorePast.discarded, undone |-> restorePast.undone,
                        hostAhead |-> restorePast.hostAhead]
    BY <1>2, RestoreTyped DEF R!Dies, R!Pasts, R!At
  <2>3. R!TypeOK'
    BY <1>2, <2>1, <2>2, RestoreTyped, RestoreNames, SMTT(10)
    DEF R!IInv, R!TypeOK, R!Dies, R!At, R!Fault, R!NoJob, R!Jobs, R!Pasts
  <2>4. R!Records'
    <3>1. job' \in R!Jobs
      BY <1>2, <2>1, <2>2, RestoreTyped, RestoreNames
      DEF R!Jobs, R!Steps, R!Replacing, R!Replaced, R!Undoing
    <3>2. restorePast' \in R!Pasts
      BY <1>2, <2>1, <2>2, RestoreTyped, RestoreNames DEF R!Pasts
    <3>. QED BY <3>1, <3>2 DEF R!Records
  <2>5. R!JobInv'
    BY <1>2, <2>1, <2>2, SMTT(10)
    DEF R!IInv, R!JobInv, R!Dies, R!At, R!Fault, R!NoJob, R!Replacing, R!Replaced
  <2>6. R!StageInv'
    BY <1>2, <2>1, <2>2, SMTT(10)
    DEF R!IInv, R!StageInv, R!Dies, R!At, R!Fault, R!NoJob, R!Replacing
  <2>7. R!PlaceInv'
    BY <1>2, <2>1, <2>2, SMTT(10)
    DEF R!IInv, R!PlaceInv, R!Dies, R!At, R!Fault, R!NoJob, R!Moving, R!Waiting, R!Replaced,
        R!JobInv, R!Replacing
  <2>8. R!KeptInv'
    BY <1>2, <2>1, <2>2, SMTT(10)
    DEF R!IInv, R!KeptInv, R!Dies, R!At, R!Fault, R!NoJob, R!Moving, R!Waiting
  <2>9. R!UndoInv'
    BY <1>2, <2>1, <2>2, SMTT(10)
    DEF R!IInv, R!UndoInv, R!Dies, R!At, R!Fault, R!NoJob, R!Moving, R!Waiting, R!Was
  <2>10. R!OutputInv'
    BY <1>2, <2>1, <2>2, SMTT(10)
    DEF R!IInv, R!OutputInv, R!Dies, R!At, R!Fault, R!NoJob
  <2>11. R!DataSurvivesOneRestore'
    BY <1>2, <2>1, <2>2, SMTT(10)
    DEF R!IInv, R!DataSurvivesOneRestore, R!Dies, R!At, R!Fault, R!NoJob
  <2>. QED BY <2>3, <2>4, <2>5, <2>6, <2>7, <2>8, <2>9, <2>10, <2>11 DEF R!IInv
<1>. QED BY <1>1, <1>2 DEF R!Dies

(* The initial states.                                                     *)
LEMMA RestoreInit ==
  ASSUME R!RestoreAssumption, R!Init PROVE R!IInv
<1>1. /\ job = R!NoJob /\ jobs = 0 /\ restoreFaults = 0 /\ db = 0 /\ assets = 0
      /\ host = 0
      /\ kept = [m \in R!Mounts |-> R!Nothing] /\ stage = [m \in R!Mounts |-> R!Nothing]
      /\ strays = [m \in R!Mounts |-> {}] /\ clone \in BOOLEAN /\ up \in BOOLEAN
      /\ restorePast = [live |-> target,
                        absent |-> {m \in R!Mounts : target[m] = R!Nothing},
                 up |-> up, disturbed |-> FALSE, discarded |-> {}, undone |-> {},
                 hostAhead |-> FALSE]
  BY DEF R!Init
<1>2. target \in [R!Mounts -> {0, R!Nothing}] /\ (clone => ~up)
  BY DEF R!Init
<1>3. R!TypeOK
  <2>1. /\ target \in [R!Mounts -> R!Contents] /\ stage \in [R!Mounts -> R!Contents]
        /\ kept \in [R!Mounts -> R!Contents]
        /\ strays \in [R!Mounts -> SUBSET R!Contents]
    BY <1>1, <1>2, RestoreNames
  <2>2. /\ jobs \in 0..MaxJobs /\ restoreFaults \in 0..MaxRestoreFaults
        /\ 1 \in 1..MaxMounts + 1
    BY <1>1, RestoreNames
  <2>. QED BY <1>1, <2>1, <2>2, RestoreNames DEF R!TypeOK, R!NoJob
<1>4. R!Records
  <2>1. job \in R!Jobs
    BY <1>1 DEF R!Jobs, R!NoJob, R!Steps
  <2>2. restorePast.live \in [R!Mounts -> R!Versions \cup {R!Nothing}]
    BY <1>1, <1>2, RestoreNames
  <2>3. restorePast \in R!Pasts
    BY <1>1, <2>2 DEF R!Pasts
  <2>. QED BY <2>1, <2>3 DEF R!Records
<1>5. R!JobInv /\ R!StageInv /\ R!PlaceInv
  BY <1>1
  DEF R!JobInv, R!StageInv, R!PlaceInv, R!Moving, R!Waiting, R!NoJob, R!At, R!Replacing,
      R!Replaced
<1>6. R!KeptInv /\ R!DataSurvivesOneRestore
  BY <1>1 DEF R!KeptInv, R!DataSurvivesOneRestore, R!Moving, R!Waiting, R!NoJob
<1>7. R!UndoInv
  <2>1. \A m \in R!Mounts : target[m] = R!Was(m)
    BY <1>1, <1>2 DEF R!Was
  <2>. QED BY <1>1, <2>1 DEF R!UndoInv, R!Moving, R!Waiting, R!NoJob
<1>8. R!OutputInv
  BY <1>1, <1>2 DEF R!OutputInv, R!NoJob, R!At
<1>. QED BY <1>3, <1>4, <1>5, <1>6, <1>7, <1>8 DEF R!IInv

(* A step that changes nothing.                                            *)
LEMMA RestoreStutters ==
  ASSUME R!IInv, UNCHANGED R!vars PROVE R!IInv'
<1>1. R!TypeOK' /\ R!Records' /\ R!JobInv'
  BY DEF R!IInv, R!TypeOK, R!Records, R!JobInv, R!At, R!vars, R!files
<1>2. R!StageInv' /\ R!PlaceInv' /\ R!KeptInv'
  BY DEF R!IInv, R!StageInv, R!PlaceInv, R!KeptInv, R!Moving, R!Waiting, R!At, R!vars, R!files
<1>3. R!UndoInv' /\ R!OutputInv' /\ R!DataSurvivesOneRestore'
  BY DEF R!IInv, R!UndoInv, R!OutputInv, R!DataSurvivesOneRestore, R!Was, R!Moving, R!Waiting,
         R!At, R!vars, R!files
<1>. QED BY <1>1, <1>2, <1>3 DEF R!IInv

(* Every step.                                                             *)
LEMMA RestoreNext ==
  ASSUME R!RestoreAssumption, R!IInv, [R!Next]_R!vars PROVE R!IInv'
<1>1. CASE R!Begin
  BY <1>1, Restore_Begin
<1>2. CASE R!Stop
  BY <1>2, Restore_Stop
<1>3. CASE R!Staged
  BY <1>3, Restore_Staged
<1>4. CASE R!Moved
  BY <1>4, Restore_Moved
<1>5. CASE R!Write
  BY <1>5, Restore_Write
<1>6. CASE R!Start
  BY <1>6, Restore_Start
<1>7. CASE R!Converge
  BY <1>7, Restore_Converge
<1>8. CASE R!Commit
  BY <1>8, Restore_Commit
<1>9. CASE R!Settle
  BY <1>9, Restore_Settle
<1>10. CASE R!Report
  BY <1>10, Restore_Report
<1>11. CASE R!Fails
  BY <1>11, Restore_Fails
<1>12. CASE R!StopAgain
  BY <1>12, Restore_StopAgain
<1>13. CASE R!Tidy
  BY <1>13, Restore_Tidy
<1>14. CASE R!Rewrite
  BY <1>14, Restore_Rewrite
<1>15. CASE R!RewriteFails
  BY <1>15, Restore_RewriteFails
<1>16. CASE R!Dies
  BY <1>16, Restore_Dies
<1>17. CASE \E m \in R!Mounts : R!Stage(m)
  BY <1>17, Restore_Stage
<1>18. CASE \E m \in R!Mounts : R!MoveAway(m)
  BY <1>18, Restore_MoveAway
<1>19. CASE \E m \in R!Mounts : R!MoveIn(m)
  BY <1>19, Restore_MoveIn
<1>20. CASE \E m \in R!Mounts : R!MoveInFails(m)
  BY <1>20, Restore_MoveInFails
<1>21. CASE \E m \in R!Mounts : R!MoveBack(m)
  BY <1>21, Restore_MoveBack
<1>22. CASE \E m \in R!Mounts : R!MoveBackFails(m)
  BY <1>22, Restore_MoveBackFails
<1>23. CASE \E m \in R!Mounts : R!Reverse(m)
  BY <1>23, Restore_Reverse
<1>24. CASE \E m \in R!Mounts : R!ReverseFails(m)
  BY <1>24, Restore_ReverseFails
<1>25. CASE R!ConvergeFails
  BY <1>25, Restore_ConvergeFails
<1>26. CASE R!TidyFails
  BY <1>26, Restore_TidyFails
<1>27. CASE UNCHANGED R!vars
  BY <1>27, RestoreStutters
<1>. QED
  BY <1>1, <1>2, <1>3, <1>4, <1>5, <1>6, <1>7, <1>8, <1>9, <1>10, <1>11, <1>12, <1>13,
     <1>14, <1>15, <1>16, <1>17, <1>18, <1>19, <1>20, <1>21, <1>22, <1>23, <1>24, <1>25,
     <1>26, <1>27
  DEF R!Next

(* Of any mounts, restores and faults, every state a restore or clone can  *)
(* reach is as R!IInv says.                                                *)
THEOREM RestoreInvariance == R!Spec => []R!IInv
<1>1. R!Init => R!IInv
  BY RestoreInit, JobsAssumption
<1>2. R!IInv /\ [R!Next]_R!vars => R!IInv'
  BY RestoreNext, JobsAssumption
<1>. QED BY <1>1, <1>2, PTL DEF R!Spec

(* The files that were in use are somewhere until the job that replaces    *)
(* them is committed, whatever step of it or of the way back fails or dies *)
(* (_RestoreBundleTransaction), but where a second job or a second run of  *)
(* the rollback loses them: see BackupRestore.                             *)
THEOREM DataSurvives == R!Spec => []DataSurvivesOneRestore
<1>1. R!IInv => DataSurvivesOneRestore
  BY DEF R!IInv, DataSurvivesOneRestore
<1>. QED BY <1>1, RestoreInvariance, PTL

(* After a job the files, the control directory, the configuration and the *)
(* host are of one version, unless the way back itself was disturbed or    *)
(* the host went ahead (the handler of restore_backend_backup): see        *)
(* BackupRestore.                                                          *)
THEOREM RestoreIsAtomic == R!Spec => []AllOrNothing
<1>1. ASSUME R!IInv, R!At("idle"), ~restorePast.disturbed
      PROVE  /\ \A m \in R!Mounts : target[m] = IF m \in restorePast.absent THEN R!Nothing ELSE db
             /\ assets = db /\ (restorePast.up => up)
             /\ clone \/ restorePast.hostAhead \/ host = db
  <2>1. job = R!NoJob
    BY <1>1 DEF R!IInv, R!JobInv
  <2>2. \A m \in R!Mounts : target[m] = R!Was(m)
    BY <1>1, <2>1 DEF R!IInv, R!UndoInv, R!Moving, R!Waiting, R!NoJob
  <2>. QED BY <1>1, <2>2 DEF R!IInv, R!OutputInv, R!Was, R!At
<1>2. R!IInv => AllOrNothing
  BY <1>1 DEF AllOrNothing, R!AllOrNothing
<1>. QED BY <1>2, RestoreInvariance, PTL

-----------------------------------------------------------------------------
(* An output that moves between nodes.                                     *)
LEMMA TransferNames ==
  ASSUME T!TransferAssumption
  PROVE  /\ Leader \in T!Nodes /\ Leader \notin Followers /\ Followers \subseteq T!Nodes
         /\ T!NoJob \in T!Jobs /\ MaxWrites \in Nat
         /\ T!NoForm \in T!Forms /\ T!NoForm.at = "none"
<1>1. Leader \in T!Nodes /\ Leader \notin Followers /\ Followers \subseteq T!Nodes
  BY DEF T!TransferAssumption, T!Nodes
<1>2. T!Single(Leader) \in T!Placements
  BY <1>1 DEF T!Single, T!Placements, T!Columns
<1>3. T!NoForm \in T!Forms /\ T!NoForm.at = "none"
  BY <1>2 DEF T!NoForm, T!Forms
<1>4. "idle" \in T!Steps /\ "none" \in T!Kinds \cup {"none"} /\ T!Nothing \in Nat
  BY DEF T!Steps, T!Nothing
<1>. QED BY <1>1, <1>2, <1>3, <1>4 DEF T!TransferAssumption, T!Jobs, T!NoJob

LEMMA TransferPlaced ==
  ASSUME T!TransferAssumption
  PROVE  /\ \A n \in T!Nodes : T!Single(n) \in T!Placements /\ T!NodesOf(T!Single(n)) = {n}
         /\ \A p \in T!Columns : T!NodesOf(p) \subseteq T!Nodes /\ p.active \in T!Nodes
         /\ T!Placements \subseteq T!Columns
         /\ \A p, q \in T!Columns : T!Changed(p, q) \in SUBSET T!Names
         /\ \A p, q \in T!Columns, c \in SUBSET T!Names : T!Merged(p, q, c) \in T!Columns
<1>1. \A n \in T!Nodes : T!Single(n) \in T!Placements /\ T!NodesOf(T!Single(n)) = {n}
  BY DEF T!Single, T!Placements, T!Columns, T!NodesOf
<1>2. \A p \in T!Columns : T!NodesOf(p) \subseteq T!Nodes /\ p.active \in T!Nodes
  BY DEF T!Columns, T!NodesOf
<1>3. T!Placements \subseteq T!Columns
  BY DEF T!Placements
<1>4. \A p, q \in T!Columns : T!Changed(p, q) \in SUBSET T!Names
  BY DEF T!Changed
<1>5. \A p, q \in T!Columns, c \in SUBSET T!Names : T!Merged(p, q, c) \in T!Columns
  BY DEF T!Merged, T!Columns
<1>. QED BY <1>1, <1>2, <1>3, <1>4, <1>5

LEMMA TransferTyped ==
  ASSUME T!TransferAssumption, T!IInv
  PROVE  /\ transfer \in T!Jobs /\ transferPast \in T!Pasts /\ placed.active \in T!Nodes
         /\ \A n \in T!Nodes : guest[n] \in Nat /\ running[n] \in BOOLEAN
         /\ transfer.target \in T!Nodes /\ transfer.cleaned \subseteq T!Nodes
         /\ placed \in T!Columns /\ form \in T!Forms
         /\ form.want \in T!Placements /\ form.cols \in SUBSET T!Names
<1>1. placed \in T!Columns /\ placed.active \in T!Nodes
  BY DEF T!IInv, T!TypeOK, T!Columns
<1>2. \A n \in T!Nodes : guest[n] \in Nat /\ running[n] \in BOOLEAN
  BY DEF T!IInv, T!TypeOK, T!Contents, T!TransferAssumption
<1>3. /\ transfer \in T!Jobs /\ transferPast \in T!Pasts /\ form \in T!Forms
  BY DEF T!IInv, T!Records, T!TypeOK
<1>4. form.want \in T!Placements /\ form.cols \in SUBSET T!Names
  BY <1>3 DEF T!Forms
<1>. QED BY <1>1, <1>2, <1>3, <1>4, TransferNames DEF T!Jobs

LEMMA TransferGoes ==
  ASSUME transfer \in T!Jobs, NEW where \in T!Steps, T!Goto(where)
  PROVE  /\ transfer' \in T!Jobs
         /\ transfer' = [at |-> where, kind |-> transfer.kind,
                         source |-> transfer.source,
                    target |-> transfer.target, wasUp |-> transfer.wasUp,
                    bundle |-> transfer.bundle,
                    next |-> transfer.next, cols |-> transfer.cols, todo |-> transfer.todo,
                    cleaned |-> transfer.cleaned]
  BY DEF T!Goto, T!Jobs

LEMMA TransferStarted ==
  ASSUME T!TransferAssumption, T!IInv, NEW kind \in {"transfer", "clone", "fresh"},
         NEW n \in T!Nodes, NEW heard \in BOOLEAN, T!Begin(kind, n, heard)
  PROVE  /\ transfer' \in T!Jobs /\ transferPast' \in T!Pasts
         /\ transfer' = [at |-> IF kind = "clone" /\ n = placed.active THEN "verify" ELSE "restore",
                    kind |-> kind, source |-> placed.active, target |-> n,
                    wasUp |-> (running[n] /\ heard),
                    bundle |-> IF kind = "fresh" THEN T!Fresh ELSE guest[placed.active],
                    next |-> T!Single(n), cols |-> T!Changed(placed, T!Single(n)),
                    todo |-> IF kind = "transfer" THEN T!NodesOf(placed) \ {Leader, n} ELSE {},
                    cleaned |-> {}]
         /\ transferPast' = [moved |-> IF kind = "transfer" THEN guest[placed.active] ELSE T!Nothing,
                    source |-> placed.active, target |-> n, guest |-> guest[n],
                    up |-> running[n], unseen |-> ~heard, failed |-> FALSE, stopped |-> FALSE,
                    excused |-> FALSE, died |-> FALSE, hollow |-> transferPast.hollow]
<1>1. transfer' = [at |-> IF kind = "clone" /\ n = placed.active THEN "verify" ELSE "restore",
                    kind |-> kind, source |-> placed.active, target |-> n,
                    wasUp |-> (running[n] /\ heard),
                    bundle |-> IF kind = "fresh" THEN T!Fresh ELSE guest[placed.active],
                    next |-> T!Single(n), cols |-> T!Changed(placed, T!Single(n)),
                    todo |-> IF kind = "transfer" THEN T!NodesOf(placed) \ {Leader, n} ELSE {},
                    cleaned |-> {}]
  BY DEF T!Begin, T!NoJob
<1>2. transferPast' = [moved |-> IF kind = "transfer" THEN guest[placed.active] ELSE T!Nothing,
                    source |-> placed.active, target |-> n, guest |-> guest[n],
                    up |-> running[n], unseen |-> ~heard, failed |-> FALSE, stopped |-> FALSE,
                    excused |-> FALSE, died |-> FALSE, hollow |-> transferPast.hollow]
  BY DEF T!Begin, T!NoPast
<1>3. transfer' \in T!Jobs
  <2>1. /\ T!Single(n) \in T!Placements /\ T!Changed(placed, T!Single(n)) \in SUBSET T!Names
        /\ T!NodesOf(placed) \subseteq T!Nodes
    BY TransferPlaced, TransferTyped
  <2>2. T!NodesOf(placed) \ {Leader, n} \subseteq Followers
    BY <2>1 DEF T!Nodes
  <2>. QED BY <1>1, <2>1, <2>2, TransferTyped DEF T!Jobs, T!Steps, T!Kinds, T!Fresh
<1>4. transferPast' \in T!Pasts
  <2>1. T!Nothing \in Nat /\ transferPast.hollow \in SUBSET T!Nodes
    BY TransferTyped DEF T!Pasts, T!Nothing
  <2>. QED BY <1>2, <2>1, TransferTyped DEF T!Pasts
<1>. QED BY <1>1, <1>2, <1>3, <1>4

LEMMA Transfer_Begin ==
  ASSUME T!TransferAssumption, T!IInv, NEW kind \in {"transfer", "clone", "fresh"},
         NEW n \in T!Nodes, NEW heard \in BOOLEAN, T!Begin(kind, n, heard)
  PROVE  T!IInv'
<1>0. /\ transfer' = [at |-> IF kind = "clone" /\ n = placed.active THEN "verify" ELSE "restore",
                    kind |-> kind, source |-> placed.active, target |-> n,
                    wasUp |-> (running[n] /\ heard),
                    bundle |-> IF kind = "fresh" THEN T!Fresh ELSE guest[placed.active],
                    next |-> T!Single(n), cols |-> T!Changed(placed, T!Single(n)),
                    todo |-> IF kind = "transfer" THEN T!NodesOf(placed) \ {Leader, n} ELSE {},
                    cleaned |-> {}]
         /\ transferPast' = [moved |-> IF kind = "transfer" THEN guest[placed.active] ELSE T!Nothing,
                    source |-> placed.active, target |-> n, guest |-> guest[n],
                    up |-> running[n], unseen |-> ~heard, failed |-> FALSE, stopped |-> FALSE,
                    excused |-> FALSE, died |-> FALSE, hollow |-> transferPast.hollow]
  BY TransferStarted
<1>1. T!TypeOK'
  <2>1. (guest \in [T!Nodes -> T!Contents] /\ aside \in [T!Nodes -> T!Contents])'
    BY SMTT(10)
    DEF T!IInv, T!TypeOK, T!Begin, T!At, T!NoJob, T!NoPast, T!NoForm, T!hostVars,
        T!rowVars, T!Nothing, T!Fresh, T!Nodes, T!Steps, T!Contents
  <2>2. (running \in [T!Nodes -> BOOLEAN] /\ \A x \in T!Nodes : running[x] => guest[x] # T!Nothing)'
    BY SMTT(10)
    DEF T!IInv, T!TypeOK, T!Begin, T!At, T!NoJob, T!NoPast, T!NoForm, T!hostVars,
        T!rowVars, T!Nothing, T!Fresh, T!Nodes, T!Steps, T!Contents
  <2>3. (/\ stray \in BOOLEAN
         /\ placed \in T!Columns /\ form \in T!Forms
         /\ ready \in SUBSET Followers /\ joining \in SUBSET Followers
         /\ applied \in SUBSET T!Nodes /\ applied \cap Followers \subseteq ready)'
    BY SMTT(10)
    DEF T!IInv, T!TypeOK, T!Begin, T!At, T!NoJob, T!NoPast, T!NoForm, T!hostVars,
        T!rowVars, T!Nothing, T!Fresh, T!Nodes, T!Steps, T!Contents
  <2>4. (/\ transfer.at \in T!Steps /\ {transfer.source, transfer.target} \subseteq T!Nodes
         /\ T!At("idle") => transfer = T!NoJob)'
    BY TransferTyped, TransferNames, SMTT(10)
    DEF T!IInv, T!TypeOK, T!Begin, T!At, T!NoJob, T!NoPast, T!NoForm, T!hostVars,
        T!rowVars, T!Nothing, T!Fresh, T!Nodes, T!Steps, T!Contents, T!Jobs, T!Pasts
  <2>. QED BY <2>1, <2>2, <2>3, <2>4 DEF T!TypeOK, T!At
<1>2. T!Records'
  <2>1. transfer' \in T!Jobs
    BY TransferStarted
  <2>2. transferPast' \in T!Pasts
    BY TransferStarted
  <2>3. /\ writes' \in 0..MaxWrites /\ transfer'.bundle <= 2 + writes'
       /\ \A x \in T!Nodes : guest'[x] <= 2 + writes' /\ aside'[x] <= 2 + writes'
    BY TransferTyped, TransferNames, SMTT(10)
    DEF T!IInv, T!Records, T!Begin, T!At, T!NoJob, T!NoPast, T!NoForm, T!hostVars,
        T!rowVars, T!Nothing, T!Fresh, T!Nodes, T!Steps, T!Kinds, T!Jobs, T!Pasts
  <2>. QED BY <2>1, <2>2, <2>3 DEF T!Records
<1>3. T!JobInv'
  <2>1. form' = form /\ ready' = ready /\ guest[placed.active] \in Nat
    BY TransferTyped DEF T!Begin, T!rowVars
  <2>2. kind = "transfer" => guest[placed.active] # T!Nothing /\ n # placed.active
    BY DEF T!Begin
  <2>3. kind = "fresh" => n \in Followers
    BY DEF T!Begin
  <2>4. form.at = "unsaved" => T!NodesOf(form.want) \cap Followers \subseteq ready
    BY DEF T!IInv, T!JobInv
  <2>5. transfer'.wasUp = (transferPast'.up /\ ~transferPast'.unseen)
    <3>1. CASE heard
      BY <1>0, <3>1
    <3>2. CASE ~heard
      BY <1>0, <3>2
    <3>. QED BY <3>1, <3>2
  <2>6. /\ transfer'.at \in {"restore", "verify"} /\ transfer'.kind = kind
        /\ transfer'.target = n /\ transfer'.source = placed.active
        /\ transfer'.next = T!Single(n)
        /\ kind = "transfer" => transfer'.bundle = guest[placed.active]
        /\ transferPast'.source = placed.active /\ transferPast'.target = n
        /\ transferPast'.moved = IF kind = "transfer" THEN guest[placed.active] ELSE T!Nothing
    BY <1>0
  <2>. QED
    BY <2>1, <2>2, <2>3, <2>4, <2>5, <2>6, SMTT(10)
    DEF T!JobInv, T!At, T!Remote, T!Transfer, T!Nothing, T!Kinds
<1>4. T!DataInv'
  BY TransferTyped, TransferNames, SMTT(10)
  DEF T!IInv, T!DataInv, T!Begin, T!At, T!Transfer, T!NoJob, T!NoPast, T!NoForm,
      T!hostVars, T!rowVars, T!Nothing, T!Fresh, T!Before, T!Restored, T!Jobs, T!Pasts
<1>5. T!UndoInv'
  BY SMTT(10)
  DEF T!IInv, T!UndoInv, T!Begin, T!At, T!Transfer, T!NoJob, T!NoPast, T!NoForm,
      T!hostVars, T!rowVars, T!Nothing, T!Fresh
<1>6. T!RowInv'
  BY SMTT(10)
  DEF T!IInv, T!RowInv, T!Begin, T!At, T!Transfer, T!NoJob, T!NoPast, T!NoForm,
      T!hostVars, T!rowVars, T!Rows, T!Nothing, T!Fresh, T!Nodes
<1>7. T!FailedTransferIsUndone'
  BY SMTT(10)
  DEF T!IInv, T!FailedTransferIsUndone, T!Begin, T!At, T!NoJob, T!NoPast, T!NoForm,
      T!hostVars, T!rowVars, T!Nothing, T!Fresh
<1>. QED BY <1>1, <1>2, <1>3, <1>4, <1>5, <1>6, <1>7 DEF T!IInv

LEMMA Transfer_RestoreRemote ==
  ASSUME T!TransferAssumption, T!IInv, T!RestoreRemote PROVE T!IInv'
<1>1. T!TypeOK'
  BY TransferNames, SMTT(10)
  DEF T!IInv, T!TypeOK, T!Records, T!JobInv, T!DataInv, T!UndoInv, T!RowInv,
      T!FailedTransferIsUndone, T!RestoreRemote, T!At, T!Goto, T!Remote, T!Transfer,
      T!Steady, T!NoJob, T!NoForm, T!rowVars, T!bounds, T!Rows, T!Nothing, T!Nodes,
      T!Steps, T!Kinds, T!Before, T!Restored, T!Contents, T!Jobs, T!Pasts
<1>2. T!Records'
  <2>1. transfer' \in T!Jobs
    BY TransferGoes, SMTT(10)
    DEF T!IInv, T!Records, T!RestoreRemote, T!At, T!Goto, T!Remote, T!Steady, T!NoForm,
        T!rowVars, T!bounds, T!Nodes, T!Steps, T!Kinds
  <2>2. transferPast' \in T!Pasts
    BY SMTT(10)
    DEF T!IInv, T!Records, T!RestoreRemote, T!At, T!Goto, T!Remote, T!Steady, T!NoForm,
        T!rowVars, T!bounds, T!Nodes, T!Steps, T!Kinds
  <2>3. /\ writes' \in 0..MaxWrites /\ transfer'.bundle <= 2 + writes'
       /\ \A x \in T!Nodes : guest'[x] <= 2 + writes' /\ aside'[x] <= 2 + writes'
    BY SMTT(10)
    DEF T!IInv, T!Records, T!RestoreRemote, T!At, T!Goto, T!Remote, T!Steady, T!NoForm,
        T!rowVars, T!bounds, T!Nodes, T!Steps, T!Kinds
  <2>. QED BY <2>1, <2>2, <2>3 DEF T!Records
<1>3. T!JobInv'
  BY SMTT(10)
  DEF T!IInv, T!JobInv, T!RestoreRemote, T!At, T!Goto, T!Remote, T!Transfer, T!Steady,
      T!rowVars, T!bounds, T!Nothing, T!Kinds, T!Before
<1>4. T!DataInv'
  BY TransferTyped, TransferNames, SMTT(10)
  DEF T!IInv, T!TypeOK, T!JobInv, T!DataInv, T!RestoreRemote, T!At, T!Goto, T!Remote,
      T!Transfer, T!Steady, T!NoJob, T!NoForm, T!rowVars, T!bounds, T!Nothing, T!Nodes,
      T!Steps, T!Kinds, T!Before, T!Restored, T!Contents, T!Jobs, T!Pasts
<1>5. T!UndoInv'
  BY SMTT(10)
  DEF T!IInv, T!TypeOK, T!JobInv, T!UndoInv, T!RowInv, T!RestoreRemote, T!At, T!Goto,
      T!Remote, T!Transfer, T!Steady, T!NoJob, T!NoForm, T!rowVars, T!bounds, T!Rows,
      T!Nothing, T!Nodes, T!Steps, T!Kinds, T!Before, T!Contents
<1>6. T!RowInv'
  BY SMTT(10)
  DEF T!IInv, T!TypeOK, T!JobInv, T!DataInv, T!RowInv, T!RestoreRemote, T!At, T!Goto,
      T!Remote, T!Transfer, T!Steady, T!NoJob, T!NoForm, T!rowVars, T!bounds, T!Rows,
      T!Nothing, T!Nodes, T!Steps, T!Kinds, T!Before, T!Restored, T!Contents
<1>7. T!FailedTransferIsUndone'
  BY SMTT(10)
  DEF T!FailedTransferIsUndone, T!RestoreRemote, T!At, T!Goto, T!Remote, T!Steady,
      T!rowVars, T!bounds
<1>. QED BY <1>1, <1>2, <1>3, <1>4, <1>5, <1>6, <1>7 DEF T!IInv

LEMMA Transfer_RemoteFails ==
  ASSUME T!TransferAssumption, T!IInv, NEW moved \in BOOLEAN, T!RemoteFails(moved)
  PROVE  T!IInv'
<1>1. T!TypeOK'
  <2>1. /\ guest' = guest /\ aside' = aside /\ stray' = stray /\ joining' = joining
        /\ applied' = applied /\ ready' = ready /\ placed' = placed /\ form' = form
        /\ transfer' = T!NoJob
        /\ running' = [running EXCEPT ![transfer.target] = moved /\ transfer.wasUp]
    BY DEF T!RemoteFails, T!Steady, T!GiveUp, T!rowVars
  <2>2. T!NoJob.at \in T!Steps /\ {T!NoJob.source, T!NoJob.target} \subseteq T!Nodes
    BY TransferNames DEF T!Jobs
  <2>3. transfer.wasUp => running[transfer.target]
    BY TransferTyped
    DEF T!IInv, T!JobInv, T!UndoInv, T!RemoteFails, T!At, T!Kinds, T!Remote, T!Jobs, T!Pasts
  <2>. QED
    BY <2>1, <2>2, <2>3, TransferTyped, SMTT(10) DEF T!IInv, T!TypeOK, T!At, T!Jobs
<1>2. T!Records'
  <2>1. transfer' \in T!Jobs
    BY TransferTyped, TransferNames, SMTT(10)
    DEF T!IInv, T!Records, T!RemoteFails, T!At, T!Fault, T!Remote, T!Steady, T!GiveUp,
        T!NoJob, T!NoForm, T!rowVars, T!bounds, T!Nothing, T!Nodes, T!Steps, T!Kinds,
        T!Jobs, T!Pasts
  <2>2. transferPast' \in T!Pasts
    BY TransferTyped DEF T!Pasts, T!RemoteFails, T!Failed, T!Excused
  <2>3. /\ writes' \in 0..MaxWrites /\ transfer'.bundle <= 2 + writes'
       /\ \A x \in T!Nodes : guest'[x] <= 2 + writes' /\ aside'[x] <= 2 + writes'
    BY SMTT(10)
    DEF T!IInv, T!Records, T!RemoteFails, T!At, T!Fault, T!Remote, T!Steady, T!GiveUp,
        T!NoJob, T!NoForm, T!rowVars, T!bounds, T!Nothing, T!Nodes, T!Steps, T!Kinds
  <2>. QED BY <2>1, <2>2, <2>3 DEF T!Records
<1>3. T!JobInv'
  BY SMTT(10)
  DEF T!IInv, T!JobInv, T!RemoteFails, T!At, T!Fault, T!Remote, T!Transfer, T!Steady, T!GiveUp,
      T!NoJob, T!NoForm, T!rowVars, T!bounds, T!Nothing, T!Kinds, T!Before
<1>4. T!DataInv'
  BY SMTT(10)
  DEF T!IInv, T!DataInv, T!RemoteFails, T!At, T!Fault, T!Remote, T!Transfer, T!Steady,
      T!GiveUp, T!NoJob, T!NoForm, T!rowVars, T!bounds, T!Nothing, T!Before, T!Restored
<1>5. T!UndoInv'
  BY SMTT(10)
  DEF T!UndoInv, T!RemoteFails, T!At, T!Fault, T!Remote, T!Transfer, T!Steady,
      T!GiveUp, T!NoJob, T!NoForm, T!rowVars, T!bounds, T!Nothing
<1>6. T!RowInv'
  BY SMTT(10)
  DEF T!IInv, T!RowInv, T!RemoteFails, T!At, T!Fault, T!Remote, T!Transfer, T!Steady,
      T!GiveUp, T!NoJob, T!NoForm, T!rowVars, T!bounds, T!Rows, T!Nothing, T!Nodes
<1>7. T!FailedTransferIsUndone'
  BY TransferTyped, TransferNames, SMTT(10)
  DEF T!IInv, T!TypeOK, T!JobInv, T!UndoInv, T!RowInv, T!FailedTransferIsUndone,
      T!RemoteFails, T!At, T!Fault, T!Remote, T!Transfer, T!Steady, T!GiveUp, T!NoJob,
      T!NoForm, T!rowVars, T!bounds, T!Rows, T!Nothing, T!Nodes, T!Steps, T!Kinds,
      T!Before, T!Contents, T!Jobs, T!Pasts
<1>. QED BY <1>1, <1>2, <1>3, <1>4, <1>5, <1>6, <1>7 DEF T!IInv

LEMMA Transfer_RemoteUnheard ==
  ASSUME T!TransferAssumption, T!IInv, T!RemoteUnheard PROVE T!IInv'
<1>1. T!TypeOK'
  BY TransferNames, SMTT(10)
  DEF T!IInv, T!TypeOK, T!Records, T!JobInv, T!DataInv, T!UndoInv, T!RowInv,
      T!FailedTransferIsUndone, T!RemoteUnheard, T!At, T!Fault, T!Remote, T!Transfer,
      T!Steady, T!GiveUp, T!Excused, T!NoJob, T!NoForm, T!rowVars, T!bounds, T!Rows,
      T!Nothing, T!Nodes, T!Steps, T!Kinds, T!Before, T!Restored, T!Contents, T!Jobs,
      T!Pasts
<1>2. T!Records'
  <2>1. transfer' \in T!Jobs
    BY TransferTyped, TransferNames, SMTT(10)
    DEF T!IInv, T!Records, T!RemoteUnheard, T!At, T!Fault, T!Remote, T!Steady,
        T!GiveUp, T!Excused, T!NoJob, T!NoForm, T!rowVars, T!bounds, T!Nothing,
        T!Nodes, T!Steps, T!Kinds, T!Jobs, T!Pasts
  <2>2. transferPast' \in T!Pasts
    BY TransferTyped DEF T!Pasts, T!RemoteUnheard, T!Failed, T!Excused
  <2>3. /\ writes' \in 0..MaxWrites /\ transfer'.bundle <= 2 + writes'
       /\ \A x \in T!Nodes : guest'[x] <= 2 + writes' /\ aside'[x] <= 2 + writes'
    BY SMTT(10)
    DEF T!IInv, T!Records, T!RemoteUnheard, T!At, T!Fault, T!Remote, T!Steady,
        T!GiveUp, T!Excused, T!NoJob, T!NoForm, T!rowVars, T!bounds, T!Nothing,
        T!Nodes, T!Steps, T!Kinds
  <2>. QED BY <2>1, <2>2, <2>3 DEF T!Records
<1>3. T!JobInv'
  BY SMTT(10)
  DEF T!IInv, T!JobInv, T!RemoteUnheard, T!At, T!Fault, T!Remote, T!Transfer, T!Steady,
      T!GiveUp, T!Excused, T!NoJob, T!NoForm, T!rowVars, T!bounds, T!Nothing, T!Kinds,
      T!Before
<1>4. T!DataInv'
  BY SMTT(10)
  DEF T!IInv, T!JobInv, T!DataInv, T!RemoteUnheard, T!At, T!Fault, T!Remote,
      T!Transfer, T!Steady, T!GiveUp, T!Excused, T!NoJob, T!NoForm, T!rowVars,
      T!bounds, T!Nothing, T!Kinds, T!Before, T!Restored
<1>5. T!UndoInv'
  BY SMTT(10)
  DEF T!UndoInv, T!RemoteUnheard, T!At, T!Fault, T!Remote, T!Transfer, T!Steady,
      T!GiveUp, T!Excused, T!NoJob, T!NoForm, T!rowVars, T!bounds, T!Nothing
<1>6. T!RowInv'
  BY SMTT(10)
  DEF T!IInv, T!TypeOK, T!JobInv, T!DataInv, T!RowInv, T!RemoteUnheard, T!At, T!Fault,
      T!Remote, T!Transfer, T!Steady, T!GiveUp, T!Excused, T!NoJob, T!NoForm,
      T!rowVars, T!bounds, T!Rows, T!Nothing, T!Nodes, T!Steps, T!Kinds, T!Before,
      T!Restored, T!Contents
<1>7. T!FailedTransferIsUndone'
  BY SMTT(10)
  DEF T!FailedTransferIsUndone, T!RemoteUnheard, T!At, T!Fault, T!Remote, T!Steady,
      T!GiveUp, T!Excused, T!NoJob, T!NoForm, T!rowVars, T!bounds, T!Nothing
<1>. QED BY <1>1, <1>2, <1>3, <1>4, <1>5, <1>6, <1>7 DEF T!IInv

LEMMA Transfer_RestoreLocalAway ==
  ASSUME T!TransferAssumption, T!IInv, T!RestoreLocalAway PROVE T!IInv'
<1>1. T!TypeOK'
  BY TransferNames, SMTT(10)
  DEF T!IInv, T!TypeOK, T!RestoreLocalAway, T!At, T!Goto, T!Remote, T!Steady, T!NoJob,
      T!NoForm, T!rowVars, T!bounds, T!Nothing, T!Nodes, T!Steps, T!Contents, T!Jobs,
      T!Pasts
<1>2. T!Records'
  <2>1. transfer' \in T!Jobs
    BY TransferGoes, SMTT(10)
    DEF T!IInv, T!Records, T!RestoreLocalAway, T!At, T!Goto, T!Remote, T!Steady,
        T!NoForm, T!rowVars, T!bounds, T!Nothing, T!Nodes, T!Steps, T!Kinds
  <2>2. transferPast' \in T!Pasts
    BY SMTT(10)
    DEF T!IInv, T!Records, T!RestoreLocalAway, T!At, T!Goto, T!Remote, T!Steady,
        T!NoForm, T!rowVars, T!bounds, T!Nothing, T!Nodes, T!Steps, T!Kinds
  <2>3. /\ writes' \in 0..MaxWrites /\ transfer'.bundle <= 2 + writes'
       /\ \A x \in T!Nodes : guest'[x] <= 2 + writes' /\ aside'[x] <= 2 + writes'
    BY SMTT(10)
    DEF T!IInv, T!Records, T!RestoreLocalAway, T!At, T!Goto, T!Remote, T!Steady,
        T!NoForm, T!rowVars, T!bounds, T!Nothing, T!Nodes, T!Steps, T!Kinds
  <2>. QED BY <2>1, <2>2, <2>3 DEF T!Records
<1>3. T!JobInv'
  BY SMTT(10)
  DEF T!IInv, T!JobInv, T!RestoreLocalAway, T!At, T!Goto, T!Remote, T!Transfer,
      T!Steady, T!rowVars, T!bounds, T!Nothing, T!Kinds, T!Before
<1>4. T!DataInv'
  BY SMTT(10)
  DEF T!IInv, T!TypeOK, T!JobInv, T!DataInv, T!RestoreLocalAway, T!At, T!Goto,
      T!Remote, T!Transfer, T!Steady, T!NoJob, T!NoForm, T!rowVars, T!bounds,
      T!Nothing, T!Nodes, T!Steps, T!Kinds, T!Before, T!Restored, T!Contents
<1>5. T!UndoInv'
  BY SMTT(10)
  DEF T!IInv, T!TypeOK, T!UndoInv, T!RestoreLocalAway, T!At, T!Goto, T!Remote,
      T!Transfer, T!Steady, T!NoJob, T!NoForm, T!rowVars, T!bounds, T!Nothing, T!Nodes,
      T!Steps, T!Contents
<1>6. T!RowInv'
  BY SMTT(10)
  DEF T!IInv, T!TypeOK, T!RowInv, T!RestoreLocalAway, T!At, T!Goto, T!Remote,
      T!Transfer, T!Steady, T!NoJob, T!NoForm, T!rowVars, T!bounds, T!Rows, T!Nothing,
      T!Nodes, T!Steps, T!Contents
<1>7. T!FailedTransferIsUndone'
  BY SMTT(10)
  DEF T!FailedTransferIsUndone, T!RestoreLocalAway, T!At, T!Goto, T!Remote, T!Steady,
      T!rowVars, T!bounds, T!Nothing
<1>. QED BY <1>1, <1>2, <1>3, <1>4, <1>5, <1>6, <1>7 DEF T!IInv

LEMMA Transfer_RestoreLocalIn ==
  ASSUME T!TransferAssumption, T!IInv, T!RestoreLocalIn PROVE T!IInv'
<1>1. T!TypeOK'
  BY TransferNames, SMTT(10)
  DEF T!IInv, T!TypeOK, T!Records, T!JobInv, T!DataInv, T!UndoInv, T!RowInv,
      T!FailedTransferIsUndone, T!RestoreLocalIn, T!At, T!Goto, T!Remote, T!Transfer,
      T!Steady, T!NoJob, T!NoForm, T!rowVars, T!bounds, T!Rows, T!Nothing, T!Nodes,
      T!Steps, T!Kinds, T!Before, T!Restored, T!Contents, T!Jobs, T!Pasts
<1>2. T!Records'
  <2>1. transfer' \in T!Jobs
    BY TransferGoes, SMTT(10)
    DEF T!IInv, T!Records, T!RestoreLocalIn, T!At, T!Goto, T!Steady, T!NoForm,
        T!rowVars, T!bounds, T!Nodes, T!Steps, T!Kinds
  <2>2. transferPast' \in T!Pasts
    BY SMTT(10)
    DEF T!IInv, T!Records, T!RestoreLocalIn, T!At, T!Goto, T!Steady, T!NoForm,
        T!rowVars, T!bounds, T!Nodes, T!Steps, T!Kinds
  <2>3. /\ writes' \in 0..MaxWrites /\ transfer'.bundle <= 2 + writes'
       /\ \A x \in T!Nodes : guest'[x] <= 2 + writes' /\ aside'[x] <= 2 + writes'
    BY SMTT(10)
    DEF T!IInv, T!Records, T!RestoreLocalIn, T!At, T!Goto, T!Steady, T!NoForm,
        T!rowVars, T!bounds, T!Nodes, T!Steps, T!Kinds
  <2>. QED BY <2>1, <2>2, <2>3 DEF T!Records
<1>3. T!JobInv'
  BY SMTT(10)
  DEF T!IInv, T!JobInv, T!RestoreLocalIn, T!At, T!Goto, T!Remote, T!Transfer, T!Steady,
      T!rowVars, T!bounds, T!Nothing, T!Kinds, T!Before
<1>4. T!DataInv'
  BY TransferTyped, TransferNames, SMTT(10)
  DEF T!IInv, T!TypeOK, T!JobInv, T!DataInv, T!RestoreLocalIn, T!At, T!Goto, T!Remote,
      T!Transfer, T!Steady, T!NoJob, T!NoForm, T!rowVars, T!bounds, T!Nothing, T!Nodes,
      T!Steps, T!Kinds, T!Before, T!Restored, T!Contents, T!Jobs, T!Pasts
<1>5. T!UndoInv'
  BY SMTT(10)
  DEF T!IInv, T!UndoInv, T!RestoreLocalIn, T!At, T!Goto, T!Transfer, T!Steady,
      T!rowVars, T!bounds, T!Nothing
<1>6. T!RowInv'
  BY TransferNames, SMTT(10)
  DEF T!IInv, T!TypeOK, T!RowInv, T!RestoreLocalIn, T!At, T!Goto, T!Transfer, T!Steady,
      T!NoJob, T!NoForm, T!rowVars, T!bounds, T!Rows, T!Nothing, T!Nodes, T!Steps,
      T!Contents, T!Jobs, T!Pasts
<1>7. T!FailedTransferIsUndone'
  BY SMTT(10)
  DEF T!FailedTransferIsUndone, T!RestoreLocalIn, T!At, T!Goto, T!Steady, T!rowVars,
      T!bounds
<1>. QED BY <1>1, <1>2, <1>3, <1>4, <1>5, <1>6, <1>7 DEF T!IInv

LEMMA Transfer_LocalFails ==
  ASSUME T!TransferAssumption, T!IInv, T!LocalFails PROVE T!IInv'
<1>1. T!TypeOK'
  BY TransferNames, SMTT(10)
  DEF T!IInv, T!TypeOK, T!JobInv, T!UndoInv, T!RowInv, T!LocalFails, T!At, T!Fault,
      T!Remote, T!Transfer, T!Steady, T!GiveUp, T!NoJob, T!NoForm, T!rowVars, T!bounds,
      T!Rows, T!Nothing, T!Nodes, T!Steps, T!Kinds, T!Before, T!Contents, T!Jobs,
      T!Pasts
<1>2. T!Records'
  <2>1. transfer' \in T!Jobs
    BY TransferTyped, TransferNames, SMTT(10)
    DEF T!IInv, T!Records, T!LocalFails, T!At, T!Fault, T!Steady, T!GiveUp, T!NoJob,
        T!NoForm, T!rowVars, T!bounds, T!Nothing, T!Nodes, T!Steps, T!Kinds, T!Jobs,
        T!Pasts
  <2>2. transferPast' \in T!Pasts
    BY TransferTyped DEF T!Pasts, T!LocalFails, T!Failed, T!Excused
  <2>3. /\ writes' \in 0..MaxWrites /\ transfer'.bundle <= 2 + writes'
       /\ \A x \in T!Nodes : guest'[x] <= 2 + writes' /\ aside'[x] <= 2 + writes'
    BY SMTT(10)
    DEF T!IInv, T!Records, T!LocalFails, T!At, T!Fault, T!Steady, T!GiveUp, T!NoJob,
        T!NoForm, T!rowVars, T!bounds, T!Nothing, T!Nodes, T!Steps, T!Kinds
  <2>. QED BY <2>1, <2>2, <2>3 DEF T!Records
<1>3. T!JobInv'
  BY SMTT(10)
  DEF T!IInv, T!JobInv, T!LocalFails, T!At, T!Fault, T!Remote, T!Transfer, T!Steady, T!GiveUp,
      T!NoJob, T!NoForm, T!rowVars, T!bounds, T!Nothing, T!Kinds, T!Before
<1>4. T!DataInv'
  BY SMTT(10)
  DEF T!IInv, T!TypeOK, T!JobInv, T!DataInv, T!LocalFails, T!At, T!Fault, T!Remote,
      T!Transfer, T!Steady, T!GiveUp, T!NoJob, T!NoForm, T!rowVars, T!bounds,
      T!Nothing, T!Nodes, T!Steps, T!Kinds, T!Before, T!Restored, T!Contents
<1>5. T!UndoInv'
  BY SMTT(10)
  DEF T!UndoInv, T!LocalFails, T!At, T!Fault, T!Transfer, T!Steady, T!GiveUp, T!NoJob,
      T!NoForm, T!rowVars, T!bounds, T!Nothing
<1>6. T!RowInv'
  BY TransferNames, SMTT(10)
  DEF T!IInv, T!TypeOK, T!RowInv, T!LocalFails, T!At, T!Fault, T!Transfer, T!Steady,
      T!GiveUp, T!NoJob, T!NoForm, T!rowVars, T!bounds, T!Rows, T!Nothing, T!Nodes,
      T!Steps, T!Contents, T!Jobs, T!Pasts
<1>7. T!FailedTransferIsUndone'
  BY TransferTyped, TransferNames, SMTT(10)
  DEF T!IInv, T!TypeOK, T!JobInv, T!UndoInv, T!RowInv, T!FailedTransferIsUndone,
      T!LocalFails, T!At, T!Fault, T!Remote, T!Transfer, T!Steady, T!GiveUp, T!NoJob,
      T!NoForm, T!rowVars, T!bounds, T!Rows, T!Nothing, T!Nodes, T!Steps, T!Kinds,
      T!Before, T!Contents, T!Jobs, T!Pasts
<1>. QED BY <1>1, <1>2, <1>3, <1>4, <1>5, <1>6, <1>7 DEF T!IInv

LEMMA Transfer_StartLocal ==
  ASSUME T!TransferAssumption, T!IInv, T!StartLocal PROVE T!IInv'
<1>1. T!TypeOK'
  BY SMTT(10)
  DEF T!IInv, T!TypeOK, T!JobInv, T!DataInv, T!StartLocal, T!At, T!Goto, T!Remote,
      T!Transfer, T!Steady, T!NoJob, T!NoForm, T!rowVars, T!bounds, T!Nothing, T!Nodes,
      T!Steps, T!Kinds, T!Before, T!Restored, T!Contents
<1>2. T!Records'
  <2>1. transfer' \in T!Jobs
    BY TransferGoes, SMTT(10)
    DEF T!IInv, T!Records, T!StartLocal, T!At, T!Goto, T!Steady, T!NoForm, T!rowVars,
        T!bounds, T!Nodes, T!Steps, T!Kinds
  <2>2. transferPast' \in T!Pasts
    BY SMTT(10)
    DEF T!IInv, T!Records, T!StartLocal, T!At, T!Goto, T!Steady, T!NoForm, T!rowVars,
        T!bounds, T!Nodes, T!Steps, T!Kinds
  <2>3. /\ writes' \in 0..MaxWrites /\ transfer'.bundle <= 2 + writes'
       /\ \A x \in T!Nodes : guest'[x] <= 2 + writes' /\ aside'[x] <= 2 + writes'
    BY SMTT(10)
    DEF T!IInv, T!Records, T!StartLocal, T!At, T!Goto, T!Steady, T!NoForm, T!rowVars,
        T!bounds, T!Nodes, T!Steps, T!Kinds
  <2>. QED BY <2>1, <2>2, <2>3 DEF T!Records
<1>3. T!JobInv'
  BY SMTT(10)
  DEF T!IInv, T!JobInv, T!StartLocal, T!At, T!Goto, T!Remote, T!Transfer, T!Steady,
      T!rowVars, T!bounds, T!Nothing, T!Kinds, T!Before
<1>4. T!DataInv'
  BY SMTT(10)
  DEF T!IInv, T!DataInv, T!StartLocal, T!At, T!Goto, T!Transfer, T!Steady, T!rowVars,
      T!bounds, T!Nothing, T!Before, T!Restored
<1>5. T!UndoInv'
  BY SMTT(10)
  DEF T!IInv, T!UndoInv, T!StartLocal, T!At, T!Goto, T!Transfer, T!Steady, T!rowVars,
      T!bounds, T!Nothing
<1>6. T!RowInv'
  BY SMTT(10)
  DEF T!IInv, T!RowInv, T!StartLocal, T!At, T!Goto, T!Transfer, T!Steady, T!rowVars,
      T!bounds, T!Rows, T!Nothing, T!Nodes
<1>7. T!FailedTransferIsUndone'
  BY SMTT(10)
  DEF T!FailedTransferIsUndone, T!StartLocal, T!At, T!Goto, T!Steady, T!rowVars,
      T!bounds
<1>. QED BY <1>1, <1>2, <1>3, <1>4, <1>5, <1>6, <1>7 DEF T!IInv

LEMMA Transfer_StartFails ==
  ASSUME T!TransferAssumption, T!IInv, T!StartFails PROVE T!IInv'
<1>1. T!TypeOK'
  BY TransferTyped, TransferNames, SMTT(10)
  DEF T!IInv, T!TypeOK, T!StartFails, T!At, T!Goto, T!Fault, T!Transfer, T!Steady,
      T!GiveUp, T!Failed, T!Excused, T!NoJob, T!NoForm, T!hostVars, T!rowVars,
      T!bounds, T!Nothing, T!Nodes, T!Steps, T!Contents, T!Jobs, T!Pasts
<1>2. T!Records'
  <2>1. transfer' \in T!Jobs
    BY TransferNames, TransferGoes, SMTT(10)
    DEF T!IInv, T!Records, T!JobInv, T!Steps, T!Kinds, T!At, T!Transfer, T!StartFails,
        T!GiveUp
  <2>2. transferPast' \in T!Pasts
    BY TransferTyped DEF T!Pasts, T!StartFails, T!Failed, T!Excused
  <2>3. /\ writes' \in 0..MaxWrites /\ transfer'.bundle <= 2 + writes'
       /\ \A x \in T!Nodes : guest'[x] <= 2 + writes' /\ aside'[x] <= 2 + writes'
    BY TransferNames, SMTT(10)
    DEF T!IInv, T!Records, T!StartFails, T!At, T!Goto, T!Fault, T!Transfer, T!Steady,
        T!GiveUp, T!Failed, T!Excused, T!NoJob, T!NoForm, T!hostVars, T!rowVars,
        T!bounds, T!Nothing, T!Nodes, T!Steps, T!Kinds, T!Jobs, T!Pasts
  <2>. QED BY <2>1, <2>2, <2>3 DEF T!Records
<1>3. T!JobInv'
  <2>1. CASE T!Transfer
    <3>1. transfer' = [at |-> "undo", kind |-> transfer.kind,
                       source |-> transfer.source, target |-> transfer.target,
                       wasUp |-> transfer.wasUp, bundle |-> transfer.bundle,
                       next |-> transfer.next, cols |-> transfer.cols, todo |-> transfer.todo,
                       cleaned |-> transfer.cleaned]
      BY <2>1, TransferTyped, TransferGoes DEF T!StartFails, T!Steps
    <3>2. /\ form' = form /\ ready' = ready /\ transferPast'.moved = transferPast.moved
          /\ transferPast'.unseen = transferPast.unseen
          /\ transferPast'.source = transferPast.source
          /\ transferPast'.target = transferPast.target
          /\ transferPast'.up = transferPast.up
      BY <2>1, TransferTyped DEF T!StartFails, T!Failed, T!Steady, T!rowVars, T!Pasts
    <3>3. /\ transferPast.source = transfer.source /\ transferPast.target = transfer.target
          /\ transfer.wasUp = (transferPast.up /\ ~transferPast.unseen)
          /\ transferPast.moved # T!Nothing
          /\ transferPast.moved = transfer.bundle /\ transfer.source # transfer.target
          /\ transfer.next = T!Single(transfer.target)
          /\ form.at = "unsaved" => T!NodesOf(form.want) \cap Followers \subseteq ready
          /\ form.at = "unsaved" => transfer.at \in {"restore", "in", "start", "verify"}
      BY <2>1 DEF T!IInv, T!JobInv, T!Transfer, T!Kinds, T!StartFails, T!At
    <3>. QED
      BY <2>1, <3>1, <3>2, <3>3, SMTT(10)
      DEF T!At, T!JobInv, T!Remote, T!Transfer, T!Nothing, T!Kinds, T!Before, T!StartFails
  <2>2. CASE ~T!Transfer
    BY <2>2, SMTT(10)
    DEF T!IInv, T!JobInv, T!StartFails, T!At, T!Goto, T!Fault, T!Remote, T!Transfer,
        T!Steady, T!GiveUp, T!Failed, T!Excused, T!NoJob, T!NoForm, T!hostVars,
        T!rowVars, T!bounds, T!Nothing, T!Kinds, T!Before
  <2>. QED BY <2>1, <2>2
<1>4. T!DataInv'
  BY TransferTyped, TransferNames, SMTT(10)
  DEF T!IInv, T!DataInv, T!StartFails, T!At, T!Goto, T!Fault, T!Transfer, T!Steady,
      T!GiveUp, T!Failed, T!Excused, T!NoJob, T!NoForm, T!hostVars, T!rowVars,
      T!bounds, T!Nothing, T!Before, T!Restored, T!Jobs, T!Pasts
<1>5. T!UndoInv'
  BY TransferTyped, TransferNames, SMTT(10)
  DEF T!IInv, T!UndoInv, T!StartFails, T!At, T!Goto, T!Fault, T!Transfer, T!Steady,
      T!GiveUp, T!Failed, T!Excused, T!NoJob, T!NoForm, T!hostVars, T!rowVars,
      T!bounds, T!Nothing, T!Jobs, T!Pasts
<1>6. T!RowInv'
  BY TransferTyped, TransferNames, SMTT(10)
  DEF T!IInv, T!RowInv, T!StartFails, T!At, T!Goto, T!Fault, T!Transfer, T!Steady,
      T!GiveUp, T!Failed, T!Excused, T!NoJob, T!NoForm, T!hostVars, T!rowVars,
      T!bounds, T!Rows, T!Nothing, T!Nodes, T!Jobs, T!Pasts
<1>7. T!FailedTransferIsUndone'
  BY TransferTyped, TransferNames, SMTT(10)
  DEF T!IInv, T!FailedTransferIsUndone, T!StartFails, T!At, T!Goto, T!Fault,
      T!Transfer, T!Steady, T!GiveUp, T!Failed, T!Excused, T!NoJob, T!NoForm,
      T!hostVars, T!rowVars, T!bounds, T!Nothing, T!Jobs, T!Pasts
<1>. QED BY <1>1, <1>2, <1>3, <1>4, <1>5, <1>6, <1>7 DEF T!IInv

LEMMA Transfer_Verify ==
  ASSUME T!TransferAssumption, T!IInv, T!Verify PROVE T!IInv'
<1>1. T!TypeOK'
  BY SMTT(10)
  DEF T!IInv, T!TypeOK, T!Verify, T!Writable, T!At, T!Goto, T!Transfer, T!Steady, T!NoJob,
      T!NoForm, T!hostVars, T!rowVars, T!bounds, T!Nothing, T!Nodes, T!Steps,
      T!Contents
<1>2. T!Records'
  <2>1. transfer' \in T!Jobs
    BY TransferGoes, SMTT(10)
    DEF T!IInv, T!Records, T!Verify, T!Writable, T!At, T!Goto, T!Transfer, T!Steady, T!NoForm,
        T!hostVars, T!rowVars, T!bounds, T!Nodes, T!Steps, T!Kinds
  <2>2. transferPast' \in T!Pasts
    BY SMTT(10)
    DEF T!IInv, T!Records, T!Verify, T!Writable, T!At, T!Goto, T!Transfer, T!Steady, T!NoForm,
        T!hostVars, T!rowVars, T!bounds, T!Nodes, T!Steps, T!Kinds
  <2>3. /\ writes' \in 0..MaxWrites /\ transfer'.bundle <= 2 + writes'
       /\ \A x \in T!Nodes : guest'[x] <= 2 + writes' /\ aside'[x] <= 2 + writes'
    BY SMTT(10)
    DEF T!IInv, T!Records, T!Verify, T!Writable, T!At, T!Goto, T!Transfer, T!Steady, T!NoForm,
        T!hostVars, T!rowVars, T!bounds, T!Nodes, T!Steps, T!Kinds
  <2>. QED BY <2>1, <2>2, <2>3 DEF T!Records
<1>3. T!JobInv'
  <2>1. CASE T!Transfer
    BY SMTT(10)
    DEF T!IInv, T!JobInv, T!Verify, T!Writable, T!At, T!Goto, T!Remote, T!Transfer, T!Steady,
        T!hostVars, T!rowVars, T!bounds, T!Nothing, T!Kinds, T!Before
  <2>2. CASE ~T!Transfer
    BY SMTT(10)
    DEF T!IInv, T!JobInv, T!Verify, T!Writable, T!At, T!Goto, T!Remote, T!Transfer, T!Steady,
        T!hostVars, T!rowVars, T!bounds, T!Nothing, T!Kinds, T!Before
  <2>. QED BY <2>1, <2>2
<1>4. T!DataInv'
  BY SMTT(10)
  DEF T!IInv, T!TypeOK, T!DataInv, T!Verify, T!Writable, T!At, T!Goto, T!Transfer, T!Steady,
      T!NoJob, T!NoForm, T!hostVars, T!rowVars, T!bounds, T!Nothing, T!Nodes, T!Steps,
      T!Before, T!Restored, T!Contents
<1>5. T!UndoInv'
  BY SMTT(10)
  DEF T!IInv, T!UndoInv, T!Verify, T!Writable, T!At, T!Goto, T!Transfer, T!Steady, T!hostVars,
      T!rowVars, T!bounds, T!Nothing
<1>6. T!RowInv'
  BY TransferTyped, TransferNames, SMTT(10)
  DEF T!IInv, T!TypeOK, T!JobInv, T!RowInv, T!Verify, T!Writable, T!At, T!Goto, T!Remote,
      T!Transfer, T!Steady, T!NoJob, T!NoForm, T!hostVars, T!rowVars, T!bounds, T!Rows,
      T!Nothing, T!Nodes, T!Steps, T!Kinds, T!Before, T!Contents, T!Jobs, T!Pasts
<1>7. T!FailedTransferIsUndone'
  BY SMTT(10)
  DEF T!FailedTransferIsUndone, T!Verify, T!Writable, T!At, T!Goto, T!Transfer, T!Steady,
      T!hostVars, T!rowVars, T!bounds
<1>. QED BY <1>1, <1>2, <1>3, <1>4, <1>5, <1>6, <1>7 DEF T!IInv

LEMMA Transfer_VerifyFails ==
  ASSUME T!TransferAssumption, T!IInv, T!VerifyFails PROVE T!IInv'
<1>1. T!TypeOK'
  BY TransferTyped, TransferNames, SMTT(10)
  DEF T!IInv, T!TypeOK, T!VerifyFails, T!At, T!Goto, T!Fault, T!Transfer, T!Steady,
      T!Failed, T!Excused, T!NoJob, T!NoForm, T!hostVars, T!rowVars, T!bounds,
      T!Nothing, T!Nodes, T!Steps, T!Contents, T!Jobs, T!Pasts
<1>2. T!Records'
  <2>1. transfer' \in T!Jobs
    BY TransferGoes, SMTT(10)
    DEF T!IInv, T!Records, T!VerifyFails, T!At, T!Goto, T!Fault, T!Transfer, T!Steady,
        T!Failed, T!Excused, T!NoForm, T!hostVars, T!rowVars, T!bounds, T!Nodes,
        T!Steps, T!Kinds
  <2>2. transferPast' \in T!Pasts
    BY TransferTyped DEF T!Pasts, T!VerifyFails, T!Failed, T!Excused
  <2>3. /\ writes' \in 0..MaxWrites /\ transfer'.bundle <= 2 + writes'
       /\ \A x \in T!Nodes : guest'[x] <= 2 + writes' /\ aside'[x] <= 2 + writes'
    BY TransferNames, SMTT(10)
    DEF T!IInv, T!Records, T!VerifyFails, T!At, T!Goto, T!Fault, T!Transfer, T!Steady,
        T!Failed, T!Excused, T!NoForm, T!hostVars, T!rowVars, T!bounds, T!Nodes,
        T!Steps, T!Kinds, T!Jobs, T!Pasts
  <2>. QED BY <2>1, <2>2, <2>3 DEF T!Records
<1>3. T!JobInv'
  <2>1. CASE T!Transfer
    BY <2>1, TransferTyped, TransferNames, SMTT(10)
    DEF T!IInv, T!TypeOK, T!Records, T!JobInv, T!DataInv, T!UndoInv, T!RowInv,
        T!FailedTransferIsUndone, T!VerifyFails, T!At, T!Goto, T!Fault, T!Remote,
        T!Transfer, T!Steady, T!Failed, T!Excused, T!NoJob, T!NoForm, T!hostVars,
        T!rowVars, T!bounds, T!Rows, T!Nothing, T!Nodes, T!Steps, T!Kinds, T!Before,
        T!Restored, T!Contents, T!Jobs, T!Pasts
  <2>2. CASE ~T!Transfer
    BY <2>2, TransferTyped, TransferNames, SMTT(10)
    DEF T!IInv, T!JobInv, T!VerifyFails, T!At, T!Goto, T!Fault, T!Remote, T!Transfer,
        T!Steady, T!Failed, T!Excused, T!hostVars, T!rowVars, T!bounds, T!Nothing,
        T!Kinds, T!Before, T!Jobs, T!Pasts
  <2>. QED BY <2>1, <2>2
<1>4. T!DataInv'
  BY TransferTyped, TransferNames, SMTT(10)
  DEF T!IInv, T!DataInv, T!VerifyFails, T!At, T!Goto, T!Fault, T!Transfer, T!Steady,
      T!Failed, T!Excused, T!hostVars, T!rowVars, T!bounds, T!Nothing, T!Before,
      T!Restored, T!Jobs, T!Pasts
<1>5. T!UndoInv'
  BY TransferTyped, TransferNames, SMTT(10)
  DEF T!IInv, T!UndoInv, T!VerifyFails, T!At, T!Goto, T!Fault, T!Transfer, T!Steady,
      T!Failed, T!Excused, T!hostVars, T!rowVars, T!bounds, T!Nothing, T!Jobs, T!Pasts
<1>6. T!RowInv'
  BY TransferTyped, TransferNames, SMTT(10)
  DEF T!IInv, T!RowInv, T!VerifyFails, T!At, T!Goto, T!Fault, T!Transfer, T!Steady,
      T!Failed, T!Excused, T!hostVars, T!rowVars, T!bounds, T!Rows, T!Nothing, T!Nodes,
      T!Jobs, T!Pasts
<1>7. T!FailedTransferIsUndone'
  BY TransferTyped, TransferNames, SMTT(10)
  DEF T!IInv, T!FailedTransferIsUndone, T!VerifyFails, T!At, T!Goto, T!Fault,
      T!Transfer, T!Steady, T!Failed, T!Excused, T!hostVars, T!rowVars, T!bounds,
      T!Jobs, T!Pasts
<1>. QED BY <1>1, <1>2, <1>3, <1>4, <1>5, <1>6, <1>7 DEF T!IInv

LEMMA Transfer_CommitRow ==
  ASSUME T!TransferAssumption, T!IInv, T!CommitRow PROVE T!IInv'
<1>1. T!TypeOK'
  BY SMTT(10)
  DEF T!IInv, T!TypeOK, T!CommitRow, T!Writable, T!At, T!Goto, T!Steady, T!NoJob, T!NoForm,
      T!hostVars, T!bounds, T!Nothing, T!Nodes, T!Steps, T!Contents
<1>2. T!Records'
  <2>1. transfer' \in T!Jobs
    BY TransferGoes, SMTT(10)
    DEF T!IInv, T!Records, T!CommitRow, T!Writable, T!At, T!Goto, T!Steady, T!NoForm, T!hostVars,
        T!bounds, T!Nodes, T!Steps, T!Kinds
  <2>2. transferPast' \in T!Pasts
    BY SMTT(10)
    DEF T!IInv, T!Records, T!CommitRow, T!Writable, T!At, T!Goto, T!Steady, T!NoForm, T!hostVars,
        T!bounds, T!Nodes, T!Steps, T!Kinds
  <2>3. /\ writes' \in 0..MaxWrites /\ transfer'.bundle <= 2 + writes'
       /\ \A x \in T!Nodes : guest'[x] <= 2 + writes' /\ aside'[x] <= 2 + writes'
    BY SMTT(10)
    DEF T!IInv, T!Records, T!CommitRow, T!Writable, T!At, T!Goto, T!Steady, T!NoForm, T!hostVars,
        T!bounds, T!Nodes, T!Steps, T!Kinds
  <2>. QED BY <2>1, <2>2, <2>3 DEF T!Records
<1>3. T!JobInv'
  BY SMTT(10)
  DEF T!IInv, T!JobInv, T!CommitRow, T!Writable, T!At, T!Goto, T!Remote, T!Transfer, T!Steady,
      T!hostVars, T!bounds, T!Nothing, T!Kinds, T!Before
<1>4. T!DataInv'
  BY SMTT(10)
  DEF T!IInv, T!JobInv, T!DataInv, T!CommitRow, T!Writable, T!At, T!Goto, T!Remote, T!Transfer,
      T!Steady, T!hostVars, T!bounds, T!Nothing, T!Kinds, T!Before, T!Restored
<1>5. T!UndoInv'
  BY SMTT(10)
  DEF T!IInv, T!UndoInv, T!CommitRow, T!Writable, T!At, T!Goto, T!Transfer, T!Steady, T!hostVars,
      T!bounds, T!Nothing
<1>6. T!RowInv'
  BY SMTT(10)
  DEF T!IInv, T!TypeOK, T!JobInv, T!DataInv, T!RowInv, T!CommitRow, T!Writable, T!At, T!Goto,
      T!Remote, T!Transfer, T!Steady, T!NoJob, T!NoForm, T!hostVars, T!bounds, T!Rows,
      T!Nothing, T!Nodes, T!Steps, T!Kinds, T!Before, T!Restored, T!Contents
<1>7. T!FailedTransferIsUndone'
  BY SMTT(10)
  DEF T!FailedTransferIsUndone, T!CommitRow, T!Writable, T!At, T!Goto, T!Steady, T!hostVars,
      T!bounds
<1>. QED BY <1>1, <1>2, <1>3, <1>4, <1>5, <1>6, <1>7 DEF T!IInv

LEMMA Transfer_CommitRowFails ==
  ASSUME T!TransferAssumption, T!IInv, T!CommitRowFails PROVE T!IInv'
<1>1. T!TypeOK'
  BY SMTT(10)
  DEF T!IInv, T!TypeOK, T!CommitRowFails, T!At, T!Goto, T!Fault, T!Steady, T!Excused,
      T!NoJob, T!NoForm, T!hostVars, T!rowVars, T!bounds, T!Nothing, T!Nodes, T!Steps,
      T!Contents
<1>2. T!Records'
  <2>1. transfer' \in T!Jobs
    BY TransferGoes, SMTT(10)
    DEF T!IInv, T!Records, T!CommitRowFails, T!At, T!Goto, T!Fault, T!Steady,
        T!Excused, T!NoForm, T!hostVars, T!rowVars, T!bounds, T!Nodes, T!Steps, T!Kinds
  <2>2. transferPast' \in T!Pasts
    BY TransferTyped DEF T!Pasts, T!CommitRowFails, T!Failed, T!Excused
  <2>3. /\ writes' \in 0..MaxWrites /\ transfer'.bundle <= 2 + writes'
       /\ \A x \in T!Nodes : guest'[x] <= 2 + writes' /\ aside'[x] <= 2 + writes'
    BY SMTT(10)
    DEF T!IInv, T!Records, T!CommitRowFails, T!At, T!Goto, T!Fault, T!Steady,
        T!Excused, T!NoForm, T!hostVars, T!rowVars, T!bounds, T!Nodes, T!Steps, T!Kinds
  <2>. QED BY <2>1, <2>2, <2>3 DEF T!Records
<1>3. T!JobInv'
  BY SMTT(10)
  DEF T!IInv, T!JobInv, T!CommitRowFails, T!At, T!Goto, T!Fault, T!Remote, T!Transfer,
      T!Steady, T!Excused, T!hostVars, T!rowVars, T!bounds, T!Nothing, T!Kinds,
      T!Before
<1>4. T!DataInv'
  BY SMTT(10)
  DEF T!IInv, T!DataInv, T!CommitRowFails, T!At, T!Goto, T!Fault, T!Transfer, T!Steady,
      T!Excused, T!hostVars, T!rowVars, T!bounds, T!Nothing, T!Before, T!Restored
<1>5. T!UndoInv'
  BY SMTT(10)
  DEF T!IInv, T!UndoInv, T!CommitRowFails, T!At, T!Goto, T!Fault, T!Transfer, T!Steady,
      T!Excused, T!hostVars, T!rowVars, T!bounds, T!Nothing
<1>6. T!RowInv'
  BY SMTT(10)
  DEF T!IInv, T!RowInv, T!CommitRowFails, T!At, T!Goto, T!Fault, T!Transfer, T!Steady,
      T!Excused, T!hostVars, T!rowVars, T!bounds, T!Rows, T!Nothing, T!Nodes
<1>7. T!FailedTransferIsUndone'
  BY SMTT(10)
  DEF T!FailedTransferIsUndone, T!CommitRowFails, T!At, T!Goto, T!Fault, T!Steady,
      T!Excused, T!hostVars, T!rowVars, T!bounds
<1>. QED BY <1>1, <1>2, <1>3, <1>4, <1>5, <1>6, <1>7 DEF T!IInv

LEMMA Transfer_Undo ==
  ASSUME T!TransferAssumption, T!IInv, T!Undo PROVE T!IInv'
<1>1. T!TypeOK'
  BY TransferTyped, TransferNames, SMTT(10)
  DEF T!IInv, T!TypeOK, T!JobInv, T!UndoInv, T!RowInv, T!Undo, T!At, T!Remote,
      T!Transfer, T!Steady, T!GiveUp, T!NoJob, T!NoForm, T!rowVars, T!bounds, T!Rows,
      T!Nothing, T!Nodes, T!Steps, T!Kinds, T!Before, T!Contents, T!Jobs, T!Pasts
<1>2. T!Records'
  <2>1. transfer' \in T!Jobs
    BY TransferTyped, TransferNames, SMTT(10)
    DEF T!IInv, T!Records, T!Undo, T!At, T!Steady, T!GiveUp, T!NoJob, T!NoForm,
        T!rowVars, T!bounds, T!Nothing, T!Nodes, T!Steps, T!Kinds, T!Jobs, T!Pasts
  <2>2. transferPast' \in T!Pasts
    BY SMTT(10)
    DEF T!IInv, T!Records, T!Undo, T!At, T!Steady, T!GiveUp, T!NoJob, T!NoForm,
        T!rowVars, T!bounds, T!Nothing, T!Nodes, T!Steps, T!Kinds
  <2>3. /\ writes' \in 0..MaxWrites /\ transfer'.bundle <= 2 + writes'
       /\ \A x \in T!Nodes : guest'[x] <= 2 + writes' /\ aside'[x] <= 2 + writes'
    BY SMTT(10)
    DEF T!IInv, T!Records, T!Undo, T!At, T!Steady, T!GiveUp, T!NoJob, T!NoForm,
        T!rowVars, T!bounds, T!Nothing, T!Nodes, T!Steps, T!Kinds
  <2>. QED BY <2>1, <2>2, <2>3 DEF T!Records
<1>3. T!JobInv'
  BY SMTT(10)
  DEF T!IInv, T!JobInv, T!Undo, T!At, T!Remote, T!Transfer, T!Steady, T!GiveUp, T!NoJob,
      T!NoForm, T!rowVars, T!bounds, T!Nothing, T!Kinds, T!Before
<1>4. T!DataInv'
  BY SMTT(10)
  DEF T!IInv, T!JobInv, T!DataInv, T!Undo, T!At, T!Remote, T!Transfer, T!Steady,
      T!GiveUp, T!NoJob, T!NoForm, T!rowVars, T!bounds, T!Nothing, T!Kinds, T!Before,
      T!Restored
<1>5. T!UndoInv'
  BY SMTT(10)
  DEF T!UndoInv, T!Undo, T!At, T!Transfer, T!Steady, T!GiveUp, T!NoJob, T!NoForm,
      T!rowVars, T!bounds, T!Nothing
<1>6. T!RowInv'
  BY SMTT(10)
  DEF T!IInv, T!TypeOK, T!JobInv, T!UndoInv, T!RowInv, T!Undo, T!At, T!Remote,
      T!Transfer, T!Steady, T!GiveUp, T!NoJob, T!NoForm, T!rowVars, T!bounds, T!Rows,
      T!Nothing, T!Nodes, T!Steps, T!Kinds, T!Before, T!Contents
<1>7. T!FailedTransferIsUndone'
  BY TransferTyped, TransferNames, SMTT(10)
  DEF T!IInv, T!TypeOK, T!JobInv, T!UndoInv, T!RowInv, T!FailedTransferIsUndone,
      T!Undo, T!At, T!Remote, T!Transfer, T!Steady, T!GiveUp, T!NoJob, T!NoForm,
      T!rowVars, T!bounds, T!Rows, T!Nothing, T!Nodes, T!Steps, T!Kinds, T!Before,
      T!Contents, T!Jobs, T!Pasts
<1>. QED BY <1>1, <1>2, <1>3, <1>4, <1>5, <1>6, <1>7 DEF T!IInv

LEMMA Transfer_UndoFails ==
  ASSUME T!TransferAssumption, T!IInv, NEW half \in BOOLEAN, T!UndoFails(half)
  PROVE  T!IInv'
<1>1. T!TypeOK'
  <2>1. (guest \in [T!Nodes -> T!Contents] /\ aside \in [T!Nodes -> T!Contents])'
    BY TransferNames, SMTT(10)
    DEF T!IInv, T!TypeOK, T!UndoFails, T!At, T!Fault, T!Steady, T!GiveUp, T!NoJob,
        T!NoForm, T!rowVars, T!bounds, T!Nothing, T!Nodes, T!Steps, T!Contents, T!Jobs,
        T!Pasts
  <2>2. (running \in [T!Nodes -> BOOLEAN] /\ \A x \in T!Nodes : running[x] => guest[x] # T!Nothing)'
    <3>1. CASE half
      BY <3>1, SMTT(10)
      DEF T!IInv, T!TypeOK, T!UndoFails, T!At, T!Fault, T!Steady, T!GiveUp, T!NoJob,
          T!NoForm, T!rowVars, T!bounds, T!Nothing, T!Nodes, T!Steps, T!Contents
    <3>2. CASE ~half
      BY <3>2, SMTT(10)
      DEF T!IInv, T!TypeOK, T!UndoFails, T!At, T!Fault, T!Steady, T!GiveUp, T!NoJob,
          T!NoForm, T!rowVars, T!bounds, T!Nothing, T!Nodes, T!Steps, T!Contents
    <3>. QED BY <3>1, <3>2
  <2>3. (/\ stray \in BOOLEAN
         /\ placed \in T!Columns /\ form \in T!Forms
         /\ ready \in SUBSET Followers /\ joining \in SUBSET Followers
         /\ applied \in SUBSET T!Nodes /\ applied \cap Followers \subseteq ready)'
    BY SMTT(10)
    DEF T!IInv, T!TypeOK, T!UndoFails, T!At, T!Fault, T!Steady, T!GiveUp, T!NoJob,
        T!NoForm, T!rowVars, T!bounds, T!Nothing, T!Nodes, T!Steps, T!Contents
  <2>4. (/\ transfer.at \in T!Steps /\ {transfer.source, transfer.target} \subseteq T!Nodes
         /\ T!At("idle") => transfer = T!NoJob)'
    BY SMTT(10)
    DEF T!TypeOK, T!UndoFails, T!At, T!Fault, T!Steady, T!GiveUp, T!NoJob, T!NoForm,
        T!rowVars, T!bounds, T!Nothing, T!Nodes, T!Steps, T!Contents
  <2>. QED BY <2>1, <2>2, <2>3, <2>4 DEF T!TypeOK, T!At
<1>2. T!Records'
  <2>1. transfer' \in T!Jobs
    BY TransferTyped, TransferNames, SMTT(10)
    DEF T!IInv, T!Records, T!UndoFails, T!At, T!Fault, T!Steady, T!GiveUp, T!NoJob,
        T!NoForm, T!rowVars, T!bounds, T!Nothing, T!Nodes, T!Steps, T!Kinds, T!Jobs,
        T!Pasts
  <2>2. transferPast' \in T!Pasts
    BY TransferTyped DEF T!Pasts, T!UndoFails, T!Failed, T!Excused, T!Jobs
  <2>3. /\ writes' \in 0..MaxWrites /\ transfer'.bundle <= 2 + writes'
       /\ \A x \in T!Nodes : guest'[x] <= 2 + writes' /\ aside'[x] <= 2 + writes'
    BY SMTT(10)
    DEF T!IInv, T!Records, T!UndoFails, T!At, T!Fault, T!Steady, T!GiveUp, T!NoJob,
        T!NoForm, T!rowVars, T!bounds, T!Nothing, T!Nodes, T!Steps, T!Kinds
  <2>. QED BY <2>1, <2>2, <2>3 DEF T!Records
<1>3. T!JobInv'
  BY SMTT(10)
  DEF T!IInv, T!JobInv, T!UndoFails, T!At, T!Fault, T!Remote, T!Transfer, T!Steady, T!GiveUp,
      T!NoJob, T!NoForm, T!rowVars, T!bounds, T!Nothing, T!Kinds, T!Before
<1>4. T!DataInv'
  BY SMTT(10)
  DEF T!IInv, T!JobInv, T!DataInv, T!UndoFails, T!At, T!Fault, T!Remote, T!Transfer,
      T!Steady, T!GiveUp, T!NoJob, T!NoForm, T!rowVars, T!bounds, T!Nothing, T!Kinds,
      T!Before, T!Restored
<1>5. T!UndoInv'
  BY SMTT(10)
  DEF T!UndoInv, T!UndoFails, T!At, T!Fault, T!Transfer, T!Steady, T!GiveUp, T!NoJob,
      T!NoForm, T!rowVars, T!bounds, T!Nothing
<1>6. T!RowInv'
  BY SMTT(10)
  DEF T!IInv, T!RowInv, T!UndoFails, T!At, T!Fault, T!Transfer, T!Steady, T!GiveUp,
      T!NoJob, T!NoForm, T!rowVars, T!bounds, T!Rows, T!Nothing, T!Nodes
<1>7. T!FailedTransferIsUndone'
  BY SMTT(10)
  DEF T!FailedTransferIsUndone, T!UndoFails, T!At, T!Fault, T!Steady, T!GiveUp,
      T!NoJob, T!NoForm, T!rowVars, T!bounds, T!Nothing
<1>. QED BY <1>1, <1>2, <1>3, <1>4, <1>5, <1>6, <1>7 DEF T!IInv

LEMMA Transfer_UndoExpired ==
  ASSUME T!TransferAssumption, T!IInv, T!UndoExpired PROVE T!IInv'
<1>1. T!TypeOK'
  BY SMTT(10)
  DEF T!IInv, T!TypeOK, T!UndoExpired, T!At, T!Steady, T!GiveUp, T!NoJob, T!NoForm,
      T!hostVars, T!rowVars, T!bounds, T!Nothing, T!Nodes, T!Steps, T!Contents
<1>2. T!Records'
  <2>1. transfer' \in T!Jobs
    BY TransferTyped, TransferNames, SMTT(10)
    DEF T!IInv, T!Records, T!UndoExpired, T!At, T!Steady, T!GiveUp, T!NoJob, T!NoForm,
        T!hostVars, T!rowVars, T!bounds, T!Nothing, T!Nodes, T!Steps, T!Kinds, T!Jobs,
        T!Pasts
  <2>2. transferPast' \in T!Pasts
    BY SMTT(10)
    DEF T!IInv, T!Records, T!UndoExpired, T!At, T!Steady, T!GiveUp, T!NoJob, T!NoForm,
        T!hostVars, T!rowVars, T!bounds, T!Nothing, T!Nodes, T!Steps, T!Kinds
  <2>3. /\ writes' \in 0..MaxWrites /\ transfer'.bundle <= 2 + writes'
       /\ \A x \in T!Nodes : guest'[x] <= 2 + writes' /\ aside'[x] <= 2 + writes'
    BY SMTT(10)
    DEF T!IInv, T!Records, T!UndoExpired, T!At, T!Steady, T!GiveUp, T!NoJob, T!NoForm,
        T!hostVars, T!rowVars, T!bounds, T!Nothing, T!Nodes, T!Steps, T!Kinds
  <2>. QED BY <2>1, <2>2, <2>3 DEF T!Records
<1>3. T!JobInv'
  BY SMTT(10)
  DEF T!IInv, T!JobInv, T!UndoExpired, T!At, T!Remote, T!Transfer, T!Steady, T!GiveUp, T!NoJob,
      T!NoForm, T!hostVars, T!rowVars, T!bounds, T!Nothing, T!Kinds, T!Before
<1>4. T!DataInv'
  BY SMTT(10)
  DEF T!IInv, T!DataInv, T!UndoExpired, T!At, T!Transfer, T!Steady, T!GiveUp, T!NoJob,
      T!NoForm, T!hostVars, T!rowVars, T!bounds, T!Nothing, T!Before, T!Restored
<1>5. T!UndoInv'
  BY SMTT(10)
  DEF T!UndoInv, T!UndoExpired, T!At, T!Transfer, T!Steady, T!GiveUp, T!NoJob,
      T!NoForm, T!hostVars, T!rowVars, T!bounds, T!Nothing
<1>6. T!RowInv'
  BY SMTT(10)
  DEF T!IInv, T!RowInv, T!UndoExpired, T!At, T!Transfer, T!Steady, T!GiveUp, T!NoJob,
      T!NoForm, T!hostVars, T!rowVars, T!bounds, T!Rows, T!Nothing, T!Nodes
<1>7. T!FailedTransferIsUndone'
  BY SMTT(10)
  DEF T!IInv, T!TypeOK, T!JobInv, T!UndoInv, T!RowInv, T!FailedTransferIsUndone,
      T!UndoExpired, T!At, T!Remote, T!Transfer, T!Steady, T!GiveUp, T!NoJob, T!NoForm,
      T!hostVars, T!rowVars, T!bounds, T!Rows, T!Nothing, T!Nodes, T!Steps, T!Kinds,
      T!Before, T!Contents
<1>. QED BY <1>1, <1>2, <1>3, <1>4, <1>5, <1>6, <1>7 DEF T!IInv

LEMMA Transfer_Ask ==
  ASSUME T!TransferAssumption, T!IInv, NEW p \in T!Placements, NEW again \in BOOLEAN, T!Ask(p, again) PROVE T!IInv'
<1>1. T!TypeOK'
  <2>1. /\ guest' = guest /\ running' = running /\ aside' = aside /\ stray' = stray
        /\ applied' = applied /\ ready' = ready /\ placed' = placed /\ joining' = joining
        /\ transfer' = transfer
        /\ form' = [at |-> "asked", want |-> p,
                    cols |-> T!Changed(placed, p) \cup (IF again THEN {"multi", "nodes"} ELSE {})]
    BY DEF T!Ask, T!hostVars, T!rowVars
  <2>2. T!Changed(placed, p) \cup (IF again THEN {"multi", "nodes"} ELSE {}) \in SUBSET T!Names
    BY TransferTyped, TransferPlaced DEF T!Names
  <2>3. form' \in T!Forms
    BY <2>1, <2>2 DEF T!Forms
  <2>. QED BY <2>1, <2>3, SMTT(10) DEF T!IInv, T!TypeOK, T!At
<1>2. T!Records'
  <2>1. transfer' \in T!Jobs
    BY DEF T!IInv, T!Records, T!Ask, T!hostVars, T!rowVars
  <2>2. transferPast' \in T!Pasts
    BY SMTT(10)
    DEF T!IInv, T!Records, T!Ask, T!At, T!NoForm, T!hostVars, T!rowVars, T!bounds,
        T!Nodes, T!Steps, T!Kinds
  <2>3. /\ writes' \in 0..MaxWrites /\ transfer'.bundle <= 2 + writes'
       /\ \A x \in T!Nodes : guest'[x] <= 2 + writes' /\ aside'[x] <= 2 + writes'
    BY SMTT(10)
    DEF T!IInv, T!Records, T!Ask, T!At, T!NoForm, T!hostVars, T!rowVars, T!bounds,
        T!Nodes, T!Steps, T!Kinds
  <2>. QED BY <2>1, <2>2, <2>3 DEF T!Records
<1>3. T!JobInv'
  BY SMTT(10)
  DEF T!IInv, T!JobInv, T!Ask, T!At, T!Remote, T!Transfer, T!NoForm, T!hostVars,
      T!rowVars, T!bounds, T!Nothing, T!Kinds, T!Before
<1>4. T!DataInv'
  BY SMTT(10)
  DEF T!IInv, T!DataInv, T!Ask, T!At, T!Transfer, T!NoForm, T!hostVars, T!rowVars,
      T!bounds, T!Nothing, T!Before, T!Restored
<1>5. T!UndoInv'
  BY SMTT(10)
  DEF T!UndoInv, T!Ask, T!At, T!Transfer, T!NoForm, T!hostVars, T!rowVars, T!bounds,
      T!Nothing
<1>6. T!RowInv'
  BY SMTT(10)
  DEF T!IInv, T!RowInv, T!Ask, T!At, T!Transfer, T!NoForm, T!hostVars, T!rowVars,
      T!bounds, T!Rows, T!Nothing, T!Nodes
<1>7. T!FailedTransferIsUndone'
  BY SMTT(10)
  DEF T!IInv, T!FailedTransferIsUndone, T!Ask, T!At, T!NoForm, T!hostVars, T!rowVars,
      T!bounds
<1>. QED BY <1>1, <1>2, <1>3, <1>4, <1>5, <1>6, <1>7 DEF T!IInv

LEMMA Transfer_BeginPlacement ==
  ASSUME T!TransferAssumption, T!IInv, T!BeginPlacement PROVE T!IInv'
<1>1. T!TypeOK'
  BY TransferNames, SMTT(10)
  DEF T!IInv, T!TypeOK, T!BeginPlacement, T!At, T!NoJob, T!NoPast,
      T!hostVars, T!rowVars, T!Nothing, T!Nodes, T!Steps, T!Contents
<1>2. T!Records'
  <2>1. transfer' \in T!Jobs
    <3>1. transfer' = [at |-> "apply", kind |-> "place", source |-> Leader,
                       target |-> Leader, wasUp |-> FALSE, bundle |-> T!Nothing,
                       next |-> form.want, cols |-> form.cols,
                       todo |-> {}, cleaned |-> {}]
      BY TransferTyped DEF T!BeginPlacement, T!Jobs, T!NoJob
    <3>. QED
      BY <3>1, TransferTyped, TransferNames DEF T!Jobs, T!Steps, T!Kinds, T!Nothing
  <2>2. transferPast' \in T!Pasts
    <3>1. transferPast' = [moved |-> T!Nothing, source |-> Leader, target |-> Leader,
                           guest |-> T!Nothing,
            up |-> FALSE, unseen |-> FALSE, failed |-> FALSE, stopped |-> FALSE, excused |-> FALSE,
            died |-> FALSE, hollow |-> transferPast.hollow]
      BY DEF T!BeginPlacement, T!NoPast
    <3>. QED BY <3>1, TransferTyped, TransferNames DEF T!Pasts, T!Nothing
  <2>3. /\ writes' \in 0..MaxWrites /\ transfer'.bundle <= 2 + writes'
       /\ \A x \in T!Nodes : guest'[x] <= 2 + writes' /\ aside'[x] <= 2 + writes'
    BY SMTT(10)
    DEF T!IInv, T!Records, T!BeginPlacement, T!At, T!NoJob, T!NoPast, T!NoForm,
        T!hostVars, T!rowVars, T!Nothing, T!Nodes, T!Steps, T!Kinds
  <2>. QED BY <2>1, <2>2, <2>3 DEF T!Records
<1>3. T!JobInv'
  BY SMTT(10)
  DEF T!JobInv, T!BeginPlacement, T!At, T!Remote, T!Transfer, T!NoJob, T!NoPast,
      T!NoForm, T!hostVars, T!rowVars, T!Nothing, T!Kinds, T!Before
<1>4. T!DataInv'
  BY SMTT(10)
  DEF T!DataInv, T!BeginPlacement, T!At, T!Transfer, T!NoJob, T!NoPast, T!NoForm,
      T!hostVars, T!rowVars, T!Nothing, T!Before, T!Restored
<1>5. T!UndoInv'
  BY SMTT(10)
  DEF T!UndoInv, T!BeginPlacement, T!At, T!Transfer, T!NoJob, T!NoPast, T!NoForm,
      T!hostVars, T!rowVars, T!Nothing
<1>6. T!RowInv'
  BY TransferTyped, TransferNames, SMTT(10)
  DEF T!IInv, T!RowInv, T!BeginPlacement, T!At, T!Transfer, T!NoJob, T!NoPast,
      T!NoForm, T!hostVars, T!rowVars, T!Rows, T!Nothing, T!Nodes, T!Jobs, T!Pasts
<1>7. T!FailedTransferIsUndone'
  BY SMTT(10)
  DEF T!FailedTransferIsUndone, T!BeginPlacement, T!At, T!NoJob, T!NoPast, T!NoForm,
      T!hostVars, T!rowVars, T!Nothing
<1>. QED BY <1>1, <1>2, <1>3, <1>4, <1>5, <1>6, <1>7 DEF T!IInv

LEMMA Transfer_FormRefused ==
  ASSUME T!TransferAssumption, T!IInv, T!FormRefused PROVE T!IInv'
<1>1. T!TypeOK'
  BY TransferNames, SMTT(10)
  DEF T!IInv, T!TypeOK, T!FormRefused, T!At, T!NoJob, T!hostVars, T!rowVars,
      T!bounds, T!Nothing, T!Nodes, T!Steps, T!Contents
<1>2. T!Records'
  <2>1. transfer' \in T!Jobs
    BY DEF T!IInv, T!Records, T!FormRefused, T!hostVars, T!rowVars
  <2>2. transferPast' \in T!Pasts
    BY SMTT(10)
    DEF T!IInv, T!Records, T!FormRefused, T!At, T!NoForm, T!hostVars, T!rowVars,
        T!bounds, T!Nodes, T!Steps, T!Kinds
  <2>3. /\ writes' \in 0..MaxWrites /\ transfer'.bundle <= 2 + writes'
       /\ \A x \in T!Nodes : guest'[x] <= 2 + writes' /\ aside'[x] <= 2 + writes'
    BY SMTT(10)
    DEF T!IInv, T!Records, T!FormRefused, T!At, T!NoForm, T!hostVars, T!rowVars,
        T!bounds, T!Nodes, T!Steps, T!Kinds
  <2>. QED BY <2>1, <2>2, <2>3 DEF T!Records
<1>3. T!JobInv'
  BY SMTT(10)
  DEF T!IInv, T!JobInv, T!FormRefused, T!At, T!Remote, T!Transfer, T!NoForm,
      T!hostVars, T!rowVars, T!bounds, T!Nothing, T!Kinds, T!Before
<1>4. T!DataInv'
  BY SMTT(10)
  DEF T!IInv, T!DataInv, T!FormRefused, T!At, T!Transfer, T!NoForm, T!hostVars,
      T!rowVars, T!bounds, T!Nothing, T!Before, T!Restored
<1>5. T!UndoInv'
  BY SMTT(10)
  DEF T!IInv, T!UndoInv, T!FormRefused, T!At, T!Transfer, T!NoForm, T!hostVars,
      T!rowVars, T!bounds, T!Nothing
<1>6. T!RowInv'
  BY SMTT(10)
  DEF T!IInv, T!RowInv, T!FormRefused, T!At, T!Transfer, T!NoForm, T!hostVars,
      T!rowVars, T!bounds, T!Rows, T!Nothing, T!Nodes
<1>7. T!FailedTransferIsUndone'
  BY SMTT(10)
  DEF T!FailedTransferIsUndone, T!FormRefused, T!At, T!NoForm, T!hostVars, T!rowVars,
      T!bounds
<1>. QED BY <1>1, <1>2, <1>3, <1>4, <1>5, <1>6, <1>7 DEF T!IInv

LEMMA Transfer_Validate ==
  ASSUME T!TransferAssumption, T!IInv, T!Validate PROVE T!IInv'
<1>1. T!TypeOK'
  BY SMTT(10)
  DEF T!IInv, T!TypeOK, T!Validate, T!At, T!Goto, T!Transfer, T!Steady, T!NoJob,
      T!NoForm, T!hostVars, T!rowVars, T!bounds, T!Rows, T!Nothing, T!Nodes, T!Steps,
      T!Contents, T!Validated
<1>2. T!Records'
  <2>1. transfer' \in T!Jobs
    BY TransferGoes, SMTT(10)
    DEF T!IInv, T!Records, T!Validate, T!At, T!Goto, T!Transfer, T!Steady, T!NoForm,
        T!hostVars, T!rowVars, T!bounds, T!Rows, T!Nodes, T!Steps, T!Kinds, T!Validated
  <2>2. transferPast' \in T!Pasts
    BY SMTT(10)
    DEF T!IInv, T!Records, T!Validate, T!At, T!Goto, T!Transfer, T!Steady, T!NoForm,
        T!hostVars, T!rowVars, T!bounds, T!Rows, T!Nodes, T!Steps, T!Kinds, T!Validated
  <2>3. /\ writes' \in 0..MaxWrites /\ transfer'.bundle <= 2 + writes'
       /\ \A x \in T!Nodes : guest'[x] <= 2 + writes' /\ aside'[x] <= 2 + writes'
    BY SMTT(10)
    DEF T!IInv, T!Records, T!Validate, T!At, T!Goto, T!Transfer, T!Steady, T!NoForm,
        T!hostVars, T!rowVars, T!bounds, T!Rows, T!Nodes, T!Steps, T!Kinds, T!Validated
  <2>. QED BY <2>1, <2>2, <2>3 DEF T!Records
<1>3. T!JobInv'
  BY SMTT(10)
  DEF T!IInv, T!JobInv, T!Validate, T!At, T!Goto, T!Remote, T!Transfer, T!Steady,
      T!hostVars, T!rowVars, T!bounds, T!Rows, T!Nothing, T!Kinds, T!Before,
      T!Validated
<1>4. T!DataInv'
  BY SMTT(10)
  DEF T!IInv, T!DataInv, T!Validate, T!At, T!Goto, T!Transfer, T!Steady, T!hostVars,
      T!rowVars, T!bounds, T!Rows, T!Nothing, T!Before, T!Restored, T!Validated
<1>5. T!UndoInv'
  BY SMTT(10)
  DEF T!IInv, T!UndoInv, T!Validate, T!At, T!Goto, T!Transfer, T!Steady, T!hostVars,
      T!rowVars, T!bounds, T!Rows, T!Nothing, T!Validated
<1>6. T!RowInv'
  BY SMTT(10)
  DEF T!IInv, T!RowInv, T!Validate, T!At, T!Goto, T!Transfer, T!Steady, T!hostVars,
      T!rowVars, T!bounds, T!Rows, T!Nothing, T!Nodes, T!Validated
<1>7. T!FailedTransferIsUndone'
  BY SMTT(10)
  DEF T!FailedTransferIsUndone, T!Validate, T!At, T!Goto, T!Transfer, T!Steady,
      T!hostVars, T!rowVars, T!bounds, T!Rows, T!Validated
<1>. QED BY <1>1, <1>2, <1>3, <1>4, <1>5, <1>6, <1>7 DEF T!IInv

LEMMA Transfer_ApplyRejected ==
  ASSUME T!TransferAssumption, T!IInv, T!ApplyRejected PROVE T!IInv'
<1>1. T!TypeOK'
  BY TransferTyped, TransferNames, SMTT(10)
  DEF T!IInv, T!TypeOK, T!ApplyRejected, T!At, T!Goto, T!Transfer, T!Steady, T!GiveUp,
      T!Excused, T!NoJob, T!NoForm, T!hostVars, T!rowVars, T!bounds, T!Rows, T!Nothing,
      T!Nodes, T!Steps, T!Contents, T!Validated, T!Jobs, T!Pasts
<1>2. T!Records'
  <2>1. transfer' \in T!Jobs
    BY TransferNames, TransferGoes, SMTT(10)
    DEF T!IInv, T!Records, T!JobInv, T!Steps, T!Kinds, T!At, T!Transfer,
        T!ApplyRejected, T!GiveUp
  <2>2. transferPast' \in T!Pasts
    BY TransferTyped DEF T!Pasts, T!ApplyRejected, T!Failed, T!Excused
  <2>3. /\ writes' \in 0..MaxWrites /\ transfer'.bundle <= 2 + writes'
       /\ \A x \in T!Nodes : guest'[x] <= 2 + writes' /\ aside'[x] <= 2 + writes'
    BY TransferNames, SMTT(10)
    DEF T!IInv, T!Records, T!ApplyRejected, T!At, T!Goto, T!Transfer, T!Steady,
        T!GiveUp, T!Excused, T!NoJob, T!NoForm, T!hostVars, T!rowVars, T!bounds,
        T!Rows, T!Nothing, T!Nodes, T!Steps, T!Kinds, T!Validated, T!Jobs, T!Pasts
  <2>. QED BY <2>1, <2>2, <2>3 DEF T!Records
<1>3. T!JobInv'
  <2>1. CASE T!Transfer
    BY <2>1, TransferTyped, TransferNames, SMTT(10)
    DEF T!IInv, T!TypeOK, T!Records, T!JobInv, T!DataInv, T!UndoInv, T!RowInv,
        T!FailedTransferIsUndone, T!ApplyRejected, T!At, T!Goto, T!Remote, T!Transfer,
        T!Steady, T!GiveUp, T!Excused, T!NoJob, T!NoForm, T!hostVars, T!rowVars,
        T!bounds, T!Rows, T!Nothing, T!Nodes, T!Steps, T!Kinds, T!Before, T!Restored,
        T!Contents, T!Validated, T!Jobs, T!Pasts
  <2>2. CASE ~T!Transfer
    BY <2>2, SMTT(10)
    DEF T!IInv, T!JobInv, T!ApplyRejected, T!At, T!Goto, T!Remote, T!Transfer,
        T!Steady, T!GiveUp, T!Excused, T!NoJob, T!NoForm, T!hostVars, T!rowVars,
        T!bounds, T!Rows, T!Nothing, T!Kinds, T!Before, T!Validated
  <2>. QED BY <2>1, <2>2
<1>4. T!DataInv'
  BY TransferTyped, TransferNames, SMTT(10)
  DEF T!IInv, T!DataInv, T!ApplyRejected, T!At, T!Goto, T!Transfer, T!Steady, T!GiveUp,
      T!Excused, T!NoJob, T!NoForm, T!hostVars, T!rowVars, T!bounds, T!Rows, T!Nothing,
      T!Before, T!Restored, T!Validated, T!Jobs, T!Pasts
<1>5. T!UndoInv'
  BY TransferTyped, TransferNames, SMTT(10)
  DEF T!IInv, T!UndoInv, T!ApplyRejected, T!At, T!Goto, T!Transfer, T!Steady, T!GiveUp,
      T!Excused, T!NoJob, T!NoForm, T!hostVars, T!rowVars, T!bounds, T!Rows, T!Nothing,
      T!Validated, T!Jobs, T!Pasts
<1>6. T!RowInv'
  BY TransferTyped, TransferNames, SMTT(10)
  DEF T!IInv, T!RowInv, T!ApplyRejected, T!At, T!Goto, T!Transfer, T!Steady, T!GiveUp,
      T!Excused, T!NoJob, T!NoForm, T!hostVars, T!rowVars, T!bounds, T!Rows, T!Nothing,
      T!Nodes, T!Validated, T!Jobs, T!Pasts
<1>7. T!FailedTransferIsUndone'
  BY TransferTyped, TransferNames, SMTT(10)
  DEF T!IInv, T!TypeOK, T!JobInv, T!UndoInv, T!RowInv, T!FailedTransferIsUndone,
      T!ApplyRejected, T!At, T!Goto, T!Remote, T!Transfer, T!Steady, T!GiveUp,
      T!Excused, T!NoJob, T!NoForm, T!hostVars, T!rowVars, T!bounds, T!Rows, T!Nothing,
      T!Nodes, T!Steps, T!Kinds, T!Before, T!Contents, T!Validated, T!Jobs, T!Pasts
<1>. QED BY <1>1, <1>2, <1>3, <1>4, <1>5, <1>6, <1>7 DEF T!IInv

LEMMA Transfer_Reconcile ==
  ASSUME T!TransferAssumption, T!IInv, NEW full \in BOOLEAN, T!Reconcile(full)
  PROVE  T!IInv'
<1>1. T!TypeOK'
  <2>1. (guest \in [T!Nodes -> T!Contents] /\ aside \in [T!Nodes -> T!Contents])'
    BY TransferNames, SMTT(10)
    DEF T!IInv, T!TypeOK, T!Reconcile, T!At, T!Goto, T!Steady, T!NoJob, T!NoForm,
        T!rowVars, T!bounds, T!Nothing, T!Fresh, T!Nodes, T!Steps, T!Contents,
        T!Blocked, T!Jobs, T!Pasts
  <2>2. (running \in [T!Nodes -> BOOLEAN] /\ \A x \in T!Nodes : running[x] => guest[x] # T!Nothing)'
    <3>1. CASE Leader \in T!NodesOf(transfer.next)
      BY <3>1, SMTT(10)
      DEF T!IInv, T!TypeOK, T!Reconcile, T!At, T!Goto, T!Steady, T!NoJob, T!NoForm,
          T!rowVars, T!bounds, T!Nothing, T!Fresh, T!Nodes, T!Steps, T!Contents,
          T!Blocked
    <3>2. CASE Leader \notin T!NodesOf(transfer.next)
      <4>1. CASE full \/ Leader \in applied
        <5>1. /\ guest' = [guest EXCEPT ![Leader] = T!Nothing]
              /\ running' = [running EXCEPT ![Leader] = FALSE]
          BY <3>2, <4>1 DEF T!Reconcile
        <5>. QED BY <5>1, TransferNames DEF T!IInv, T!TypeOK
      <4>2. CASE ~full /\ Leader \notin applied
        <5>1. guest' = [guest EXCEPT ![Leader] = @] /\ running' = [running EXCEPT ![Leader] = FALSE \/ @]
          BY <3>2, <4>2 DEF T!Reconcile
        <5>. QED BY <5>1, TransferNames DEF T!IInv, T!TypeOK
      <4>. QED BY <4>1, <4>2
    <3>. QED BY <3>1, <3>2
  <2>3. (/\ stray \in BOOLEAN
         /\ placed \in T!Columns /\ form \in T!Forms
         /\ ready \in SUBSET Followers /\ joining \in SUBSET Followers
         /\ applied \in SUBSET T!Nodes /\ applied \cap Followers \subseteq ready)'
    BY SMTT(10)
    DEF T!IInv, T!TypeOK, T!Reconcile, T!At, T!Goto, T!Steady, T!NoJob, T!NoForm,
        T!rowVars, T!bounds, T!Nothing, T!Fresh, T!Nodes, T!Steps, T!Contents,
        T!Blocked
  <2>4. (/\ transfer.at \in T!Steps /\ {transfer.source, transfer.target} \subseteq T!Nodes
         /\ T!At("idle") => transfer = T!NoJob)'
    BY SMTT(10)
    DEF T!IInv, T!TypeOK, T!Reconcile, T!At, T!Goto, T!Steady, T!NoJob, T!NoForm,
        T!rowVars, T!bounds, T!Nothing, T!Fresh, T!Nodes, T!Steps, T!Contents,
        T!Blocked
  <2>. QED BY <2>1, <2>2, <2>3, <2>4 DEF T!TypeOK, T!At
<1>2. T!Records'
  <2>1. transfer' \in T!Jobs
    BY TransferGoes, SMTT(10)
    DEF T!IInv, T!Records, T!Reconcile, T!At, T!Goto, T!Steady, T!NoForm, T!rowVars,
        T!bounds, T!Nothing, T!Fresh, T!Nodes, T!Steps, T!Kinds, T!Blocked
  <2>2. transferPast' \in T!Pasts
    BY SMTT(10)
    DEF T!IInv, T!Records, T!Reconcile, T!At, T!Goto, T!Steady, T!NoForm, T!rowVars,
        T!bounds, T!Nothing, T!Fresh, T!Nodes, T!Steps, T!Kinds, T!Blocked
  <2>3. /\ writes' \in 0..MaxWrites /\ transfer'.bundle <= 2 + writes'
       /\ \A x \in T!Nodes : guest'[x] <= 2 + writes' /\ aside'[x] <= 2 + writes'
    BY SMTT(10)
    DEF T!IInv, T!Records, T!Reconcile, T!At, T!Goto, T!Steady, T!NoForm, T!rowVars,
        T!bounds, T!Nothing, T!Fresh, T!Nodes, T!Steps, T!Kinds, T!Blocked
  <2>. QED BY <2>1, <2>2, <2>3 DEF T!Records
<1>3. T!JobInv'
  BY SMTT(10)
  DEF T!IInv, T!JobInv, T!Reconcile, T!At, T!Goto, T!Remote, T!Transfer, T!Steady,
      T!rowVars, T!bounds, T!Nothing, T!Fresh, T!Kinds, T!Before, T!Blocked
<1>4. T!DataInv'
  <2>1. T!Transfer => T!NodesOf(transfer.next) = {transfer.target}
    BY TransferTyped, TransferPlaced DEF T!IInv, T!JobInv
  <2>. QED
    BY <2>1, TransferTyped, TransferNames, SMTT(10)
    DEF T!IInv, T!JobInv, T!DataInv, T!Reconcile, T!At, T!Goto, T!Remote, T!Transfer,
        T!Steady, T!rowVars, T!bounds, T!Nothing, T!Fresh, T!Kinds, T!Before, T!Restored,
        T!Blocked, T!Jobs, T!Pasts
<1>5. T!UndoInv'
  BY SMTT(10)
  DEF T!IInv, T!UndoInv, T!Reconcile, T!At, T!Goto, T!Transfer, T!Steady, T!rowVars,
      T!bounds, T!Nothing, T!Fresh, T!Blocked
<1>6. T!RowInv'
  BY TransferNames, SMTT(10)
  DEF T!IInv, T!TypeOK, T!RowInv, T!Reconcile, T!At, T!Goto, T!Transfer, T!Steady,
      T!NoJob, T!NoForm, T!rowVars, T!bounds, T!Rows, T!Nothing, T!Fresh, T!Nodes,
      T!Steps, T!Contents, T!Blocked, T!Jobs, T!Pasts
<1>7. T!FailedTransferIsUndone'
  BY SMTT(10)
  DEF T!FailedTransferIsUndone, T!Reconcile, T!At, T!Goto, T!Steady, T!rowVars,
      T!bounds, T!Nothing, T!Fresh, T!Blocked
<1>. QED BY <1>1, <1>2, <1>3, <1>4, <1>5, <1>6, <1>7 DEF T!IInv

LEMMA Transfer_ReconcileBlocked ==
  ASSUME T!TransferAssumption, T!IInv, NEW full \in BOOLEAN, T!ReconcileBlocked(full)
  PROVE  T!IInv'
<1>1. T!TypeOK'
  BY TransferTyped, TransferNames, SMTT(10)
  DEF T!IInv, T!TypeOK, T!ReconcileBlocked, T!At, T!Goto, T!Transfer, T!Steady,
      T!GiveUp, T!Excused, T!NoJob, T!NoForm, T!rowVars, T!bounds, T!Nothing, T!Nodes,
      T!Steps, T!Contents, T!Blocked, T!Jobs, T!Pasts
<1>2. T!Records'
  <2>1. transfer' \in T!Jobs
    BY TransferNames, TransferGoes, SMTT(10)
    DEF T!IInv, T!Records, T!JobInv, T!Steps, T!Kinds, T!At, T!Transfer,
        T!ReconcileBlocked, T!GiveUp
  <2>2. transferPast' \in T!Pasts
    BY TransferTyped DEF T!Pasts, T!ReconcileBlocked, T!Failed, T!Excused
  <2>3. /\ writes' \in 0..MaxWrites /\ transfer'.bundle <= 2 + writes'
       /\ \A x \in T!Nodes : guest'[x] <= 2 + writes' /\ aside'[x] <= 2 + writes'
    BY TransferNames, SMTT(10)
    DEF T!IInv, T!Records, T!ReconcileBlocked, T!At, T!Goto, T!Transfer, T!Steady,
        T!GiveUp, T!Excused, T!NoJob, T!NoForm, T!rowVars, T!bounds, T!Nothing,
        T!Nodes, T!Steps, T!Kinds, T!Blocked, T!Jobs, T!Pasts
  <2>. QED BY <2>1, <2>2, <2>3 DEF T!Records
<1>3. T!JobInv'
  <2>1. CASE T!Transfer
    <3>1. transfer' = [at |-> "expired", kind |-> transfer.kind,
                       source |-> transfer.source, target |-> transfer.target,
                       wasUp |-> transfer.wasUp, bundle |-> transfer.bundle,
                       next |-> transfer.next, cols |-> transfer.cols, todo |-> transfer.todo,
                       cleaned |-> transfer.cleaned]
      BY <2>1, TransferTyped, TransferGoes DEF T!ReconcileBlocked, T!Steps
    <3>2. /\ form' = form /\ ready' = ready /\ transferPast'.moved = transferPast.moved
          /\ transferPast'.unseen = transferPast.unseen
          /\ transferPast'.source = transferPast.source
          /\ transferPast'.target = transferPast.target
          /\ transferPast'.up = transferPast.up
      BY <2>1, TransferTyped DEF T!ReconcileBlocked, T!Excused, T!Steady, T!rowVars, T!Pasts
    <3>3. /\ transferPast.source = transfer.source /\ transferPast.target = transfer.target
          /\ transfer.wasUp = (transferPast.up /\ ~transferPast.unseen)
          /\ transferPast.moved # T!Nothing
          /\ transferPast.moved = transfer.bundle /\ transfer.source # transfer.target
          /\ transfer.next = T!Single(transfer.target)
          /\ form.at = "unsaved" => T!NodesOf(form.want) \cap Followers \subseteq ready
          /\ form.at = "unsaved" => transfer.at \in {"restore", "in", "start", "verify"}
      BY <2>1 DEF T!IInv, T!JobInv, T!Transfer, T!Kinds, T!ReconcileBlocked, T!At
    <3>. QED
      BY <2>1, <3>1, <3>2, <3>3, SMTT(10)
      DEF T!At, T!JobInv, T!Remote, T!Transfer, T!Nothing, T!Kinds, T!Before, T!ReconcileBlocked
  <2>2. CASE ~T!Transfer
    BY <2>2, SMTT(10)
    DEF T!IInv, T!JobInv, T!ReconcileBlocked, T!At, T!Goto, T!Remote, T!Transfer,
        T!Steady, T!GiveUp, T!Excused, T!NoJob, T!NoForm, T!rowVars, T!bounds,
        T!Nothing, T!Kinds, T!Before, T!Blocked
  <2>. QED BY <2>1, <2>2
<1>4. T!DataInv'
  BY TransferTyped, TransferNames, SMTT(10)
  DEF T!IInv, T!DataInv, T!ReconcileBlocked, T!At, T!Goto, T!Transfer, T!Steady,
      T!GiveUp, T!Excused, T!NoJob, T!NoForm, T!rowVars, T!bounds, T!Nothing, T!Before,
      T!Restored, T!Blocked, T!Jobs, T!Pasts
<1>5. T!UndoInv'
  BY TransferTyped, TransferNames, SMTT(10)
  DEF T!IInv, T!UndoInv, T!ReconcileBlocked, T!At, T!Goto, T!Transfer, T!Steady,
      T!GiveUp, T!Excused, T!NoJob, T!NoForm, T!rowVars, T!bounds, T!Nothing,
      T!Blocked, T!Jobs, T!Pasts
<1>6. T!RowInv'
  BY TransferTyped, TransferNames, SMTT(10)
  DEF T!IInv, T!RowInv, T!ReconcileBlocked, T!At, T!Goto, T!Transfer, T!Steady,
      T!GiveUp, T!Excused, T!NoJob, T!NoForm, T!rowVars, T!bounds, T!Rows, T!Nothing,
      T!Nodes, T!Blocked, T!Jobs, T!Pasts
<1>7. T!FailedTransferIsUndone'
  BY TransferTyped, TransferNames, SMTT(10)
  DEF T!IInv, T!TypeOK, T!JobInv, T!UndoInv, T!RowInv, T!FailedTransferIsUndone,
      T!ReconcileBlocked, T!At, T!Goto, T!Remote, T!Transfer, T!Steady, T!GiveUp,
      T!Excused, T!NoJob, T!NoForm, T!rowVars, T!bounds, T!Rows, T!Nothing, T!Nodes,
      T!Steps, T!Kinds, T!Before, T!Contents, T!Blocked, T!Jobs, T!Pasts
<1>. QED BY <1>1, <1>2, <1>3, <1>4, <1>5, <1>6, <1>7 DEF T!IInv

LEMMA Transfer_ApplyFails ==
  ASSUME T!TransferAssumption, T!IInv, T!ApplyFails PROVE T!IInv'
<1>1. T!TypeOK'
  BY TransferTyped, TransferNames, SMTT(10)
  DEF T!IInv, T!TypeOK, T!ApplyFails, T!At, T!Goto, T!Fault, T!Transfer, T!Steady,
      T!GiveUp, T!Excused, T!NoJob, T!NoForm, T!hostVars, T!rowVars, T!bounds,
      T!Nothing, T!Nodes, T!Steps, T!Contents, T!Jobs, T!Pasts
<1>2. T!Records'
  <2>1. transfer' \in T!Jobs
    BY TransferNames, TransferGoes, SMTT(10)
    DEF T!IInv, T!Records, T!JobInv, T!Steps, T!Kinds, T!At, T!Transfer, T!ApplyFails,
        T!GiveUp
  <2>2. transferPast' \in T!Pasts
    BY TransferTyped DEF T!Pasts, T!ApplyFails, T!Failed, T!Excused
  <2>3. /\ writes' \in 0..MaxWrites /\ transfer'.bundle <= 2 + writes'
       /\ \A x \in T!Nodes : guest'[x] <= 2 + writes' /\ aside'[x] <= 2 + writes'
    BY TransferNames, SMTT(10)
    DEF T!IInv, T!Records, T!ApplyFails, T!Goto, T!Fault, T!Transfer, T!Steady,
        T!GiveUp, T!Excused, T!NoJob, T!NoForm, T!hostVars, T!rowVars, T!bounds,
        T!Nothing, T!Nodes, T!Steps, T!Kinds, T!Jobs, T!Pasts
  <2>. QED BY <2>1, <2>2, <2>3 DEF T!Records
<1>3. T!JobInv'
  <2>1. CASE T!Transfer
    BY <2>1, TransferTyped, TransferNames, SMTT(10)
    DEF T!IInv, T!TypeOK, T!Records, T!JobInv, T!DataInv, T!UndoInv, T!RowInv,
        T!FailedTransferIsUndone, T!ApplyFails, T!At, T!Goto, T!Fault, T!Remote,
        T!Transfer, T!Steady, T!GiveUp, T!Excused, T!NoJob, T!NoForm, T!hostVars,
        T!rowVars, T!bounds, T!Rows, T!Nothing, T!Nodes, T!Steps, T!Kinds, T!Before,
        T!Restored, T!Contents, T!Jobs, T!Pasts
  <2>2. CASE ~T!Transfer
    BY <2>2, SMTT(10)
    DEF T!IInv, T!JobInv, T!ApplyFails, T!At, T!Goto, T!Fault, T!Remote, T!Transfer,
        T!Steady, T!GiveUp, T!Excused, T!NoJob, T!NoForm, T!hostVars, T!rowVars,
        T!bounds, T!Nothing, T!Kinds, T!Before
  <2>. QED BY <2>1, <2>2
<1>4. T!DataInv'
  BY TransferTyped, TransferNames, SMTT(10)
  DEF T!IInv, T!DataInv, T!ApplyFails, T!Goto, T!Fault, T!Transfer, T!Steady, T!GiveUp,
      T!Excused, T!NoJob, T!NoForm, T!hostVars, T!rowVars, T!bounds, T!Nothing,
      T!Before, T!Restored, T!Jobs, T!Pasts
<1>5. T!UndoInv'
  BY TransferTyped, TransferNames, SMTT(10)
  DEF T!IInv, T!UndoInv, T!ApplyFails, T!At, T!Goto, T!Fault, T!Transfer, T!Steady,
      T!GiveUp, T!Excused, T!NoJob, T!NoForm, T!hostVars, T!rowVars, T!bounds,
      T!Nothing, T!Jobs, T!Pasts
<1>6. T!RowInv'
  BY TransferTyped, TransferNames, SMTT(10)
  DEF T!IInv, T!RowInv, T!ApplyFails, T!At, T!Goto, T!Fault, T!Transfer, T!Steady,
      T!GiveUp, T!Excused, T!NoJob, T!NoForm, T!hostVars, T!rowVars, T!bounds, T!Rows,
      T!Nothing, T!Nodes, T!Jobs, T!Pasts
<1>7. T!FailedTransferIsUndone'
  BY TransferTyped, TransferNames, SMTT(10)
  DEF T!IInv, T!TypeOK, T!JobInv, T!UndoInv, T!RowInv, T!FailedTransferIsUndone,
      T!ApplyFails, T!At, T!Goto, T!Fault, T!Remote, T!Transfer, T!Steady, T!GiveUp,
      T!Excused, T!NoJob, T!NoForm, T!hostVars, T!rowVars, T!bounds, T!Rows, T!Nothing,
      T!Nodes, T!Steps, T!Kinds, T!Before, T!Contents, T!Jobs, T!Pasts
<1>. QED BY <1>1, <1>2, <1>3, <1>4, <1>5, <1>6, <1>7 DEF T!IInv

LEMMA Transfer_ApplyCommits ==
  ASSUME T!TransferAssumption, T!IInv, T!ApplyCommits PROVE T!IInv'
<1>0. /\ transfer.next = T!Single(transfer.target) /\ T!NodesOf(transfer.next) = {transfer.target}
      /\ T!Merged(placed, transfer.next, transfer.cols) \in T!Columns
      /\ transfer.kind = "transfer" /\ transfer.at = "ingress"
  <2>1. transfer.next = T!Single(transfer.target)
    BY DEF T!IInv, T!JobInv, T!ApplyCommits
  <2>2. transfer.next \in T!Columns /\ transfer.cols \in SUBSET T!Names
    BY TransferTyped, TransferPlaced DEF T!Jobs
  <2>. QED BY <2>1, <2>2, TransferTyped, TransferPlaced DEF T!ApplyCommits, T!Transfer, T!At
<1>a. /\ transfer' \in T!Jobs
      /\ transfer' = [at |-> "discard", kind |-> transfer.kind,
                      source |-> transfer.source, target |-> transfer.target,
                      wasUp |-> transfer.wasUp, bundle |-> transfer.bundle,
                      next |-> transfer.next, cols |-> transfer.cols,
                      todo |-> transfer.todo, cleaned |-> transfer.cleaned]
  BY TransferTyped, TransferGoes DEF T!ApplyCommits, T!Steps
<1>b. /\ guest' = guest /\ running' = running /\ aside' = aside /\ stray' = stray
      /\ applied' = {transfer.target} /\ ready' = ready \cup ({transfer.target} \cap Followers)
      /\ placed' \in T!Columns /\ form' = form /\ joining' = joining
      /\ transferPast' = transferPast /\ writes' = writes
  BY <1>0 DEF T!ApplyCommits, T!Rows, T!Transfer, T!Steady, T!hostVars, T!bounds
<1>1. T!TypeOK'
  <2>1. transfer'.at \in T!Steps /\ {transfer'.source, transfer'.target} \subseteq T!Nodes
    BY <1>a DEF T!Jobs
  <2>. QED
    BY <1>a, <1>b, <2>1, TransferTyped, SMTT(10) DEF T!IInv, T!TypeOK, T!At
<1>2. T!Records'
  BY <1>a, <1>b DEF T!IInv, T!Records
<1>3. T!JobInv'
  BY <1>0, <1>a, <1>b, SMTT(10)
  DEF T!IInv, T!JobInv, T!At, T!Remote, T!Transfer, T!Nothing, T!Kinds
<1>4. T!DataInv'
  BY <1>0, <1>a, <1>b, SMTT(10)
  DEF T!IInv, T!DataInv, T!At, T!Transfer, T!Nothing, T!Before, T!Restored
<1>5. T!UndoInv'
  BY <1>0, <1>a, <1>b, SMTT(10)
  DEF T!IInv, T!UndoInv, T!At, T!Transfer, T!Nothing
<1>6. T!RowInv'
  <2>1. guest[transfer.target] # T!Nothing
    BY <1>0, TransferTyped DEF T!IInv, T!JobInv, T!DataInv, T!Transfer, T!At, T!Restored,
       T!Nothing, T!Pasts
  <2>. QED
    BY <1>0, <1>a, <1>b, <2>1, SMTT(10)
    DEF T!IInv, T!RowInv, T!At, T!Transfer, T!Nothing
<1>7. T!FailedTransferIsUndone'
  BY <1>a, SMTT(10) DEF T!FailedTransferIsUndone, T!At
<1>. QED BY <1>1, <1>2, <1>3, <1>4, <1>5, <1>6, <1>7 DEF T!IInv

LEMMA Transfer_PlacementApplied ==
  ASSUME T!TransferAssumption, T!IInv, T!PlacementApplied PROVE T!IInv'
<1>0. /\ transfer.at = "ingress" /\ transfer.kind # "transfer"
      /\ transfer.next \in T!Placements /\ transfer.cols \in SUBSET T!Names
      /\ T!NodesOf(transfer.next) \cap Followers \subseteq ready
      /\ ~transferPast.failed /\ ~transferPast.stopped
  BY TransferTyped
  DEF T!PlacementApplied, T!Transfer, T!At, T!Jobs, T!IInv, T!RowInv, T!UndoInv, T!Rows, T!Pasts
<1>a. /\ guest' = guest /\ running' = running /\ aside' = aside /\ stray' = stray
      /\ applied' = applied /\ ready' = ready /\ placed' = placed /\ joining' = joining
      /\ transferPast' = transferPast /\ writes' = writes /\ transfer' = T!NoJob
      /\ form' = [at |-> "unsaved", want |-> transfer.next, cols |-> transfer.cols]
  BY DEF T!PlacementApplied, T!GiveUp, T!hostVars, T!rowVars, T!bounds
<1>b. form' \in T!Forms /\ transfer' \in T!Jobs
  BY <1>0, <1>a, TransferNames DEF T!Forms
<1>c. /\ transfer'.at = "idle" /\ transfer'.kind = "none" /\ transfer'.bundle = T!Nothing
      /\ transfer'.todo = {} /\ transfer'.cleaned = {}
  BY <1>a DEF T!NoJob
<1>1. T!TypeOK'
  <2>1. transfer'.at \in T!Steps /\ {transfer'.source, transfer'.target} \subseteq T!Nodes
    BY <1>b DEF T!Jobs
  <2>. QED
    BY <1>a, <1>b, <2>1, SMTT(10) DEF T!IInv, T!TypeOK, T!At
<1>2. T!Records'
  BY <1>a, <1>b, <1>c, TransferNames DEF T!IInv, T!Records, T!Nothing
<1>3. T!JobInv'
  BY <1>0, <1>a, <1>c, SMTT(10)
  DEF T!IInv, T!JobInv, T!At, T!Remote, T!Transfer, T!Nothing, T!Kinds
<1>4. T!DataInv'
  BY <1>a, <1>c, SMTT(10)
  DEF T!IInv, T!DataInv, T!At, T!Transfer, T!Nothing, T!Before, T!Restored
<1>5. T!UndoInv'
  BY <1>0, <1>a, <1>c, SMTT(10) DEF T!UndoInv, T!At, T!Transfer
<1>6. T!RowInv'
  <2>1. transfer.cleaned = {}
    BY <1>0 DEF T!IInv, T!RowInv, T!At
  <2>. QED
    BY <1>0, <1>a, <1>c, <2>1, SMTT(10) DEF T!IInv, T!RowInv, T!At, T!Transfer
<1>7. T!FailedTransferIsUndone'
  BY <1>0, <1>a DEF T!FailedTransferIsUndone
<1>. QED BY <1>1, <1>2, <1>3, <1>4, <1>5, <1>6, <1>7 DEF T!IInv

LEMMA Transfer_Save ==
  ASSUME T!TransferAssumption, T!IInv, T!Save PROVE T!IInv'
<1>0. /\ transfer.at \notin {"discard", "cleanup"}
      /\ T!NodesOf(form.want) \cap Followers \subseteq ready
      /\ T!NodesOf(form.want) \subseteq T!Nodes
      /\ T!Merged(placed, form.want, form.cols) \in T!Columns
  BY TransferTyped, TransferPlaced DEF T!Save, T!IInv, T!JobInv
<1>a. /\ guest' = guest /\ running' = running /\ aside' = aside /\ stray' = stray
      /\ ready' = ready /\ joining' = joining /\ transfer' = transfer
      /\ transferPast' = transferPast /\ writes' = writes /\ form' = T!NoForm
      /\ form'.at = "none" /\ form' \in T!Forms
  BY TransferNames DEF T!Save, T!hostVars, T!rowVars, T!bounds
<1>b. placed' \in T!Columns /\ applied' = T!NodesOf(form.want)
  BY <1>0 DEF T!Save
<1>1. T!TypeOK'
  BY <1>0, <1>a, <1>b, SMTT(10) DEF T!IInv, T!TypeOK, T!At
<1>2. T!Records'
  BY <1>a DEF T!IInv, T!Records
<1>3. T!JobInv'
  BY <1>a, SMTT(10) DEF T!IInv, T!JobInv, T!At, T!Remote, T!Transfer
<1>4. T!DataInv'
  BY <1>a, SMTT(10) DEF T!IInv, T!DataInv, T!At, T!Transfer
<1>5. T!UndoInv'
  BY <1>a, SMTT(10) DEF T!IInv, T!UndoInv, T!At, T!Transfer
<1>6. T!RowInv'
  BY <1>0, <1>a, <1>b, SMTT(10) DEF T!IInv, T!RowInv, T!At, T!Transfer, T!Rows
<1>7. T!FailedTransferIsUndone'
  BY <1>a DEF T!IInv, T!FailedTransferIsUndone, T!At
<1>. QED BY <1>1, <1>2, <1>3, <1>4, <1>5, <1>6, <1>7 DEF T!IInv

LEMMA Transfer_SaveFails ==
  ASSUME T!TransferAssumption, T!IInv, T!SaveFails PROVE T!IInv'
<1>0. placed \in T!Columns
  BY TransferTyped
<1>a. /\ guest' = guest /\ running' = running /\ aside' = aside /\ stray' = stray
      /\ ready' = ready /\ joining' = joining /\ transfer' = transfer
      /\ transferPast' = transferPast /\ writes' = writes /\ form' = T!NoForm
      /\ form'.at = "none" /\ form' \in T!Forms
  BY TransferNames DEF T!SaveFails, T!hostVars, T!rowVars, T!bounds
<1>b. placed' = placed /\ applied' = applied
  BY DEF T!SaveFails, T!rowVars
<1>1. T!TypeOK'
  BY <1>0, <1>a, <1>b, SMTT(10) DEF T!IInv, T!TypeOK, T!At
<1>2. T!Records'
  BY <1>a DEF T!IInv, T!Records
<1>3. T!JobInv'
  BY <1>a, SMTT(10) DEF T!IInv, T!JobInv, T!At, T!Remote, T!Transfer
<1>4. T!DataInv'
  BY <1>a, SMTT(10) DEF T!IInv, T!DataInv, T!At, T!Transfer
<1>5. T!UndoInv'
  BY <1>a, SMTT(10) DEF T!IInv, T!UndoInv, T!At, T!Transfer
<1>6. T!RowInv'
  BY <1>0, <1>a, <1>b, SMTT(10) DEF T!IInv, T!RowInv, T!At, T!Transfer, T!Rows
<1>7. T!FailedTransferIsUndone'
  BY <1>a DEF T!IInv, T!FailedTransferIsUndone, T!At
<1>. QED BY <1>1, <1>2, <1>3, <1>4, <1>5, <1>6, <1>7 DEF T!IInv

LEMMA Transfer_Discard ==
  ASSUME T!TransferAssumption, T!IInv, NEW drops \in BOOLEAN, T!Discard(drops)
  PROVE  T!IInv'
<1>1. T!TypeOK'
  BY TransferTyped, TransferNames, SMTT(10)
  DEF T!IInv, T!TypeOK, T!Discard, T!At, T!Goto, T!Fault, T!Transfer, T!Steady,
      T!GiveUp, T!NoJob, T!NoForm, T!rowVars, T!bounds, T!Nothing, T!Nodes, T!Steps,
      T!Contents, T!Jobs, T!Pasts
<1>2. T!Records'
  <2>1. transfer' \in T!Jobs
    BY TransferNames, TransferGoes, SMTT(10)
    DEF T!IInv, T!Records, T!JobInv, T!Steps, T!Kinds, T!At, T!Transfer, T!Discard,
        T!GiveUp
  <2>2. transferPast' \in T!Pasts
    BY SMTT(10)
    DEF T!IInv, T!Records, T!Discard, T!At, T!Goto, T!Fault, T!Transfer, T!Steady,
        T!GiveUp, T!NoJob, T!NoForm, T!rowVars, T!bounds, T!Nothing, T!Nodes, T!Steps,
        T!Kinds
  <2>3. /\ writes' \in 0..MaxWrites /\ transfer'.bundle <= 2 + writes'
       /\ \A x \in T!Nodes : guest'[x] <= 2 + writes' /\ aside'[x] <= 2 + writes'
    BY TransferNames, SMTT(10)
    DEF T!IInv, T!Records, T!Discard, T!At, T!Goto, T!Fault, T!Transfer, T!Steady,
        T!GiveUp, T!NoJob, T!NoForm, T!rowVars, T!bounds, T!Nothing, T!Nodes, T!Steps,
        T!Kinds, T!Jobs, T!Pasts
  <2>. QED BY <2>1, <2>2, <2>3 DEF T!Records
<1>3. T!JobInv'
  <2>1. CASE T!Transfer
    BY <2>1, TransferTyped, TransferNames, SMTT(10)
    DEF T!IInv, T!TypeOK, T!Records, T!JobInv, T!DataInv, T!UndoInv, T!RowInv,
        T!FailedTransferIsUndone, T!Discard, T!At, T!Goto, T!Fault, T!Remote,
        T!Transfer, T!Steady, T!GiveUp, T!NoJob, T!NoForm, T!rowVars, T!bounds, T!Rows,
        T!Nothing, T!Nodes, T!Steps, T!Kinds, T!Before, T!Restored, T!Contents, T!Jobs,
        T!Pasts
  <2>2. CASE ~T!Transfer
    BY <2>2, SMTT(10)
    DEF T!IInv, T!JobInv, T!Discard, T!At, T!Goto, T!Fault, T!Remote, T!Transfer,
        T!Steady, T!GiveUp, T!NoJob, T!NoForm, T!rowVars, T!bounds, T!Nothing, T!Kinds,
        T!Before
  <2>. QED BY <2>1, <2>2
<1>4. T!DataInv'
  BY TransferTyped, TransferNames, SMTT(10)
  DEF T!IInv, T!DataInv, T!Discard, T!At, T!Goto, T!Fault, T!Transfer, T!Steady,
      T!GiveUp, T!NoJob, T!NoForm, T!rowVars, T!bounds, T!Nothing, T!Before,
      T!Restored, T!Jobs, T!Pasts
<1>5. T!UndoInv'
  BY TransferTyped, TransferNames, SMTT(10)
  DEF T!IInv, T!UndoInv, T!Discard, T!At, T!Goto, T!Fault, T!Transfer, T!Steady,
      T!GiveUp, T!NoJob, T!NoForm, T!rowVars, T!bounds, T!Nothing, T!Jobs, T!Pasts
<1>6. T!RowInv'
  BY TransferTyped, TransferNames, SMTT(10)
  DEF T!IInv, T!RowInv, T!Discard, T!At, T!Goto, T!Fault, T!Transfer, T!Steady,
      T!GiveUp, T!NoJob, T!NoForm, T!rowVars, T!bounds, T!Rows, T!Nothing, T!Nodes,
      T!Jobs, T!Pasts
<1>7. T!FailedTransferIsUndone'
  BY SMTT(10)
  DEF T!IInv, T!TypeOK, T!JobInv, T!UndoInv, T!RowInv, T!FailedTransferIsUndone,
      T!Discard, T!At, T!Goto, T!Fault, T!Remote, T!Transfer, T!Steady, T!GiveUp,
      T!NoJob, T!NoForm, T!rowVars, T!bounds, T!Rows, T!Nothing, T!Nodes, T!Steps,
      T!Kinds, T!Before, T!Contents
<1>. QED BY <1>1, <1>2, <1>3, <1>4, <1>5, <1>6, <1>7 DEF T!IInv

LEMMA Transfer_CleanUp ==
  ASSUME T!TransferAssumption, T!IInv, NEW n \in Followers, T!CleanUp(n) PROVE T!IInv'
<1>1. T!TypeOK'
  BY TransferNames, SMTT(10)
  DEF T!IInv, T!TypeOK, T!CleanUp, T!At, T!Steady, T!NoJob, T!NoForm, T!rowVars,
      T!bounds, T!Nothing, T!Nodes, T!Steps, T!Contents, T!Jobs, T!Pasts
<1>2. T!Records'
  <2>1. transfer' \in T!Jobs
    <3>1. transfer' = [at |-> transfer.at, kind |-> transfer.kind,
                       source |-> transfer.source, target |-> transfer.target,
                       wasUp |-> transfer.wasUp, bundle |-> transfer.bundle,
                    next |-> transfer.next, cols |-> transfer.cols, todo |-> transfer.todo \ {n},
                    cleaned |-> transfer.cleaned \cup {n}]
      BY TransferTyped DEF T!CleanUp, T!Jobs, T!NoJob
    <3>. QED
      BY <3>1, TransferTyped, TransferNames DEF T!Jobs, T!Steps, T!Kinds, T!Nothing
  <2>2. transferPast' \in T!Pasts
    BY SMTT(10)
    DEF T!IInv, T!Records, T!CleanUp, T!At, T!Steady, T!NoForm, T!rowVars, T!bounds,
        T!Nothing, T!Nodes, T!Steps, T!Kinds
  <2>3. /\ writes' \in 0..MaxWrites /\ transfer'.bundle <= 2 + writes'
       /\ \A x \in T!Nodes : guest'[x] <= 2 + writes' /\ aside'[x] <= 2 + writes'
    BY SMTT(10)
    DEF T!IInv, T!Records, T!CleanUp, T!At, T!Steady, T!NoForm, T!rowVars, T!bounds,
        T!Nothing, T!Nodes, T!Steps, T!Kinds
  <2>. QED BY <2>1, <2>2, <2>3 DEF T!Records
<1>3. T!JobInv'
  BY SMTT(10)
  DEF T!IInv, T!JobInv, T!CleanUp, T!At, T!Remote, T!Transfer, T!Steady, T!rowVars,
      T!bounds, T!Nothing, T!Kinds, T!Before
<1>4. T!DataInv'
  BY SMTT(10)
  DEF T!IInv, T!TypeOK, T!JobInv, T!DataInv, T!RowInv, T!CleanUp, T!At, T!Remote,
      T!Transfer, T!Steady, T!NoJob, T!NoForm, T!rowVars, T!bounds, T!Rows, T!Nothing,
      T!Nodes, T!Steps, T!Kinds, T!Before, T!Restored, T!Contents
<1>5. T!UndoInv'
  <2>1. transfer'.at = "cleanup" /\ transfer'.kind = transfer.kind
    BY TransferTyped DEF T!CleanUp, T!Jobs, T!At
  <2>2. /\ transferPast'.failed = transferPast.failed
        /\ transferPast'.stopped = transferPast.stopped
    BY SMTT(10)
    DEF T!UndoInv, T!CleanUp, T!At, T!Transfer, T!Steady, T!rowVars, T!bounds,
        T!Nothing
  <2>3. ~transferPast.failed /\ ~transferPast.stopped
    BY TransferTyped DEF T!IInv, T!UndoInv, T!CleanUp, T!At, T!Pasts
  <2>. QED BY <2>1, <2>2, <2>3, SMTT(10) DEF T!UndoInv, T!At, T!Transfer
<1>6. T!RowInv'
  BY SMTT(10)
  DEF T!IInv, T!RowInv, T!CleanUp, T!At, T!Transfer, T!Steady, T!rowVars, T!bounds,
      T!Rows, T!Nothing, T!Nodes
<1>7. T!FailedTransferIsUndone'
  BY SMTT(10)
  DEF T!FailedTransferIsUndone, T!CleanUp, T!At, T!Steady, T!rowVars, T!bounds,
      T!Nothing
<1>. QED BY <1>1, <1>2, <1>3, <1>4, <1>5, <1>6, <1>7 DEF T!IInv

LEMMA Transfer_CleanUpFails ==
  ASSUME T!TransferAssumption, T!IInv, NEW n \in Followers, NEW gone \in BOOLEAN,
         T!CleanUpFails(n, gone)
  PROVE  T!IInv'
<1>1. T!TypeOK'
  BY TransferNames, SMTT(10)
  DEF T!IInv, T!TypeOK, T!CleanUpFails, T!At, T!Fault, T!Steady, T!NoJob, T!NoForm,
      T!rowVars, T!bounds, T!Nothing, T!Nodes, T!Steps, T!Contents, T!Jobs, T!Pasts
<1>2. T!Records'
  <2>1. transfer' \in T!Jobs
    <3>1. transfer' = [at |-> transfer.at, kind |-> transfer.kind,
                       source |-> transfer.source, target |-> transfer.target,
                       wasUp |-> transfer.wasUp, bundle |-> transfer.bundle,
                    next |-> transfer.next, cols |-> transfer.cols, todo |-> transfer.todo \ {n},
                    cleaned |-> transfer.cleaned]
      BY TransferTyped DEF T!CleanUpFails, T!Jobs, T!NoJob
    <3>. QED
      BY <3>1, TransferTyped, TransferNames DEF T!Jobs, T!Steps, T!Kinds, T!Nothing
  <2>2. transferPast' \in T!Pasts
    BY TransferNames, SMTT(10)
    DEF T!IInv, T!Records, T!CleanUpFails, T!At, T!Fault, T!Steady, T!NoForm,
        T!rowVars, T!bounds, T!Nothing, T!Nodes, T!Steps, T!Kinds, T!Jobs, T!Pasts
  <2>3. /\ writes' \in 0..MaxWrites /\ transfer'.bundle <= 2 + writes'
       /\ \A x \in T!Nodes : guest'[x] <= 2 + writes' /\ aside'[x] <= 2 + writes'
    BY SMTT(10)
    DEF T!IInv, T!Records, T!CleanUpFails, T!At, T!Fault, T!Steady, T!NoForm,
        T!rowVars, T!bounds, T!Nothing, T!Nodes, T!Steps, T!Kinds
  <2>. QED BY <2>1, <2>2, <2>3 DEF T!Records
<1>3. T!JobInv'
  BY SMTT(10)
  DEF T!IInv, T!JobInv, T!CleanUpFails, T!At, T!Fault, T!Remote, T!Transfer, T!Steady,
      T!rowVars, T!bounds, T!Nothing, T!Kinds, T!Before
<1>4. T!DataInv'
  BY SMTT(10)
  DEF T!IInv, T!TypeOK, T!JobInv, T!DataInv, T!RowInv, T!CleanUpFails, T!At, T!Fault,
      T!Remote, T!Transfer, T!Steady, T!NoJob, T!NoForm, T!rowVars, T!bounds, T!Rows,
      T!Nothing, T!Nodes, T!Steps, T!Kinds, T!Before, T!Restored, T!Contents
<1>5. T!UndoInv'
  <2>1. transfer'.at = "cleanup" /\ transfer'.kind = transfer.kind
    BY TransferTyped DEF T!CleanUpFails, T!Jobs, T!At
  <2>2. /\ transferPast'.failed = transferPast.failed
        /\ transferPast'.stopped = transferPast.stopped
    BY SMTT(10)
    DEF T!UndoInv, T!CleanUpFails, T!At, T!Fault, T!Transfer, T!Steady, T!rowVars,
        T!bounds, T!Nothing
  <2>3. ~transferPast.failed /\ ~transferPast.stopped
    BY TransferTyped DEF T!IInv, T!UndoInv, T!CleanUpFails, T!At, T!Pasts
  <2>. QED BY <2>1, <2>2, <2>3, SMTT(10) DEF T!UndoInv, T!At, T!Transfer
<1>6. T!RowInv'
  BY SMTT(10)
  DEF T!IInv, T!RowInv, T!CleanUpFails, T!At, T!Fault, T!Transfer, T!Steady, T!rowVars,
      T!bounds, T!Rows, T!Nothing, T!Nodes
<1>7. T!FailedTransferIsUndone'
  BY SMTT(10)
  DEF T!FailedTransferIsUndone, T!CleanUpFails, T!At, T!Fault, T!Steady, T!rowVars,
      T!bounds, T!Nothing
<1>. QED BY <1>1, <1>2, <1>3, <1>4, <1>5, <1>6, <1>7 DEF T!IInv

LEMMA Transfer_DeleteRows ==
  ASSUME T!TransferAssumption, T!IInv, NEW commits \in BOOLEAN, T!DeleteRows(commits)
  PROVE  T!IInv'
<1>1. T!TypeOK'
  BY SMTT(10)
  DEF T!IInv, T!TypeOK, T!JobInv, T!RowInv, T!DeleteRows, T!At, T!Fault, T!Remote,
      T!Transfer, T!Steady, T!GiveUp, T!NoJob, T!NoForm, T!hostVars, T!bounds, T!Rows,
      T!Nothing, T!Nodes, T!Steps, T!Kinds, T!Before, T!Contents
<1>2. T!Records'
  <2>1. transfer' \in T!Jobs
    BY TransferTyped, TransferNames, SMTT(10)
    DEF T!IInv, T!Records, T!DeleteRows, T!At, T!Fault, T!Steady, T!GiveUp, T!NoJob,
        T!NoForm, T!hostVars, T!bounds, T!Nothing, T!Nodes, T!Steps, T!Kinds, T!Jobs,
        T!Pasts
  <2>2. transferPast' \in T!Pasts
    BY TransferNames, SMTT(10)
    DEF T!IInv, T!Records, T!DeleteRows, T!At, T!Fault, T!Steady, T!GiveUp, T!NoJob,
        T!NoForm, T!hostVars, T!bounds, T!Nothing, T!Nodes, T!Steps, T!Kinds, T!Jobs,
        T!Pasts
  <2>3. /\ writes' \in 0..MaxWrites /\ transfer'.bundle <= 2 + writes'
       /\ \A x \in T!Nodes : guest'[x] <= 2 + writes' /\ aside'[x] <= 2 + writes'
    BY SMTT(10)
    DEF T!IInv, T!Records, T!DeleteRows, T!At, T!Fault, T!Steady, T!GiveUp, T!NoJob,
        T!NoForm, T!hostVars, T!bounds, T!Nothing, T!Nodes, T!Steps, T!Kinds
  <2>. QED BY <2>1, <2>2, <2>3 DEF T!Records
<1>3. T!JobInv'
  BY SMTT(10)
  DEF T!IInv, T!JobInv, T!DeleteRows, T!At, T!Fault, T!Remote, T!Transfer, T!Steady, T!GiveUp,
      T!NoJob, T!NoForm, T!hostVars, T!bounds, T!Nothing, T!Kinds, T!Before
<1>4. T!DataInv'
  BY SMTT(10)
  DEF T!IInv, T!DataInv, T!DeleteRows, T!At, T!Fault, T!Transfer, T!Steady, T!GiveUp,
      T!NoJob, T!NoForm, T!hostVars, T!bounds, T!Nothing, T!Before, T!Restored
<1>5. T!UndoInv'
  BY SMTT(10)
  DEF T!UndoInv, T!DeleteRows, T!At, T!Fault, T!Transfer, T!Steady, T!GiveUp, T!NoJob,
      T!NoForm, T!hostVars, T!bounds, T!Nothing
<1>6. T!RowInv'
  BY SMTT(10)
  DEF T!IInv, T!RowInv, T!DeleteRows, T!At, T!Fault, T!Transfer, T!Steady, T!GiveUp,
      T!NoJob, T!NoForm, T!hostVars, T!bounds, T!Rows, T!Nothing, T!Nodes
<1>7. T!FailedTransferIsUndone'
  BY SMTT(10)
  DEF T!IInv, T!TypeOK, T!JobInv, T!UndoInv, T!RowInv, T!FailedTransferIsUndone,
      T!DeleteRows, T!At, T!Fault, T!Remote, T!Transfer, T!Steady, T!GiveUp, T!NoJob,
      T!NoForm, T!hostVars, T!bounds, T!Rows, T!Nothing, T!Nodes, T!Steps, T!Kinds,
      T!Before, T!Contents
<1>. QED BY <1>1, <1>2, <1>3, <1>4, <1>5, <1>6, <1>7 DEF T!IInv

LEMMA Transfer_Dies ==
  ASSUME T!TransferAssumption, T!IInv, T!Dies PROVE T!IInv'
<1>1. T!TypeOK'
  BY TransferNames, SMTT(10)
  DEF T!IInv, T!TypeOK, T!Dies, T!At, T!Fault, T!GiveUp, T!NoJob, T!NoForm, T!rowVars,
      T!bounds, T!Nothing, T!Nodes, T!Steps, T!Contents, T!Jobs, T!Pasts
<1>2. T!Records'
  <2>1. transfer' \in T!Jobs
    BY TransferTyped, TransferNames, SMTT(10)
    DEF T!IInv, T!Records, T!Dies, T!At, T!Fault, T!GiveUp, T!NoJob, T!NoForm,
        T!rowVars, T!bounds, T!Nothing, T!Nodes, T!Steps, T!Kinds, T!Jobs, T!Pasts
  <2>2. transferPast' \in T!Pasts
    BY TransferTyped DEF T!Pasts, T!Dies, T!Failed, T!Excused, T!Jobs
  <2>3. /\ writes' \in 0..MaxWrites /\ transfer'.bundle <= 2 + writes'
       /\ \A x \in T!Nodes : guest'[x] <= 2 + writes' /\ aside'[x] <= 2 + writes'
    BY SMTT(10)
    DEF T!IInv, T!Records, T!Dies, T!At, T!Fault, T!GiveUp, T!NoJob, T!NoForm,
        T!rowVars, T!bounds, T!Nothing, T!Nodes, T!Steps, T!Kinds
  <2>. QED BY <2>1, <2>2, <2>3 DEF T!Records
<1>3. T!JobInv'
  BY SMTT(10)
  DEF T!JobInv, T!Dies, T!At, T!Fault, T!Remote, T!Transfer, T!GiveUp, T!NoJob,
      T!NoForm, T!rowVars, T!bounds, T!Nothing, T!Nodes, T!Kinds, T!Before
<1>4. T!DataInv'
  BY SMTT(10)
  DEF T!IInv, T!DataInv, T!Dies, T!At, T!Fault, T!Transfer, T!GiveUp, T!NoJob,
      T!NoForm, T!rowVars, T!bounds, T!Nothing, T!Nodes, T!Before, T!Restored
<1>5. T!UndoInv'
  BY SMTT(10)
  DEF T!UndoInv, T!Dies, T!At, T!Fault, T!Transfer, T!GiveUp, T!NoJob, T!NoForm,
      T!rowVars, T!bounds, T!Nothing, T!Nodes
<1>6. T!RowInv'
  BY SMTT(10)
  DEF T!IInv, T!RowInv, T!Dies, T!At, T!Fault, T!Transfer, T!GiveUp, T!NoJob, T!NoForm,
      T!rowVars, T!bounds, T!Rows, T!Nothing, T!Nodes
<1>7. T!FailedTransferIsUndone'
  BY SMTT(10)
  DEF T!FailedTransferIsUndone, T!Dies, T!At, T!Fault, T!GiveUp, T!NoJob, T!NoForm,
      T!rowVars, T!bounds, T!Nothing, T!Nodes
<1>. QED BY <1>1, <1>2, <1>3, <1>4, <1>5, <1>6, <1>7 DEF T!IInv

LEMMA Transfer_Write ==
  ASSUME T!TransferAssumption, T!IInv, T!Write PROVE T!IInv'
<1>1. T!TypeOK'
  <2>1. (guest \in [T!Nodes -> T!Contents] /\ aside \in [T!Nodes -> T!Contents])'
    <3>1. guest[placed.active] + 1 \in T!Contents
      BY TransferTyped, TransferNames, SMTT(10)
      DEF T!IInv, T!TypeOK, T!Records, T!JobInv, T!DataInv, T!UndoInv, T!RowInv,
          T!FailedTransferIsUndone, T!Write, T!At, T!Remote, T!Transfer, T!NoJob,
          T!NoForm, T!rowVars, T!Rows, T!Nothing, T!Fresh, T!Nodes, T!Steps, T!Kinds,
          T!Before, T!Restored, T!Contents, T!Jobs, T!Pasts
    <3>. QED BY <3>1 DEF T!IInv, T!TypeOK, T!Write
  <2>2. (running \in [T!Nodes -> BOOLEAN] /\ \A x \in T!Nodes : running[x] => guest[x] # T!Nothing)'
    BY SMTT(10)
    DEF T!IInv, T!TypeOK, T!Write, T!At, T!NoJob, T!NoForm, T!rowVars, T!Nothing,
        T!Fresh, T!Nodes, T!Steps, T!Contents
  <2>3. (/\ stray \in BOOLEAN
         /\ placed \in T!Columns /\ form \in T!Forms
         /\ ready \in SUBSET Followers /\ joining \in SUBSET Followers
         /\ applied \in SUBSET T!Nodes /\ applied \cap Followers \subseteq ready)'
    BY SMTT(10)
    DEF T!IInv, T!TypeOK, T!Write, T!At, T!NoJob, T!NoForm, T!rowVars, T!Nothing,
        T!Fresh, T!Nodes, T!Steps, T!Contents
  <2>4. (/\ transfer.at \in T!Steps /\ {transfer.source, transfer.target} \subseteq T!Nodes
         /\ T!At("idle") => transfer = T!NoJob)'
    BY SMTT(10)
    DEF T!IInv, T!TypeOK, T!Write, T!At, T!NoJob, T!NoForm, T!rowVars, T!Nothing,
        T!Fresh, T!Nodes, T!Steps, T!Contents
  <2>. QED BY <2>1, <2>2, <2>3, <2>4 DEF T!TypeOK, T!At
<1>2. T!Records'
  <2>1. transfer' \in T!Jobs
    BY DEF T!IInv, T!Records, T!Write, T!hostVars, T!rowVars
  <2>2. transferPast' \in T!Pasts
    BY TransferNames, SMTT(10)
    DEF T!IInv, T!Records, T!Write, T!NoForm, T!rowVars, T!Fresh, T!Nodes, T!Steps,
        T!Kinds, T!Jobs, T!Pasts
  <2>3. /\ writes' \in 0..MaxWrites /\ transfer'.bundle <= 2 + writes'
       /\ \A x \in T!Nodes : guest'[x] <= 2 + writes' /\ aside'[x] <= 2 + writes'
    BY TransferNames, SMTT(10)
    DEF T!IInv, T!TypeOK, T!Records, T!Write, T!At, T!NoJob, T!NoForm, T!rowVars,
        T!Nothing, T!Fresh, T!Nodes, T!Steps, T!Kinds, T!Contents, T!Jobs, T!Pasts
  <2>. QED BY <2>1, <2>2, <2>3 DEF T!Records
<1>3. T!JobInv'
  BY SMTT(10)
  DEF T!IInv, T!JobInv, T!Write, T!At, T!Remote, T!Transfer, T!rowVars, T!Nothing,
      T!Fresh, T!Kinds, T!Before
<1>4. T!DataInv'
  BY TransferTyped, TransferNames, SMTT(10)
  DEF T!IInv, T!DataInv, T!Write, T!Transfer, T!rowVars, T!Nothing, T!Fresh, T!Before,
      T!Restored, T!Jobs, T!Pasts
<1>5. T!UndoInv'
  BY TransferTyped, TransferNames, SMTT(10)
  DEF T!IInv, T!TypeOK, T!JobInv, T!UndoInv, T!Write, T!At, T!Remote, T!Transfer,
      T!NoJob, T!NoForm, T!rowVars, T!Nothing, T!Fresh, T!Nodes, T!Steps, T!Kinds,
      T!Before, T!Contents, T!Jobs, T!Pasts
<1>6. T!RowInv'
  BY TransferTyped, TransferNames, SMTT(10)
  DEF T!IInv, T!RowInv, T!Write, T!At, T!Transfer, T!rowVars, T!Rows, T!Nothing,
      T!Fresh, T!Nodes, T!Jobs, T!Pasts
<1>7. T!FailedTransferIsUndone'
  BY TransferTyped, TransferNames, SMTT(10)
  DEF T!IInv, T!TypeOK, T!FailedTransferIsUndone, T!Write, T!At, T!NoJob, T!NoForm,
      T!rowVars, T!Nothing, T!Fresh, T!Nodes, T!Steps, T!Contents, T!Jobs, T!Pasts
<1>. QED BY <1>1, <1>2, <1>3, <1>4, <1>5, <1>6, <1>7 DEF T!IInv

LEMMA Transfer_Joined ==
  ASSUME T!TransferAssumption, T!IInv, NEW n \in Followers, T!Joined(n) PROVE T!IInv'
<1>1. T!TypeOK'
  BY SMTT(10)
  DEF T!IInv, T!TypeOK, T!Joined, T!At, T!NoJob, T!NoForm, T!hostVars, T!rowVars,
      T!bounds, T!Nothing, T!Nodes, T!Steps, T!Contents
<1>2. T!Records'
  <2>1. transfer' \in T!Jobs
    BY DEF T!IInv, T!Records, T!Joined, T!hostVars, T!rowVars
  <2>2. transferPast' \in T!Pasts
    BY SMTT(10)
    DEF T!IInv, T!Records, T!Joined, T!NoForm, T!hostVars, T!rowVars, T!bounds,
        T!Nodes, T!Steps, T!Kinds
  <2>3. /\ writes' \in 0..MaxWrites /\ transfer'.bundle <= 2 + writes'
       /\ \A x \in T!Nodes : guest'[x] <= 2 + writes' /\ aside'[x] <= 2 + writes'
    BY SMTT(10)
    DEF T!IInv, T!Records, T!Joined, T!NoForm, T!hostVars, T!rowVars, T!bounds,
        T!Nodes, T!Steps, T!Kinds
  <2>. QED BY <2>1, <2>2, <2>3 DEF T!Records
<1>3. T!JobInv'
  BY SMTT(10)
  DEF T!IInv, T!JobInv, T!Joined, T!At, T!Remote, T!Transfer, T!hostVars, T!rowVars,
      T!bounds, T!Nothing, T!Kinds, T!Before
<1>4. T!DataInv'
  BY SMTT(10)
  DEF T!IInv, T!DataInv, T!Joined, T!Transfer, T!hostVars, T!rowVars, T!bounds,
      T!Nothing, T!Before, T!Restored
<1>5. T!UndoInv'
  BY SMTT(10)
  DEF T!IInv, T!UndoInv, T!Joined, T!At, T!Transfer, T!hostVars, T!rowVars, T!bounds,
      T!Nothing
<1>6. T!RowInv'
  BY SMTT(10)
  DEF T!IInv, T!RowInv, T!Joined, T!At, T!Transfer, T!hostVars, T!rowVars, T!bounds,
      T!Rows, T!Nothing, T!Nodes
<1>7. T!FailedTransferIsUndone'
  BY SMTT(10)
  DEF T!IInv, T!FailedTransferIsUndone, T!Joined, T!At, T!hostVars, T!rowVars, T!bounds
<1>. QED BY <1>1, <1>2, <1>3, <1>4, <1>5, <1>6, <1>7 DEF T!IInv

LEMMA Transfer_Rejoins ==
  ASSUME T!TransferAssumption, T!IInv, NEW n \in Followers, T!Rejoins(n) PROVE T!IInv'
<1>1. T!TypeOK'
  BY SMTT(10)
  DEF T!IInv, T!TypeOK, T!Rejoins, T!At, T!Fault, T!NoJob, T!NoForm, T!hostVars,
      T!rowVars, T!bounds, T!Nothing, T!Nodes, T!Steps, T!Contents
<1>2. T!Records'
  <2>1. transfer' \in T!Jobs
    BY DEF T!IInv, T!Records, T!Rejoins, T!hostVars, T!rowVars
  <2>2. transferPast' \in T!Pasts
    BY SMTT(10)
    DEF T!IInv, T!Records, T!Rejoins, T!Fault, T!NoForm, T!hostVars, T!rowVars,
        T!bounds, T!Nodes, T!Steps, T!Kinds
  <2>3. /\ writes' \in 0..MaxWrites /\ transfer'.bundle <= 2 + writes'
       /\ \A x \in T!Nodes : guest'[x] <= 2 + writes' /\ aside'[x] <= 2 + writes'
    BY SMTT(10)
    DEF T!IInv, T!Records, T!Rejoins, T!Fault, T!NoForm, T!hostVars, T!rowVars,
        T!bounds, T!Nodes, T!Steps, T!Kinds
  <2>. QED BY <2>1, <2>2, <2>3 DEF T!Records
<1>3. T!JobInv'
  BY SMTT(10)
  DEF T!IInv, T!JobInv, T!Rejoins, T!At, T!Fault, T!Remote, T!Transfer, T!hostVars,
      T!rowVars, T!bounds, T!Nothing, T!Kinds, T!Before
<1>4. T!DataInv'
  BY SMTT(10)
  DEF T!IInv, T!DataInv, T!Rejoins, T!Fault, T!Transfer, T!hostVars, T!rowVars,
      T!bounds, T!Nothing, T!Before, T!Restored
<1>5. T!UndoInv'
  BY SMTT(10)
  DEF T!IInv, T!UndoInv, T!Rejoins, T!At, T!Fault, T!Transfer, T!hostVars, T!rowVars,
      T!bounds, T!Nothing
<1>6. T!RowInv'
  BY SMTT(10)
  DEF T!IInv, T!RowInv, T!Rejoins, T!At, T!Fault, T!Transfer, T!hostVars, T!rowVars,
      T!bounds, T!Rows, T!Nothing, T!Nodes
<1>7. T!FailedTransferIsUndone'
  BY SMTT(10)
  DEF T!IInv, T!FailedTransferIsUndone, T!Rejoins, T!At, T!Fault, T!hostVars,
      T!rowVars, T!bounds
<1>. QED BY <1>1, <1>2, <1>3, <1>4, <1>5, <1>6, <1>7 DEF T!IInv

LEMMA TransferInit ==
  ASSUME T!TransferAssumption, T!Init PROVE T!IInv
<1>1. /\ placed \in T!Columns /\ applied = T!NodesOf(placed) /\ applied \subseteq T!Nodes
      /\ ready \subseteq Followers
  BY TransferPlaced DEF T!Init
<1>2. T!NoPast \in T!Pasts
  BY TransferNames DEF T!NoPast, T!Pasts, T!Nothing
<1>3. T!TypeOK
  <2>1. 2 \in T!Contents /\ T!Nothing \in T!Contents
    BY TransferNames DEF T!Contents, T!Nothing
  <2>2. /\ guest \in [T!Nodes -> T!Contents] /\ aside \in [T!Nodes -> T!Contents]
        /\ running \in [T!Nodes -> BOOLEAN]
    BY <2>1 DEF T!Init
  <2>3. \A n \in T!Nodes : running[n] => guest[n] # T!Nothing
    <3>. SUFFICES ASSUME NEW n \in T!Nodes, running[n] PROVE guest[n] # T!Nothing
      OBVIOUS
    <3>1. n \in applied \cup ready
      BY Zenon DEF T!Init
    <3>2. guest[n] = 2
      BY <3>1 DEF T!Init
    <3>. QED BY <3>2 DEF T!Nothing
  <2>4. /\ stray \in BOOLEAN /\ placed \in T!Columns /\ form \in T!Forms
        /\ ready \in SUBSET Followers /\ joining \in SUBSET Followers
        /\ applied \in SUBSET T!Nodes /\ applied \cap Followers \subseteq ready
        /\ transfer = T!NoJob
    <3>1. /\ ready \in {r \in SUBSET Followers : applied \cap Followers \subseteq r}
          /\ joining \in SUBSET (Followers \ ready)
          /\ stray = FALSE /\ form = T!NoForm /\ transfer = T!NoJob
      BY Zenon DEF T!Init
    <3>. QED BY <1>1, <3>1, TransferNames
  <2>5. T!NoJob.at \in T!Steps /\ {T!NoJob.source, T!NoJob.target} \subseteq T!Nodes
    BY TransferNames DEF T!NoJob, T!Steps
  <2>. QED
    BY <2>2, <2>3, <2>4, <2>5 DEF T!TypeOK
<1>4. T!Records
  BY <1>2, TransferNames, SMTT(10) DEF T!Init, T!Records, T!NoJob, T!Nothing
<1>5. T!JobInv /\ T!DataInv
  BY SMTT(10)
  DEF T!Init, T!JobInv, T!DataInv, T!NoJob, T!NoForm, T!NoPast, T!Nothing, T!At, T!Transfer,
      T!Kinds, T!Before, T!Restored, T!Remote
<1>6. T!UndoInv
  BY SMTT(10) DEF T!Init, T!UndoInv, T!NoJob, T!NoPast, T!At, T!Transfer
<1>7. T!RowInv
  BY TransferNames, SMTT(10)
  DEF T!Init, T!RowInv, T!NoJob, T!NoPast, T!At, T!Transfer, T!Nothing
<1>8. T!FailedTransferIsUndone
  BY DEF T!Init, T!FailedTransferIsUndone, T!NoPast
<1>. QED BY <1>3, <1>4, <1>5, <1>6, <1>7, <1>8 DEF T!IInv

LEMMA TransferStutters ==
  ASSUME T!IInv, UNCHANGED T!vars PROVE T!IInv'
<1>1. T!TypeOK'
  BY DEF T!IInv, T!TypeOK, T!At, T!vars, T!hostVars, T!rowVars, T!bounds
<1>2. T!Records'
  BY DEF T!IInv, T!Records, T!vars, T!hostVars, T!rowVars, T!bounds
<1>3. T!JobInv' /\ T!DataInv'
  BY DEF T!IInv, T!JobInv, T!DataInv, T!At, T!Remote, T!Transfer, T!vars, T!hostVars,
         T!rowVars, T!bounds
<1>4. T!UndoInv' /\ T!RowInv'
  BY DEF T!IInv, T!UndoInv, T!RowInv, T!At, T!Transfer, T!Rows, T!vars, T!hostVars,
         T!rowVars, T!bounds
<1>5. T!FailedTransferIsUndone'
  BY DEF T!IInv, T!FailedTransferIsUndone, T!At, T!vars, T!hostVars, T!rowVars, T!bounds
<1>. QED BY <1>1, <1>2, <1>3, <1>4, <1>5 DEF T!IInv

LEMMA TransferNext ==
  ASSUME T!TransferAssumption, T!IInv, [T!Next]_T!vars PROVE T!IInv'
<1>1. ASSUME NEW kind \in {"transfer", "clone", "fresh"}, NEW n \in T!Nodes, NEW heard \in BOOLEAN, T!Begin(kind, n, heard) PROVE T!IInv'
  BY <1>1, Transfer_Begin
<1>2. CASE T!RestoreRemote
  BY <1>2, Transfer_RestoreRemote
<1>3. ASSUME NEW moved \in BOOLEAN, T!RemoteFails(moved) PROVE T!IInv'
  BY <1>3, Transfer_RemoteFails
<1>4. CASE T!RemoteUnheard
  BY <1>4, Transfer_RemoteUnheard
<1>5. CASE T!RestoreLocalAway
  BY <1>5, Transfer_RestoreLocalAway
<1>6. CASE T!RestoreLocalIn
  BY <1>6, Transfer_RestoreLocalIn
<1>7. CASE T!LocalFails
  BY <1>7, Transfer_LocalFails
<1>8. CASE T!StartLocal
  BY <1>8, Transfer_StartLocal
<1>9. CASE T!StartFails
  BY <1>9, Transfer_StartFails
<1>10. CASE T!Verify
  BY <1>10, Transfer_Verify
<1>11. CASE T!VerifyFails
  BY <1>11, Transfer_VerifyFails
<1>12. CASE T!CommitRow
  BY <1>12, Transfer_CommitRow
<1>13. CASE T!CommitRowFails
  BY <1>13, Transfer_CommitRowFails
<1>14. CASE T!Undo
  BY <1>14, Transfer_Undo
<1>15. ASSUME NEW half \in BOOLEAN, T!UndoFails(half) PROVE T!IInv'
  BY <1>15, Transfer_UndoFails
<1>16. CASE T!UndoExpired
  BY <1>16, Transfer_UndoExpired
<1>17. ASSUME NEW p \in T!Placements, NEW again \in BOOLEAN, T!Ask(p, again) PROVE T!IInv'
  BY <1>17, Transfer_Ask
<1>18. CASE T!BeginPlacement
  BY <1>18, Transfer_BeginPlacement
<1>19. CASE T!FormRefused
  BY <1>19, Transfer_FormRefused
<1>20. CASE T!Validate
  BY <1>20, Transfer_Validate
<1>21. CASE T!ApplyRejected
  BY <1>21, Transfer_ApplyRejected
<1>22. ASSUME NEW full \in BOOLEAN, T!Reconcile(full) PROVE T!IInv'
  BY <1>22, Transfer_Reconcile
<1>23. ASSUME NEW full \in BOOLEAN, T!ReconcileBlocked(full) PROVE T!IInv'
  BY <1>23, Transfer_ReconcileBlocked
<1>24. CASE T!ApplyFails
  BY <1>24, Transfer_ApplyFails
<1>25. CASE T!ApplyCommits
  BY <1>25, Transfer_ApplyCommits
<1>26. ASSUME NEW drops \in BOOLEAN, T!Discard(drops) PROVE T!IInv'
  BY <1>26, Transfer_Discard
<1>27. ASSUME NEW n \in Followers, T!CleanUp(n) PROVE T!IInv'
  BY <1>27, Transfer_CleanUp
<1>28. ASSUME NEW n \in Followers, NEW gone \in BOOLEAN, T!CleanUpFails(n, gone) PROVE T!IInv'
  BY <1>28, Transfer_CleanUpFails
<1>29. ASSUME NEW commits \in BOOLEAN, T!DeleteRows(commits) PROVE T!IInv'
  BY <1>29, Transfer_DeleteRows
<1>30. CASE T!Dies
  BY <1>30, Transfer_Dies
<1>31. CASE T!Write
  BY <1>31, Transfer_Write
<1>32. ASSUME NEW n \in Followers, T!Joined(n) PROVE T!IInv'
  BY <1>32, Transfer_Joined
<1>33. ASSUME NEW n \in Followers, T!Rejoins(n) PROVE T!IInv'
  BY <1>33, Transfer_Rejoins
<1>34. CASE T!PlacementApplied
  BY <1>34, Transfer_PlacementApplied
<1>35. CASE T!Save
  BY <1>35, Transfer_Save
<1>36. CASE T!SaveFails
  BY <1>36, Transfer_SaveFails
<1>37. CASE UNCHANGED T!vars
  BY <1>37, TransferStutters
<1>. QED
  BY <1>1, <1>2, <1>3, <1>4, <1>5, <1>6, <1>7, <1>8, <1>9, <1>10, <1>11, <1>12, <1>13,
     <1>14, <1>15, <1>16, <1>17, <1>18, <1>19, <1>20, <1>21, <1>22, <1>23, <1>24,
     <1>25, <1>26, <1>27, <1>28, <1>29, <1>30, <1>31, <1>32, <1>33, <1>34,
     <1>35, <1>36, <1>37 DEF T!Next

(* Of any followers, jobs, faults and writes, every state a transfer can   *)
(* reach is as T!IInv says.                                                *)
THEOREM TransferInvariance == T!Spec => []T!IInv
<1>1. T!Init => T!IInv
  BY TransferInit, JobsAssumption
<1>2. T!IInv /\ [T!Next]_T!vars => T!IInv'
  BY TransferNext, JobsAssumption
<1>. QED BY <1>1, <1>2, PTL DEF T!Spec

(* Wherever a transfer fails, and whatever fails when it is undone, some   *)
(* node has the data that it was to move (transfer_backend).               *)
THEOREM TransferKeepsData == T!Spec => []DataSurvivesTransfer
<1>1. T!IInv => DataSurvivesTransfer
  BY TransferTyped, JobsAssumption
  DEF T!IInv, T!Records, T!Pasts, T!DataInv, T!DataSurvivesTransfer, DataSurvivesTransfer
<1>. QED BY <1>1, TransferInvariance, PTL

(* A transfer that fails before the apply leaves the target the guest and  *)
(* the process it had (_restore_target_rollback).                          *)
THEOREM TransferIsUndone == T!Spec => []FailedTransferIsUndone
<1>1. T!IInv => FailedTransferIsUndone
  BY DEF T!IInv, FailedTransferIsUndone
<1>. QED BY <1>1, TransferInvariance, PTL

(* A follower that the committed placement names has a guest of the        *)
(* output, the named exceptions apart (run_apply).                         *)
THEOREM TransferPlaces == T!Spec => []PlacedIsThere
<1>1. ASSUME T!IInv PROVE PlacedIsThere
  <2>1. applied \cap Followers \subseteq ready
    BY <1>1 DEF T!IInv, T!TypeOK
  <2>2. applied \cap transfer.cleaned = {}
    <3>1. transfer.cleaned # {} => applied = {transfer.target}
      BY <1>1 DEF T!IInv, T!RowInv, T!JobInv, T!At
    <3>. QED BY <1>1, <3>1 DEF T!IInv, T!RowInv
  <2>. QED BY <1>1, <2>1, <2>2 DEF T!IInv, T!RowInv, T!PlacedIsThere, PlacedIsThere
<1>. QED BY <1>1, TransferInvariance, PTL

=============================================================================
