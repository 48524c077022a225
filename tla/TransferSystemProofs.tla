------------------------ MODULE TransferSystemProofs ------------------------
(* Theorems about TransferSystem, for every set of tasks and runners, every *)
(* length of content, every configuration and every bound.                  *)
EXTENDS TransferSystem, FiniteSetTheorems, TLAPS

-----------------------------------------------------------------------------
(* Type correctness.  TypeOK is not inductive: a runner writes at pos + 1    *)
(* and stores job's record, so the invariant also says when these are good.  *)

StoreType == tasks \in [Task -> TaskRecord]

FileType ==
  /\ object \in [Task -> {"absent", "intact", "corrupt"}]
  /\ part \in [Task -> PartFile]
  /\ dest \in [Task -> {"none", "temporary", "intact", "corrupt"}]
  /\ doomed \subseteq Task
  /\ open \in [Runner -> BOOLEAN]

\* A runner that is not idle has a task, and what it writes is a chunk.
RunnerType ==
  /\ slotFree \in Nat
  /\ pc \in [Runner -> RunnerPc]
  /\ job \in [Runner -> Task \cup {None}]
  /\ permit \in [Runner -> {"none", "current", "replaced"}]
  /\ pos \in [Runner -> 0..Chunks]
  /\ hash \in [Runner -> {"good", "bad"}]
  /\ source \in [Runner -> {"memory", "file"}]
  /\ \A r \in Runner : pc[r] # "idle" => job[r] \in Task
  /\ \A r \in Runner : pc[r] = "write" => pos[r] < Chunks

\* The handler of a request about a task knows that task.
HandlerType ==
  /\ h \in [pc : HandlerPc, op : Operations \cup {"none"}, task : Task \cup {None},
            priority : Priority,
            apply : [pause : SUBSET Task, resume : SUBSET Task],
            resumed : SUBSET Task]
  /\ h.pc \in {"write", "unflag", "get", "spawn"} => h.op # "config"
  /\ h.pc # "idle" /\ h.op # "config" => h.task \in Task

OtherType ==
  /\ cfg \in Config \cup {InitialConfig}
  /\ scheduler \in Runner \cup {None}
  /\ net \in [pause : SUBSET Task, resume : SUBSET Task]
  /\ requests \in 0..MaxRequests
  /\ crashes \in 0..MaxCrashes

TypeInv == StoreType /\ FileType /\ RunnerType /\ HandlerType /\ OtherType

LEMMA TypeInit == Init => TypeInv
<1> SUFFICES ASSUME Init PROVE TypeInv
  OBVIOUS
<1>1. StoreType
  BY TaskAssumption DEF Init, StoreType, TaskRecord, TransferState, AbsentTask
<1>2. FileType
  BY DEF Init, FileType, PartFile, NoFile
<1>3. RunnerType
  BY SystemAssumption DEF Init, RunnerType, RunnerPc
<1>4. HandlerType
  BY TaskAssumption DEF Init, HandlerType, HandlerPc, IdleHandler, NoApply
<1>5. OtherType
  BY SystemAssumption DEF Init, OtherType, NoApply
<1>6. QED
  BY <1>1, <1>2, <1>3, <1>4, <1>5 DEF TypeInv

\* What the transactions of TransferTasks return is a task record.
LEMMA TxTypes ==
  /\ \A p \in Priority : TxCreate(p) \in TaskRecord
  /\ \A k \in TaskRecord :
       /\ \A s \in TransferState : TxSet(k, s) \in TaskRecord
       /\ \A b \in BOOLEAN : TxPausedByNetwork(k, b) \in TaskRecord
       /\ \A p \in Priority : TxPriority(k, p) \in TaskRecord
       /\ TxRetry(k) \in TaskRecord
       /\ TxNetworkPause(k) \in TaskRecord
       /\ TxNetworkResume(k) \in TaskRecord
       /\ TxProgress(k) \in TaskRecord
       /\ TxRecover(k) \in TaskRecord
       /\ \A t \in Task, n \in 1..ChunkBytes : TxCellular(t, k, n) \in TaskRecord
<1>1. ASSUME NEW p \in Priority PROVE TxCreate(p) \in TaskRecord
  BY <1>1 DEF TxCreate, AbsentTask, TaskRecord, TransferState
<1>2. ASSUME NEW k \in TaskRecord
      PROVE  /\ \A s \in TransferState : TxSet(k, s) \in TaskRecord
             /\ \A b \in BOOLEAN : TxPausedByNetwork(k, b) \in TaskRecord
             /\ \A p \in Priority : TxPriority(k, p) \in TaskRecord
             /\ TxRetry(k) \in TaskRecord
             /\ TxNetworkPause(k) \in TaskRecord
             /\ TxNetworkResume(k) \in TaskRecord
  BY <1>2 DEF TaskRecord, TransferState, TxSet, TxPausedByNetwork, TxPriority, TxRetry,
              TxNetworkPause, TxNetworkResume
<1>3. ASSUME NEW k \in TaskRecord
      PROVE  TxProgress(k) \in TaskRecord /\ TxRecover(k) \in TaskRecord
  BY <1>2, <1>3 DEF TransferState, TxProgress, TxRecover
<1>4. ASSUME NEW k \in TaskRecord, NEW t \in Task, NEW n \in 1..ChunkBytes
      PROVE  TxCellular(t, k, n) \in TaskRecord
  <2> DEFINE moved == [k EXCEPT !.cellular_bytes_used = k.cellular_bytes_used + n]
  <2>1. moved \in TaskRecord
    BY <1>4 DEF TaskRecord
  <2>2. TxCellular(t, k, n) \in {k, moved, TxNetworkPause(moved)}
    BY DEF TxCellular
  <2>3. QED
    BY <1>2, <1>4, <2>1, <2>2
<1>5. QED
  BY <1>1, <1>2, <1>3, <1>4

-----------------------------------------------------------------------------
(* The ways a runner's locals change. *)

LEMMA RemoveType ==
  ASSUME FileType, NEW t \in Task, Remove(t)
  PROVE  part' \in [Task -> PartFile] /\ open' \in [Runner -> BOOLEAN]
<1>1. part' \in [Task -> PartFile]
  BY DEF FileType, Remove, PartFile
<1>2. \A r \in Runner : (open[r] /\ job[r] # t) \in BOOLEAN
  OBVIOUS
<1>3. open' \in [Runner -> BOOLEAN]
  BY <1>2, Zenon DEF Remove
<1>4. QED
  BY <1>1, <1>3

\* A runner stores task records.
LEMMA RunnerStoreType ==
  ASSUME TypeInv, NEW r \in Runner, RunnerStep(r)
  PROVE  StoreType'
<1>1. CASE RunnerLock(r)
  BY <1>1, TxTypes
     DEF TypeInv, StoreType, RunnerType, TransferState, RunnerLock, files, outside
<1>2. CASE RunnerWait(r)
  BY <1>2, TxTypes
     DEF TypeInv, StoreType, RunnerType, TransferState, RunnerWait, files, outside
<1>3. CASE RunnerPick(r)
  BY <1>3, TxTypes
     DEF TypeInv, StoreType, RunnerType, TransferState, RunnerPick, files, outside
<1>4. CASE RunnerNetwork(r)
  BY <1>4, TxTypes
     DEF TypeInv, StoreType, RunnerType, TransferState, RunnerNetwork, Stored, files,
         outside, rvars
<1>5. CASE RunnerNetworkDone(r)
  BY <1>5, TxTypes
     DEF TypeInv, StoreType, RunnerType, TransferState, RunnerNetworkDone, files, outside
<1>6. CASE RunnerMarkCheck(r)
  BY <1>6, TxTypes
     DEF TypeInv, StoreType, RunnerType, TransferState, RunnerMarkCheck, files, outside
<1>7. CASE RunnerMark(r)
  BY <1>7, TxTypes
     DEF TypeInv, StoreType, RunnerType, TransferState, RunnerMark, Stored, files, outside
<1>8. CASE RunnerFetchWhole(r)
  BY <1>8, TxTypes
     DEF TypeInv, StoreType, RunnerType, TransferState, RunnerFetchWhole, outside
<1>9. CASE RunnerFetchStream(r)
  BY <1>9, TxTypes
     DEF TypeInv, StoreType, RunnerType, TransferState, RunnerFetchStream, outside
<1>10. CASE RunnerProgress(r)
  BY <1>10, TxTypes
     DEF TypeInv, StoreType, RunnerType, TransferState, RunnerProgress, Stored, files,
         outside
<1>11. CASE RunnerChunk(r)
  BY <1>11, TxTypes
     DEF TypeInv, StoreType, RunnerType, TransferState, RunnerChunk, files, outside
<1>12. CASE RunnerChunkError(r)
  BY <1>12, TxTypes
     DEF TypeInv, StoreType, RunnerType, TransferState, RunnerChunkError, outside
<1>13. CASE RunnerWrite(r)
  BY <1>13, TxTypes
     DEF TypeInv, StoreType, RunnerType, TransferState, RunnerWrite, outside
<1>14. CASE RunnerMeter(r)
  BY <1>14, TxTypes
     DEF TypeInv, StoreType, RunnerType, TransferState, RunnerMeter, Stored, files, outside
<1>15. CASE RunnerStreamEnd(r)
  BY <1>15, TxTypes
     DEF TypeInv, StoreType, RunnerType, TransferState, RunnerStreamEnd, outside
<1>16. CASE RunnerVerifyCheck(r)
  BY <1>16, TxTypes
     DEF TypeInv, StoreType, RunnerType, TransferState, RunnerVerifyCheck, files, outside
<1>17. CASE RunnerVerify(r)
  BY <1>17, TxTypes
     DEF TypeInv, StoreType, RunnerType, TransferState, RunnerVerify, Stored, files,
         outside
<1>18. CASE RunnerHash(r)
  BY <1>18, TxTypes
     DEF TypeInv, StoreType, RunnerType, TransferState, RunnerHash, Fail, Stored, files, outside
<1>19. CASE RunnerPut(r)
  BY <1>19, TxTypes
     DEF TypeInv, StoreType, RunnerType, TransferState, RunnerPut, Fail, Stored, outside
<1>20. CASE RunnerCommitCheck(r)
  BY <1>20, TxTypes
     DEF TypeInv, StoreType, RunnerType, TransferState, RunnerCommitCheck, files, outside
<1>21. CASE RunnerCommit(r)
  BY <1>21, TxTypes
     DEF TypeInv, StoreType, RunnerType, TransferState, RunnerCommit, Stored, files,
         outside
<1>22. CASE RunnerComplete(r)
  BY <1>22, TxTypes
     DEF TypeInv, StoreType, RunnerType, TransferState, RunnerComplete, Stored, files,
         outside
<1>23. CASE RunnerDestination(r)
  BY <1>23, TxTypes
     DEF TypeInv, StoreType, RunnerType, TransferState, RunnerDestination, outside
<1>24. CASE RunnerDestinationRename(r)
  BY <1>24, TxTypes
     DEF TypeInv, StoreType, RunnerType, TransferState, RunnerDestinationRename, outside
<1>25. CASE RunnerErrorCheck(r)
  BY <1>25, TxTypes
     DEF TypeInv, StoreType, RunnerType, TransferState, RunnerErrorCheck, files, outside
<1>26. CASE RunnerFail(r)
  BY <1>26, TxTypes
     DEF TypeInv, StoreType, RunnerType, TransferState, RunnerFail, Fail, Stored, files, outside
<1>27. CASE RunnerNetworkFails(r)
  BY <1>27, TxTypes
     DEF TypeInv, StoreType, RunnerType, TransferState, outside, RunnerNetworkFails,
         files
<1>28. CASE RunnerFill(r)
  BY <1>28, TxTypes
     DEF TypeInv, StoreType, RunnerType, TransferState, outside, RunnerFill
<1>29. CASE RunnerFetchFails(r)
  BY <1>29, TxTypes
     DEF TypeInv, StoreType, RunnerType, TransferState, outside, RunnerFetchFails, files
<1>30. CASE RunnerRecord(r)
  BY <1>30, TxTypes
     DEF TypeInv, StoreType, RunnerType, TransferState, outside, RunnerRecord, Stored,
         files
<1>31. CASE RunnerDiscard(r)
  BY <1>31, TxTypes
     DEF TypeInv, StoreType, RunnerType, TransferState, outside, RunnerDiscard, Fail,
         Stored, files
<1>32. CASE RunnerStoreFails(r)
  BY <1>32, TxTypes
     DEF TypeInv, StoreType, RunnerType, TransferState, outside, RunnerStoreFails, files
<1>33. QED
  BY <1>1, <1>2, <1>3, <1>4, <1>5, <1>6, <1>7, <1>8, <1>9, <1>10, <1>11, <1>12,
     <1>13, <1>14, <1>15, <1>16, <1>17, <1>18, <1>19, <1>20, <1>21, <1>22, <1>23,
     <1>24, <1>25, <1>26, <1>27, <1>28, <1>29, <1>30, <1>31, <1>32
     DEF RunnerStep

\* A runner leaves files behind.
LEMMA RunnerFileType ==
  ASSUME TypeInv, NEW r \in Runner, RunnerStep(r)
  PROVE  FileType'
<1>1. CASE RunnerLock(r)
  BY <1>1 DEF TypeInv, FileType, RunnerType, RunnerLock, files, outside
<1>2. CASE RunnerWait(r)
  BY <1>2 DEF TypeInv, FileType, RunnerType, RunnerWait, files, outside
<1>3. CASE RunnerPick(r)
  BY <1>3 DEF TypeInv, FileType, RunnerType, RunnerPick, files, outside
<1>4. CASE RunnerNetwork(r)
  BY <1>4 DEF TypeInv, FileType, RunnerType, RunnerNetwork, files, outside, rvars
<1>5. CASE RunnerNetworkDone(r)
  BY <1>5 DEF TypeInv, FileType, RunnerType, RunnerNetworkDone, files, outside
<1>6. CASE RunnerMarkCheck(r)
  BY <1>6 DEF TypeInv, FileType, RunnerType, RunnerMarkCheck, files, outside
<1>7. CASE RunnerMark(r)
  BY <1>7 DEF TypeInv, FileType, RunnerType, RunnerMark, files, outside
<1>8. CASE RunnerFetchWhole(r)
  <2>1. part' \in [Task -> PartFile]
    BY <1>8 DEF TypeInv, FileType, RunnerFetchWhole, Empty, PartFile
  <2>2. open' = open \/ open' = [open EXCEPT ![r] = TRUE]
    BY <1>8 DEF RunnerFetchWhole
  <2>3. open' \in [Runner -> BOOLEAN]
    BY <2>2 DEF TypeInv, FileType
  <2>4. QED
    BY <1>8, <2>1, <2>3 DEF TypeInv, FileType, RunnerFetchWhole, outside
<1>9. CASE RunnerFetchStream(r)
  BY <1>9 DEF TypeInv, FileType, RunnerType, RunnerFetchStream, outside, Empty, PartFile
<1>10. CASE RunnerProgress(r)
  BY <1>10 DEF TypeInv, FileType, RunnerType, RunnerProgress, files, outside
<1>11. CASE RunnerChunk(r)
  BY <1>11 DEF TypeInv, FileType, RunnerType, RunnerChunk, Close, files, outside
<1>12. CASE RunnerChunkError(r)
  BY <1>12, RemoveType DEF TypeInv, FileType, RunnerType, RunnerChunkError, Close, outside
<1>13. CASE RunnerWrite(r)
  <2>1. job[r] \in Task
    BY <1>13 DEF TypeInv, RunnerType, RunnerWrite
  <2>2. PICK q \in {"good", "bad"} :
          part' = IF open[r] /\ part[job[r]] # NoFile
                  THEN [part EXCEPT ![job[r]][pos[r] + 1] = q] ELSE part
    BY <1>13 DEF RunnerWrite
  <2>3. part' \in [Task -> PartFile]
    <3>1. CASE part[job[r]] = NoFile
      BY <2>2, <3>1 DEF TypeInv, FileType
    <3>2. CASE part[job[r]] # NoFile
      <4>1. part[job[r]] \in [1..Chunks -> {"hole", "good", "bad"}]
        BY <2>1, <3>2 DEF TypeInv, FileType, PartFile
      <4>2. [part[job[r]] EXCEPT ![pos[r] + 1] = q] \in PartFile
        BY <4>1 DEF PartFile
      <4>3. QED
        BY <2>1, <2>2, <4>2 DEF TypeInv, FileType
    <3>3. QED
      BY <3>1, <3>2
  <2>4. QED
    BY <1>13, <2>3 DEF TypeInv, FileType, RunnerWrite
<1>14. CASE RunnerMeter(r)
  BY <1>14 DEF TypeInv, FileType, RunnerType, RunnerMeter, Close, files, outside
<1>15. CASE RunnerStreamEnd(r)
  BY <1>15, RemoveType DEF TypeInv, FileType, RunnerType, RunnerStreamEnd, Close, outside
<1>16. CASE RunnerVerifyCheck(r)
  BY <1>16 DEF TypeInv, FileType, RunnerType, RunnerVerifyCheck, files, outside
<1>17. CASE RunnerVerify(r)
  BY <1>17 DEF TypeInv, FileType, RunnerType, RunnerVerify, files, outside
<1>18. CASE RunnerHash(r)
  BY <1>18 DEF TypeInv, FileType, RunnerType, RunnerHash, files, outside, NoFile, Full
<1>19. CASE RunnerPut(r)
  BY <1>19 DEF TypeInv, FileType, RunnerType, RunnerPut, PutObject, outside
<1>20. CASE RunnerCommitCheck(r)
  BY <1>20 DEF TypeInv, FileType, RunnerType, RunnerCommitCheck, files, outside
<1>21. CASE RunnerCommit(r)
  BY <1>21 DEF TypeInv, FileType, RunnerType, RunnerCommit, files, outside
<1>22. CASE RunnerComplete(r)
  BY <1>22 DEF TypeInv, FileType, RunnerType, RunnerComplete, files, outside
<1>23. CASE RunnerDestination(r)
  BY <1>23 DEF TypeInv, FileType, RunnerType, RunnerDestination, outside, NoFile
<1>24. CASE RunnerDestinationRename(r)
  BY <1>24 DEF TypeInv, FileType, RunnerType, RunnerDestinationRename, outside, NoFile, Full
<1>25. CASE RunnerErrorCheck(r)
  BY <1>25 DEF TypeInv, FileType, RunnerType, RunnerErrorCheck, files, outside
<1>26. CASE RunnerFail(r)
  BY <1>26 DEF TypeInv, FileType, RunnerType, RunnerFail, files, outside
<1>27. CASE RunnerNetworkFails(r)
  BY <1>27 DEF TypeInv, FileType, RunnerType, outside, RunnerNetworkFails, files
<1>28. CASE RunnerFill(r)
  <2>1. part' \in [Task -> PartFile]
    BY <1>28 DEF TypeInv, FileType, RunnerFill, Full, PartFile
  <2>2. open' \in [Runner -> BOOLEAN]
    BY <1>28 DEF TypeInv, FileType, RunnerFill, Close
  <2>3. QED
    BY <1>28, <2>1, <2>2 DEF TypeInv, FileType, RunnerFill, outside
<1>29. CASE RunnerFetchFails(r)
  BY <1>29 DEF TypeInv, FileType, RunnerType, outside, RunnerFetchFails, files
<1>30. CASE RunnerRecord(r)
  BY <1>30 DEF TypeInv, FileType, RunnerType, outside, RunnerRecord, Close, files
<1>31. CASE RunnerDiscard(r)
  BY <1>31 DEF TypeInv, FileType, RunnerType, outside, RunnerDiscard, files
<1>32. CASE RunnerStoreFails(r)
  BY <1>32 DEF TypeInv, FileType, RunnerType, outside, RunnerStoreFails, Close, files
<1>33. QED
  BY <1>1, <1>2, <1>3, <1>4, <1>5, <1>6, <1>7, <1>8, <1>9, <1>10, <1>11, <1>12,
     <1>13, <1>14, <1>15, <1>16, <1>17, <1>18, <1>19, <1>20, <1>21, <1>22, <1>23,
     <1>24, <1>25, <1>26, <1>27, <1>28, <1>29, <1>30, <1>31, <1>32
     DEF RunnerStep

\* ... and its own locals, and those of others, well typed.
LEMMA RunnerRunnerType ==
  ASSUME TypeInv, NEW r \in Runner, RunnerStep(r)
  PROVE  RunnerType'
<1>1. CASE RunnerLock(r)
  BY <1>1, SystemAssumption
     DEF TypeInv, RunnerType, RunnerPc, RunnerLock, Continue, Finish, Goto, ReleasePermit,
         files, outside
<1>2. CASE RunnerWait(r)
  BY <1>2, SystemAssumption
     DEF TypeInv, RunnerType, RunnerPc, RunnerWait, Continue, Goto, Raise, ReleasePermit,
         files, outside
<1>3. CASE RunnerPick(r)
  BY <1>3, SystemAssumption
     DEF TypeInv, RunnerType, RunnerPc, RunnerPick, Goto, files, outside
<1>4. CASE RunnerNetwork(r)
  BY <1>4, SystemAssumption
     DEF TypeInv, RunnerType, RunnerPc, RunnerNetwork, files, outside, rvars
<1>5. CASE RunnerNetworkDone(r)
  BY <1>5, SystemAssumption
     DEF TypeInv, RunnerType, RunnerPc, RunnerNetworkDone, Finish, Goto, ReleasePermit,
         files, outside
<1>6. CASE RunnerMarkCheck(r)
  BY <1>6, SystemAssumption
     DEF TypeInv, RunnerType, RunnerPc, RunnerMarkCheck, Continue, Goto, Raise,
         ReleasePermit, files, outside
<1>7. CASE RunnerMark(r)
  BY <1>7, SystemAssumption
     DEF TypeInv, RunnerType, RunnerPc, RunnerMark, Continue, Goto, files, outside
<1>8. CASE RunnerFetchWhole(r)
  BY <1>8, SystemAssumption
     DEF TypeInv, RunnerType, RunnerPc, RunnerFetchWhole, Goto, outside
<1>9. CASE RunnerFetchStream(r)
  BY <1>9, SystemAssumption
     DEF TypeInv, RunnerType, RunnerPc, RunnerFetchStream, Continue, Goto, Raise,
         ReleasePermit, outside
<1>10. CASE RunnerProgress(r)
  BY <1>10, SystemAssumption
     DEF TypeInv, RunnerType, RunnerPc, RunnerProgress, Continue, Goto, Raise,
         ReleasePermit, files, outside
<1>11. CASE RunnerChunk(r)
  BY <1>11, SystemAssumption
     DEF TypeInv, RunnerType, RunnerPc, RunnerChunk, Continue, Goto, Raise, ReleasePermit,
         files, outside
<1>12. CASE RunnerChunkError(r)
  BY <1>12, SystemAssumption
     DEF TypeInv, RunnerType, RunnerPc, RunnerChunkError, Goto, Raise, ReleasePermit,
         outside
<1>13. CASE RunnerWrite(r)
  BY <1>13, SystemAssumption
     DEF TypeInv, RunnerType, RunnerPc, RunnerWrite, Goto, outside
<1>14. CASE RunnerMeter(r)
  BY <1>14, SystemAssumption
     DEF TypeInv, RunnerType, RunnerPc, RunnerMeter, Continue, Goto, Raise, ReleasePermit,
         files, outside
<1>15. CASE RunnerStreamEnd(r)
  BY <1>15, SystemAssumption
     DEF TypeInv, RunnerType, RunnerPc, RunnerStreamEnd, Continue, Raise, Goto,
         ReleasePermit, outside
<1>16. CASE RunnerVerifyCheck(r)
  BY <1>16, SystemAssumption
     DEF TypeInv, RunnerType, RunnerPc, RunnerVerifyCheck, Continue, Goto, Raise,
         ReleasePermit, files, outside
<1>17. CASE RunnerVerify(r)
  BY <1>17, SystemAssumption
     DEF TypeInv, RunnerType, RunnerPc, RunnerVerify, Continue, Goto, files, outside
<1>18. CASE RunnerHash(r)
  BY <1>18, SystemAssumption
     DEF TypeInv, RunnerType, RunnerPc, RunnerHash, Continue, Goto, Raise, ReleasePermit,
         files, outside
<1>19. CASE RunnerPut(r)
  BY <1>19, SystemAssumption
     DEF TypeInv, RunnerType, RunnerPc, RunnerPut, Continue, Goto, Raise, ReleasePermit,
         outside
<1>20. CASE RunnerCommitCheck(r)
  BY <1>20, SystemAssumption
     DEF TypeInv, RunnerType, RunnerPc, RunnerCommitCheck, Continue, Goto, Raise,
         ReleasePermit, files, outside
<1>21. CASE RunnerCommit(r)
  BY <1>21, SystemAssumption
     DEF TypeInv, RunnerType, RunnerPc, RunnerCommit, Continue, Goto, files, outside
<1>22. CASE RunnerComplete(r)
  BY <1>22, SystemAssumption
     DEF TypeInv, RunnerType, RunnerPc, RunnerComplete, Continue, Finish, Goto,
         ReleasePermit, files, outside
<1>23. CASE RunnerDestination(r)
  BY <1>23, SystemAssumption
     DEF TypeInv, RunnerType, RunnerPc, RunnerDestination, Continue, Goto, Raise,
         ReleasePermit, outside
<1>24. CASE RunnerDestinationRename(r)
  BY <1>24, SystemAssumption
     DEF TypeInv, RunnerType, RunnerPc, RunnerDestinationRename, Finish, Goto,
         ReleasePermit, outside
<1>25. CASE RunnerErrorCheck(r)
  BY <1>25, SystemAssumption
     DEF TypeInv, RunnerType, RunnerPc, RunnerErrorCheck, Continue, Finish, Goto,
         ReleasePermit, files, outside
<1>26. CASE RunnerFail(r)
  BY <1>26, SystemAssumption
     DEF TypeInv, RunnerType, RunnerPc, RunnerFail, Finish, Goto, ReleasePermit, files,
         outside
<1>27. CASE RunnerNetworkFails(r)
  BY <1>27, SystemAssumption
     DEF TypeInv, RunnerType, RunnerPc, outside, RunnerNetworkFails, Finish, files,
         ReleasePermit, Goto
<1>28. CASE RunnerFill(r)
  BY <1>28, SystemAssumption
     DEF TypeInv, RunnerType, RunnerPc, outside, RunnerFill, Continue, Goto
<1>29. CASE RunnerFetchFails(r)
  BY <1>29, SystemAssumption
     DEF TypeInv, RunnerType, RunnerPc, outside, RunnerFetchFails, Raise, files,
         ReleasePermit, Goto
<1>30. CASE RunnerRecord(r)
  BY <1>30, SystemAssumption
     DEF TypeInv, RunnerType, RunnerPc, outside, RunnerRecord, Raise, Continue, files,
         ReleasePermit, Goto
<1>31. CASE RunnerDiscard(r)
  BY <1>31, SystemAssumption
     DEF TypeInv, RunnerType, RunnerPc, outside, RunnerDiscard, Finish, files,
         ReleasePermit, Goto
<1>32. CASE RunnerStoreFails(r)
  BY <1>32, SystemAssumption
     DEF TypeInv, RunnerType, RunnerPc, outside, RunnerStoreFails, Raise, files,
         ReleasePermit, Goto
<1>33. QED
  BY <1>1, <1>2, <1>3, <1>4, <1>5, <1>6, <1>7, <1>8, <1>9, <1>10, <1>11, <1>12,
     <1>13, <1>14, <1>15, <1>16, <1>17, <1>18, <1>19, <1>20, <1>21, <1>22, <1>23,
     <1>24, <1>25, <1>26, <1>27, <1>28, <1>29, <1>30, <1>31, <1>32
     DEF RunnerStep

\* ... and the rest.
LEMMA RunnerOtherType ==
  ASSUME TypeInv, NEW r \in Runner, RunnerStep(r)
  PROVE  (HandlerType /\ OtherType)'
<1>1. CASE RunnerLock(r)
  BY <1>1 DEF TypeInv, HandlerType, OtherType, RunnerLock, files, outside
<1>2. CASE RunnerWait(r)
  BY <1>2 DEF TypeInv, HandlerType, OtherType, RunnerWait, files, outside
<1>3. CASE RunnerPick(r)
  BY <1>3 DEF TypeInv, HandlerType, OtherType, RunnerPick, files, outside
<1>4. CASE RunnerNetwork(r)
  BY <1>4 DEF TypeInv, HandlerType, OtherType, RunnerNetwork, files, outside, rvars
<1>5. CASE RunnerNetworkDone(r)
  BY <1>5 DEF TypeInv, HandlerType, OtherType, RunnerNetworkDone, files, outside
<1>6. CASE RunnerMarkCheck(r)
  BY <1>6 DEF TypeInv, HandlerType, OtherType, RunnerMarkCheck, files, outside
<1>7. CASE RunnerMark(r)
  BY <1>7 DEF TypeInv, HandlerType, OtherType, RunnerMark, files, outside
<1>8. CASE RunnerFetchWhole(r)
  BY <1>8 DEF TypeInv, HandlerType, OtherType, RunnerFetchWhole, outside
<1>9. CASE RunnerFetchStream(r)
  BY <1>9 DEF TypeInv, HandlerType, OtherType, RunnerFetchStream, outside
<1>10. CASE RunnerProgress(r)
  BY <1>10 DEF TypeInv, HandlerType, OtherType, RunnerProgress, files, outside
<1>11. CASE RunnerChunk(r)
  BY <1>11 DEF TypeInv, HandlerType, OtherType, RunnerChunk, files, outside
<1>12. CASE RunnerChunkError(r)
  BY <1>12 DEF TypeInv, HandlerType, OtherType, RunnerChunkError, outside
<1>13. CASE RunnerWrite(r)
  BY <1>13 DEF TypeInv, HandlerType, OtherType, RunnerWrite, outside
<1>14. CASE RunnerMeter(r)
  BY <1>14 DEF TypeInv, HandlerType, OtherType, RunnerMeter, files, outside
<1>15. CASE RunnerStreamEnd(r)
  BY <1>15 DEF TypeInv, HandlerType, OtherType, RunnerStreamEnd, outside
<1>16. CASE RunnerVerifyCheck(r)
  BY <1>16 DEF TypeInv, HandlerType, OtherType, RunnerVerifyCheck, files, outside
<1>17. CASE RunnerVerify(r)
  BY <1>17 DEF TypeInv, HandlerType, OtherType, RunnerVerify, files, outside
<1>18. CASE RunnerHash(r)
  BY <1>18 DEF TypeInv, HandlerType, OtherType, RunnerHash, files, outside
<1>19. CASE RunnerPut(r)
  BY <1>19 DEF TypeInv, HandlerType, OtherType, RunnerPut, outside
<1>20. CASE RunnerCommitCheck(r)
  BY <1>20 DEF TypeInv, HandlerType, OtherType, RunnerCommitCheck, files, outside
<1>21. CASE RunnerCommit(r)
  BY <1>21 DEF TypeInv, HandlerType, OtherType, RunnerCommit, files, outside
<1>22. CASE RunnerComplete(r)
  BY <1>22 DEF TypeInv, HandlerType, OtherType, RunnerComplete, files, outside
<1>23. CASE RunnerDestination(r)
  BY <1>23 DEF TypeInv, HandlerType, OtherType, RunnerDestination, outside
<1>24. CASE RunnerDestinationRename(r)
  BY <1>24 DEF TypeInv, HandlerType, OtherType, RunnerDestinationRename, outside
<1>25. CASE RunnerErrorCheck(r)
  BY <1>25 DEF TypeInv, HandlerType, OtherType, RunnerErrorCheck, files, outside
<1>26. CASE RunnerFail(r)
  BY <1>26 DEF TypeInv, HandlerType, OtherType, RunnerFail, files, outside
<1>27. CASE RunnerNetworkFails(r)
  BY <1>27
     DEF TypeInv, HandlerType, OtherType, outside, RunnerNetworkFails, NoApply, files
<1>28. CASE RunnerFill(r)
  BY <1>28 DEF TypeInv, HandlerType, OtherType, outside, RunnerFill
<1>29. CASE RunnerFetchFails(r)
  BY <1>29 DEF TypeInv, HandlerType, OtherType, outside, RunnerFetchFails, files
<1>30. CASE RunnerRecord(r)
  BY <1>30 DEF TypeInv, HandlerType, OtherType, outside, RunnerRecord, files
<1>31. CASE RunnerDiscard(r)
  BY <1>31 DEF TypeInv, HandlerType, OtherType, outside, RunnerDiscard, files
<1>32. CASE RunnerStoreFails(r)
  BY <1>32 DEF TypeInv, HandlerType, OtherType, outside, RunnerStoreFails, files
<1>33. QED
  BY <1>1, <1>2, <1>3, <1>4, <1>5, <1>6, <1>7, <1>8, <1>9, <1>10, <1>11, <1>12,
     <1>13, <1>14, <1>15, <1>16, <1>17, <1>18, <1>19, <1>20, <1>21, <1>22, <1>23,
     <1>24, <1>25, <1>26, <1>27, <1>28, <1>29, <1>30, <1>31, <1>32
     DEF RunnerStep

-----------------------------------------------------------------------------
(* The handler, the clients and the environment. *)

\* A request starts the handler, changes at most the configuration and leaves the
\* runners alone.
LEMMA RequestChanges ==
  ASSUME HandlerType, ClientRequest
  PROVE  /\ h.pc = "idle" /\ UNCHANGED <<files, runners, crashes>> /\ h'.resumed = h.resumed
         /\ \/ h'.pc \in {"list", "spawn", "write"} /\ cfg' = cfg
            \/ h'.pc = "slots" /\ \E c \in Config : SetNodeConfig(c)
<1>1. ASSUME NEW t \in Task, NEW p \in Priority, CreateTransfer(t, p)
      PROVE  /\ h.pc = "idle" /\ UNCHANGED <<files, runners, crashes>>
             /\ h'.pc = "list" /\ h'.resumed = h.resumed /\ cfg' = cfg
  BY <1>1 DEF CreateTransfer, Request, HandlerType
<1>2. ASSUME NEW t \in Task, AssistPin(t)
      PROVE  /\ h.pc = "idle" /\ UNCHANGED <<files, runners, crashes>>
             /\ h'.pc = "spawn" /\ h'.resumed = h.resumed /\ cfg' = cfg
  BY <1>2 DEF AssistPin, Request, HandlerType
<1>3. ASSUME NEW op, NEW t \in Task, NEW p \in Priority, ControlTransfer(op, t, p)
      PROVE  /\ h.pc = "idle" /\ UNCHANGED <<files, runners, crashes>>
             /\ h'.pc = "write" /\ h'.resumed = h.resumed /\ cfg' = cfg
  BY <1>3 DEF ControlTransfer, Request, HandlerType
<1>4. ASSUME NEW c \in Config, SetNodeConfig(c)
      PROVE  /\ h.pc = "idle" /\ UNCHANGED <<files, runners, crashes>>
             /\ h'.pc = "slots" /\ h'.resumed = h.resumed
  BY <1>4 DEF SetNodeConfig, Request, HandlerType
<1>5. QED
  BY <1>1, <1>2, <1>3, <1>4 DEF ClientRequest

LEMMA SpawnType ==
  ASSUME RunnerType, FileType, NEW r \in Runner, NEW t \in Task, Spawn(r, t)
  PROVE  RunnerType' /\ open' = open
BY DEF Spawn, RunnerType, RunnerPc, Goto

\* The handler keeps everything well typed.
LEMMA HandlerTypeStep ==
  ASSUME TypeInv, HandlerStep
  PROVE  TypeInv'
<1>1. CASE HandlerWrite
  <2>1. StoreType'
    <3>1. h.task \in Task /\ tasks[h.task] \in TaskRecord
      BY <1>1 DEF TypeInv, StoreType, HandlerType, HandlerWrite
    <3>2. \E k \in TaskRecord : tasks' = [tasks EXCEPT ![h.task] = k]
      BY <1>1, <3>1, TxTypes DEF TypeInv, HandlerType, TransferState, Stored, HandlerWrite
    <3>3. QED
      BY <3>1, <3>2 DEF TypeInv, StoreType
  <2>2. HandlerType'
    BY <1>1, TaskAssumption
       DEF TypeInv, HandlerType, HandlerPc, HandlerAt, HandlerDone, IdleHandler, NoApply,
           HandlerWrite
  <2>3. FileType' /\ RunnerType' /\ OtherType'
    BY <1>1
       DEF TypeInv, HandlerType, FileType, RunnerType, OtherType, runners, rvars, files,
           HandlerWrite
  <2>4. QED
    BY <2>1, <2>2, <2>3 DEF TypeInv
<1>2. CASE HandlerUnflag
  <2>1. StoreType'
    <3>1. h.task \in Task /\ tasks[h.task] \in TaskRecord
      BY <1>2 DEF TypeInv, StoreType, HandlerType, HandlerUnflag
    <3>2. \E k \in TaskRecord : tasks' = [tasks EXCEPT ![h.task] = k]
      BY <1>2, <3>1, TxTypes DEF TypeInv, HandlerType, TransferState, Stored, HandlerUnflag
    <3>3. QED
      BY <3>1, <3>2 DEF TypeInv, StoreType
  <2>2. HandlerType'
    BY <1>2, TaskAssumption
       DEF TypeInv, HandlerType, HandlerPc, HandlerAt, HandlerDone, IdleHandler, NoApply,
           HandlerUnflag
  <2>3. FileType' /\ RunnerType' /\ OtherType'
    BY <1>2
       DEF TypeInv, HandlerType, FileType, RunnerType, OtherType, runners, rvars, files,
           HandlerUnflag
  <2>4. QED
    BY <2>1, <2>2, <2>3 DEF TypeInv
<1>3. CASE HandlerSlots
  BY <1>3, SystemAssumption
     DEF TypeInv, StoreType, FileType, RunnerType, HandlerType, OtherType, HandlerPc,
         HandlerAt, files, HandlerSlots
<1>4. CASE HandlerList
  BY <1>4
     DEF TypeInv, StoreType, FileType, RunnerType, HandlerType, OtherType, HandlerPc,
         runners, rvars, files, HandlerList
<1>5. CASE HandlerApply
  <2> DEFINE Apply == [pause : SUBSET Task, resume : SUBSET Task]
  <2>1. h.apply \in Apply /\ h.resumed \subseteq Task
    BY DEF TypeInv, HandlerType
  <2>2. ASSUME NEW t \in h.apply.pause, Stored(t, TxNetworkPause(tasks[t])),
               h' = [h EXCEPT !.apply.pause = @ \ {t}]
        PROVE  StoreType' /\ HandlerType'
    <3>1. t \in Task
      BY <2>1
    <3>2. StoreType'
      BY <2>2, <3>1, TxTypes DEF TypeInv, StoreType, Stored
    <3>3. [h.apply EXCEPT !.pause = @ \ {t}] \in Apply
      BY <2>1
    <3>4. h' = [h EXCEPT !.apply = [h.apply EXCEPT !.pause = @ \ {t}]]
      BY <2>2
    <3>5. HandlerType'
      BY <3>3, <3>4 DEF TypeInv, HandlerType
    <3>6. QED
      BY <3>2, <3>5
  <2>3. ASSUME NEW t \in h.apply.resume, Stored(t, TxNetworkResume(tasks[t])),
               h' = [h EXCEPT !.apply.resume = @ \ {t}, !.resumed = @ \cup {t}]
        PROVE  StoreType' /\ HandlerType'
    <3>1. t \in Task
      BY <2>1
    <3>2. StoreType'
      BY <2>3, <3>1, TxTypes DEF TypeInv, StoreType, Stored
    <3>3. /\ [h.apply EXCEPT !.resume = @ \ {t}] \in Apply
          /\ h.resumed \cup {t} \subseteq Task
      BY <2>1, <3>1
    <3>4. h' = [h EXCEPT !.apply = [h.apply EXCEPT !.resume = @ \ {t}],
                         !.resumed = h.resumed \cup {t}]
      BY <2>3
    <3>5. HandlerType'
      BY <3>3, <3>4 DEF TypeInv, HandlerType
    <3>6. QED
      BY <3>2, <3>5
  <2>4. FileType' /\ RunnerType' /\ OtherType'
    BY <1>5
       DEF TypeInv, FileType, RunnerType, OtherType, runners, rvars, files, HandlerApply
  <2>5. QED
    BY <1>5, <2>2, <2>3, <2>4 DEF TypeInv, HandlerApply
<1>6. CASE HandlerApplied
  BY <1>6
     DEF TypeInv, StoreType, FileType, RunnerType, HandlerType, OtherType, HandlerPc,
         HandlerAt, runners, rvars, files, HandlerApplied
<1>7. CASE HandlerSpawnResumed
  <2>1. StoreType' /\ OtherType' /\ UNCHANGED files
    BY <1>7 DEF TypeInv, StoreType, OtherType, HandlerSpawnResumed
  <2>2. CASE h.resumed = {}
    <3>1. HandlerType'
      BY <1>7, <2>2, TaskAssumption
         DEF TypeInv, HandlerType, HandlerPc, HandlerAt, HandlerDone, IdleHandler, NoApply,
             HandlerSpawnResumed
    <3>2. QED
      BY <1>7, <2>1, <2>2, <3>1
         DEF TypeInv, FileType, RunnerType, rvars, files, HandlerSpawnResumed
  <2>3. CASE h.resumed # {}
    <3>1. PICK t \in h.resumed, r \in Runner :
            Spawn(r, t) /\ h' = [h EXCEPT !.resumed = @ \ {t}]
      BY <1>7, <2>3 DEF HandlerSpawnResumed
    <3>2. HandlerType' /\ t \in Task
      BY <3>1 DEF TypeInv, HandlerType
    <3>3. RunnerType' /\ FileType'
      BY <2>1, <3>1, <3>2, SpawnType DEF TypeInv, FileType, files
    <3>4. QED
      BY <2>1, <3>2, <3>3 DEF TypeInv
  <2>4. QED
    BY <2>2, <2>3
<1>8. CASE HandlerGet
  BY <1>8, TaskAssumption
     DEF TypeInv, StoreType, FileType, RunnerType, HandlerType, OtherType, HandlerPc,
         HandlerAt, HandlerDone, IdleHandler, NoApply, runners, rvars, files, HandlerGet
<1>9. CASE HandlerSpawn
  <2>1. PICK r \in Runner : Spawn(r, h.task)
    BY <1>9 DEF HandlerSpawn
  <2>2. HandlerType' /\ h.task \in Task
    BY <1>9, TaskAssumption
       DEF TypeInv, HandlerType, HandlerPc, HandlerDone, IdleHandler, NoApply, HandlerSpawn
  <2>3. StoreType' /\ OtherType' /\ UNCHANGED files
    BY <1>9 DEF TypeInv, StoreType, OtherType, HandlerSpawn
  <2>4. RunnerType' /\ FileType'
    BY <2>1, <2>2, <2>3, SpawnType DEF TypeInv, FileType, files
  <2>5. QED
    BY <2>2, <2>3, <2>4 DEF TypeInv
<1>10. CASE HandlerStoreFails
  BY <1>10, TaskAssumption
     DEF TypeInv, StoreType, FileType, RunnerType, HandlerType, OtherType, HandlerPc,
         HandlerDone, IdleHandler, NoApply, runners, rvars, files, HandlerStoreFails
<1>11. QED
  BY <1>1, <1>2, <1>3, <1>4, <1>5, <1>6, <1>7, <1>8, <1>9, <1>10 DEF HandlerStep

\* So does a request.
LEMMA ClientTypeStep ==
  ASSUME TypeInv, ClientRequest
  PROVE  TypeInv'
<1>1. ASSUME NEW t \in Task, NEW p \in Priority, CreateTransfer(t, p) PROVE TypeInv'
  <2>1. StoreType'
    BY <1>1, TxTypes DEF TypeInv, StoreType, TransferState, Stored, CreateTransfer
  <2>2. HandlerType'
    BY <1>1 DEF TypeInv, HandlerType, HandlerPc, Operations, Request, CreateTransfer
  <2>3. FileType' /\ RunnerType' /\ OtherType'
    BY <1>1, SystemAssumption
       DEF TypeInv, FileType, RunnerType, OtherType, Request, runners, rvars, files,
           CreateTransfer
  <2>4. QED
    BY <2>1, <2>2, <2>3 DEF TypeInv
<1>2. ASSUME NEW t \in Task, AssistPin(t) PROVE TypeInv'
  <2>1. StoreType'
    BY <1>2, TxTypes, TaskAssumption
       DEF TypeInv, StoreType, TransferState, Stored, AssistPin
  <2>2. HandlerType'
    BY <1>2 DEF TypeInv, HandlerType, HandlerPc, Operations, Request, AssistPin
  <2>3. FileType' /\ RunnerType' /\ OtherType'
    BY <1>2, SystemAssumption
       DEF TypeInv, FileType, RunnerType, OtherType, Request, runners, rvars, files,
           AssistPin
  <2>4. QED
    BY <2>1, <2>2, <2>3 DEF TypeInv
<1>3. ASSUME NEW op \in Operations \ {"create", "assist_pin", "config"},
             NEW t \in Task, NEW p \in Priority, ControlTransfer(op, t, p) PROVE TypeInv'
  <2>1. StoreType'
    BY <1>3 DEF TypeInv, StoreType, ControlTransfer
  <2>2. HandlerType'
    BY <1>3 DEF TypeInv, HandlerType, HandlerPc, Operations, Request, ControlTransfer
  <2>3. FileType' /\ RunnerType' /\ OtherType'
    BY <1>3, SystemAssumption
       DEF TypeInv, FileType, RunnerType, OtherType, Request, runners, rvars, files,
           ControlTransfer
  <2>4. QED
    BY <2>1, <2>2, <2>3 DEF TypeInv
<1>4. ASSUME NEW c \in Config, SetNodeConfig(c) PROVE TypeInv'
  <2>1. StoreType'
    BY <1>4 DEF TypeInv, StoreType, SetNodeConfig
  <2>2. HandlerType'
    BY <1>4 DEF TypeInv, HandlerType, HandlerPc, Operations, Request, SetNodeConfig
  <2>3. FileType' /\ RunnerType' /\ OtherType'
    BY <1>4, SystemAssumption
       DEF TypeInv, FileType, RunnerType, OtherType, Request, runners, rvars, files,
           SetNodeConfig
  <2>4. QED
    BY <2>1, <2>2, <2>3 DEF TypeInv
<1>5. QED
  BY <1>1, <1>2, <1>3, <1>4 DEF ClientRequest

\* So do the sweep and a restart.
LEMMA SweepTypeStep ==
  ASSUME TypeInv, NEW t \in Task, SweepJudge(t) \/ SweepRemove(t)
  PROVE  TypeInv'
<1>1. CASE SweepJudge(t)
  BY <1>1
     DEF TypeInv, StoreType, FileType, RunnerType, HandlerType, OtherType, runners, rvars,
         SweepJudge
<1>2. CASE SweepRemove(t)
  BY <1>2, RemoveType
     DEF TypeInv, StoreType, FileType, RunnerType, HandlerType, OtherType, SweepRemove
<1>3. QED
  BY <1>1, <1>2

LEMMA RestartTypeStep ==
  ASSUME TypeInv, Restart
  PROVE  TypeInv'
<1>1. StoreType'
  BY TxTypes DEF TypeInv, StoreType, Restart
<1>2. FileType'
  BY DEF TypeInv, FileType, PartFile, Restart
<1>3. RunnerType'
  <2>1. job' \in [Runner -> Task \cup {None}]
    <3>1. PICK f \in [{t \in Task : tasks'[t].state = "Queued"} -> Runner] :
            job' = [r \in Runner |-> IF \E t \in DOMAIN f : f[t] = r
                                     THEN CHOOSE t \in DOMAIN f : f[t] = r ELSE None]
      BY DEF Restart
    <3>2. ASSUME NEW r \in Runner, \E t \in DOMAIN f : f[t] = r
          PROVE  (CHOOSE t \in DOMAIN f : f[t] = r) \in Task
      BY <3>2
    <3>3. QED
      BY <3>1, <3>2
  <2>2. slotFree' \in Nat
    BY SystemAssumption DEF TypeInv, OtherType, Restart
  <2>3. pc' = [r \in Runner |-> IF job'[r] = None THEN "idle" ELSE "sched"]
    BY DEF Restart
  <2>4. pc' \in [Runner -> {"idle", "sched"}]
    BY <2>3
  <2>5. \A r \in Runner : pc'[r] # "idle" => job'[r] \in Task
    BY <2>1, <2>3
  <2>6. /\ permit' = [r \in Runner |-> "none"]
        /\ pos' = [r \in Runner |-> 0]
        /\ hash' = [r \in Runner |-> "good"]
        /\ source' = [r \in Runner |-> "file"]
    BY DEF Restart
  <2>7. QED
    BY <2>1, <2>2, <2>4, <2>5, <2>6, SystemAssumption DEF RunnerType, RunnerPc
<1>4. HandlerType'
  BY TaskAssumption DEF HandlerType, HandlerPc, IdleHandler, NoApply, Restart
<1>5. OtherType'
  BY SystemAssumption DEF TypeInv, OtherType, NoApply, Restart
<1>6. QED
  BY <1>1, <1>2, <1>3, <1>4, <1>5 DEF TypeInv

LEMMA TypeStep ==
  ASSUME TypeInv, [Next]_vars
  PROVE  TypeInv'
<1>1. CASE UNCHANGED vars
  BY <1>1
     DEF TypeInv, StoreType, FileType, RunnerType, HandlerType, OtherType, vars, rvars,
         files
<1>2. ASSUME NEW r \in Runner, RunnerStep(r) PROVE TypeInv'
  BY <1>2, RunnerStoreType, RunnerFileType, RunnerRunnerType, RunnerOtherType DEF TypeInv
<1>3. QED
  BY <1>1, <1>2, HandlerTypeStep, ClientTypeStep, SweepTypeStep, RestartTypeStep DEF Next

LEMMA TypeInvariance == Spec => []TypeInv
BY TypeInit, TypeStep, PTL DEF Spec

\* Every variable has its type: no step of a runner, of the handler or of a
\* restart leaves a record, a file or a position nobody can read.
THEOREM TypeCorrect == Spec => []TypeOK
<1>1. TypeInv => TypeOK
  BY DEF TypeInv, StoreType, FileType, RunnerType, HandlerType, OtherType, TypeOK
<1>2. QED
  BY <1>1, TypeInvariance, PTL

-----------------------------------------------------------------------------
(* Completed tasks are stored.  The store alone does not say why: a runner    *)
(* completes a task without looking at the repository again, so the invariant *)
(* follows the runner from the moment put_verified returns.                   *)

HasStored(r) == pc[r] \in {"commit", "commit_write", "complete"}

StoredInv ==
  /\ TypeInv
  /\ CompletedIsStored
  /\ \A r \in Runner : HasStored(r) => object[job[r]] # "absent"

\* The repository never loses the object of a transfer, and only a runner that
\* has stored it completes a task.
KeepsStored ==
  /\ \A t \in Task : object[t] # "absent" => object'[t] # "absent"
  /\ \A t \in Task : tasks'[t].state = "Completed" =>
        tasks[t].state = "Completed" \/ object[t] # "absent"
  /\ \A r \in Runner : HasStored(r)' =>
        \/ HasStored(r) /\ job'[r] = job[r]
        \/ object'[job'[r]] # "absent"

\* No transaction but the one that ends verify_and_commit completes a task.
LEMMA TxNotCompleted ==
  /\ \A p \in Priority : TxCreate(p).state # "Completed"
  /\ \A k \in TaskRecord :
       /\ \A s \in TransferState : TxSet(k, s).state = s
       /\ \A b \in BOOLEAN : TxPausedByNetwork(k, b).state = k.state
       /\ \A p \in Priority : TxPriority(k, p).state = k.state
       /\ TxRetry(k).state = "Queued"
       /\ TxNetworkPause(k).state = "Paused"
       /\ TxNetworkResume(k).state = "Queued"
       /\ TxProgress(k).state \in {k.state, "Transferring"}
       /\ TxRecover(k).state \in {k.state, "Queued"}
       /\ \A t \in Task, n \in 1..ChunkBytes : TxCellular(t, k, n).state \in {k.state, "Paused"}
BY DEF TaskRecord, TxCreate, AbsentTask, TxSet, TxPausedByNetwork, TxPriority, TxRetry,
       TxNetworkPause, TxNetworkResume, TxProgress, TxRecover, TxCellular

\* Storing a record that is not completed completes no task.
LEMMA StoreNotCompleted ==
  ASSUME StoreType, NEW t \in Task,
         NEW k, k.state = "Completed" => tasks[t].state = "Completed",
         tasks' = [tasks EXCEPT ![t] = k]
  PROVE  \A u \in Task : tasks'[u].state = "Completed" => tasks[u].state = "Completed"
BY DEF StoreType

LEMMA RunnerKeepsStored ==
  ASSUME StoredInv, NEW r \in Runner, RunnerStep(r)
  PROVE  KeepsStored
<1>1. CASE RunnerLock(r)
  BY <1>1, TxNotCompleted
     DEF StoredInv, TypeInv, StoreType, RunnerType, FileType, KeepsStored, HasStored,
         TransferState, RunnerLock, Goto, Finish, Continue, files
<1>2. CASE RunnerWait(r)
  BY <1>2, TxNotCompleted
     DEF StoredInv, TypeInv, StoreType, RunnerType, FileType, KeepsStored, HasStored,
         TransferState, RunnerWait, Goto, Raise, Continue, files
<1>3. CASE RunnerPick(r)
  BY <1>3, TxNotCompleted
     DEF StoredInv, TypeInv, StoreType, RunnerType, FileType, KeepsStored, HasStored,
         TransferState, RunnerPick, Goto, files
<1>4. CASE RunnerNetwork(r)
  <2>1. \E t \in Task : \E k \in {TxNetworkPause(tasks[t]), TxNetworkResume(tasks[t])} :
          tasks' = [tasks EXCEPT ![t] = k]
    BY <1>4 DEF StoredInv, TypeInv, OtherType, RunnerNetwork, Stored
  <2>2. \A t \in Task : tasks'[t].state = "Completed" => tasks[t].state = "Completed"
    BY <2>1, TxNotCompleted DEF StoredInv, TypeInv, StoreType, TransferState
  <2>3. \A t \in Task : object[t] # "absent" => object'[t] # "absent"
    BY <1>4 DEF StoredInv, TypeInv, FileType, RunnerNetwork, files
  <2>4. \A q \in Runner : HasStored(q)' =>
          \/ HasStored(q) /\ job'[q] = job[q]
          \/ object'[job'[q]] # "absent"
    BY <1>4
       DEF StoredInv, TypeInv, RunnerType, FileType, HasStored, RunnerNetwork, Goto, files,
           rvars
  <2>5. QED
    BY <2>2, <2>3, <2>4 DEF KeepsStored
<1>5. CASE RunnerNetworkDone(r)
  BY <1>5, TxNotCompleted
     DEF StoredInv, TypeInv, StoreType, RunnerType, FileType, KeepsStored, HasStored,
         TransferState, RunnerNetworkDone, Goto, Finish, files
<1>6. CASE RunnerMarkCheck(r)
  BY <1>6, TxNotCompleted
     DEF StoredInv, TypeInv, StoreType, RunnerType, FileType, KeepsStored, HasStored,
         TransferState, RunnerMarkCheck, Goto, Raise, Continue, files
<1>7. CASE RunnerMark(r)
  BY <1>7, TxNotCompleted
     DEF StoredInv, TypeInv, StoreType, RunnerType, FileType, KeepsStored, HasStored,
         TransferState, RunnerMark, Stored, Goto, Continue, files
<1>8. CASE RunnerFetchWhole(r)
  BY <1>8, TxNotCompleted
     DEF StoredInv, TypeInv, StoreType, RunnerType, FileType, KeepsStored, HasStored,
         TransferState, RunnerFetchWhole, Goto
<1>9. CASE RunnerFetchStream(r)
  BY <1>9, TxNotCompleted
     DEF StoredInv, TypeInv, StoreType, RunnerType, FileType, KeepsStored, HasStored,
         TransferState, RunnerFetchStream, Goto, Raise, Continue
<1>10. CASE RunnerProgress(r)
  BY <1>10, TxNotCompleted
     DEF StoredInv, TypeInv, StoreType, RunnerType, FileType, KeepsStored, HasStored,
         TransferState, RunnerProgress, Stored, Goto, Raise, Continue, files
<1>11. CASE RunnerChunk(r)
  BY <1>11, TxNotCompleted
     DEF StoredInv, TypeInv, StoreType, RunnerType, FileType, KeepsStored, HasStored,
         TransferState, RunnerChunk, Goto, Raise, Continue, files
<1>12. CASE RunnerChunkError(r)
  BY <1>12, TxNotCompleted
     DEF StoredInv, TypeInv, StoreType, RunnerType, FileType, KeepsStored, HasStored,
         TransferState, RunnerChunkError, Goto, Raise
<1>13. CASE RunnerWrite(r)
  BY <1>13, TxNotCompleted
     DEF StoredInv, TypeInv, StoreType, RunnerType, FileType, KeepsStored, HasStored,
         TransferState, RunnerWrite, Goto
<1>14. CASE RunnerMeter(r)
  BY <1>14, TxNotCompleted
     DEF StoredInv, TypeInv, StoreType, RunnerType, FileType, KeepsStored, HasStored,
         TransferState, RunnerMeter, Stored, Goto, Raise, Continue, files
<1>15. CASE RunnerStreamEnd(r)
  BY <1>15, TxNotCompleted
     DEF StoredInv, TypeInv, StoreType, RunnerType, FileType, KeepsStored, HasStored,
         TransferState, RunnerStreamEnd, Goto, Raise, Continue
<1>16. CASE RunnerVerifyCheck(r)
  BY <1>16, TxNotCompleted
     DEF StoredInv, TypeInv, StoreType, RunnerType, FileType, KeepsStored, HasStored,
         TransferState, RunnerVerifyCheck, Goto, Raise, Continue, files
<1>17. CASE RunnerVerify(r)
  BY <1>17, TxNotCompleted
     DEF StoredInv, TypeInv, StoreType, RunnerType, FileType, KeepsStored, HasStored,
         TransferState, RunnerVerify, Stored, Goto, Continue, files
<1>18. CASE RunnerHash(r)
  <2>1. \/ tasks' = tasks
        \/ \E s \in {"Failed", "IntegrityFailed"} :
             tasks' = [tasks EXCEPT ![job[r]] = TxSet(tasks[job[r]], s)]
    BY <1>18 DEF RunnerHash, Fail, Stored
  <2>2. \A t \in Task : tasks'[t].state = "Completed" => tasks[t].state = "Completed"
    <3>1. job[r] \in Task /\ tasks[job[r]] \in TaskRecord /\ StoreType
      BY <1>18 DEF StoredInv, TypeInv, StoreType, RunnerType, RunnerHash
    <3>2. \A s \in {"Failed", "IntegrityFailed"} :
            TxSet(tasks[job[r]], s).state # "Completed"
      BY <3>1, TxNotCompleted DEF TransferState
    <3>3. QED
      BY <2>1, <3>1, <3>2, StoreNotCompleted
  <2>3. \A t \in Task : object[t] # "absent" => object'[t] # "absent"
    BY <1>18 DEF StoredInv, TypeInv, FileType, RunnerHash, files
  <2>4. \A q \in Runner : HasStored(q)' =>
          \/ HasStored(q) /\ job'[q] = job[q]
          \/ object'[job'[q]] # "absent"
    BY <1>18
       DEF StoredInv, TypeInv, RunnerType, FileType, HasStored, RunnerHash, Goto, Raise,
           Continue, files
  <2>5. QED
    BY <2>2, <2>3, <2>4 DEF KeepsStored
<1>19. CASE RunnerPut(r)
  <2>1. \/ tasks' = tasks
        \/ tasks' = [tasks EXCEPT ![job[r]] = TxSet(tasks[job[r]], "Failed")]
    BY <1>19 DEF RunnerPut, Fail, Stored
  <2>2. \A t \in Task : tasks'[t].state = "Completed" => tasks[t].state = "Completed"
    <3>1. job[r] \in Task /\ tasks[job[r]] \in TaskRecord /\ StoreType
      BY <1>19 DEF StoredInv, TypeInv, StoreType, RunnerType, RunnerPut
    <3>2. \A s \in {"Failed", "IntegrityFailed"} :
            TxSet(tasks[job[r]], s).state # "Completed"
      BY <3>1, TxNotCompleted DEF TransferState
    <3>3. QED
      BY <2>1, <3>1, <3>2, StoreNotCompleted
  <2>3. \A t \in Task : object[t] # "absent" => object'[t] # "absent"
    BY <1>19 DEF StoredInv, TypeInv, FileType, RunnerPut, PutObject
  <2>4. \A q \in Runner : HasStored(q)' =>
          \/ HasStored(q) /\ job'[q] = job[q]
          \/ object'[job'[q]] # "absent"
    BY <1>19
       DEF StoredInv, TypeInv, RunnerType, FileType, HasStored, RunnerPut, PutObject, Goto, Raise,
           Continue
  <2>5. QED
    BY <2>2, <2>3, <2>4 DEF KeepsStored
<1>20. CASE RunnerCommitCheck(r)
  BY <1>20, TxNotCompleted
     DEF StoredInv, TypeInv, StoreType, RunnerType, FileType, KeepsStored, HasStored,
         TransferState, RunnerCommitCheck, Goto, Raise, Continue, files
<1>21. CASE RunnerCommit(r)
  BY <1>21, TxNotCompleted
     DEF StoredInv, TypeInv, StoreType, RunnerType, FileType, KeepsStored, HasStored,
         TransferState, RunnerCommit, Stored, Goto, Continue, files
<1>22. CASE RunnerComplete(r)
  BY <1>22, TxNotCompleted
     DEF StoredInv, TypeInv, StoreType, RunnerType, FileType, KeepsStored, HasStored,
         TransferState, RunnerComplete, Stored, Goto, Finish, Continue, files
<1>23. CASE RunnerDestination(r)
  BY <1>23, TxNotCompleted
     DEF StoredInv, TypeInv, StoreType, RunnerType, FileType, KeepsStored, HasStored,
         TransferState, RunnerDestination, Goto, Raise, Continue
<1>24. CASE RunnerDestinationRename(r)
  BY <1>24, TxNotCompleted
     DEF StoredInv, TypeInv, StoreType, RunnerType, FileType, KeepsStored, HasStored,
         TransferState, RunnerDestinationRename, Goto, Finish
<1>25. CASE RunnerErrorCheck(r)
  BY <1>25, TxNotCompleted
     DEF StoredInv, TypeInv, StoreType, RunnerType, FileType, KeepsStored, HasStored,
         TransferState, RunnerErrorCheck, Goto, Finish, Continue, files
<1>26. CASE RunnerFail(r)
  BY <1>26, TxNotCompleted
     DEF StoredInv, TypeInv, StoreType, RunnerType, FileType, KeepsStored, HasStored,
         TransferState, RunnerFail, Fail, Stored, Goto, Finish, files
<1>27. CASE RunnerNetworkFails(r)
  BY <1>27, TxNotCompleted
     DEF StoredInv, TypeInv, StoreType, RunnerType, FileType, KeepsStored, HasStored,
         TransferState, RunnerNetworkFails, Finish, files, Goto
<1>28. CASE RunnerFill(r)
  BY <1>28, TxNotCompleted
     DEF StoredInv, TypeInv, StoreType, RunnerType, FileType, KeepsStored, HasStored,
         TransferState, RunnerFill, Continue, Goto
<1>29. CASE RunnerFetchFails(r)
  BY <1>29, TxNotCompleted
     DEF StoredInv, TypeInv, StoreType, RunnerType, FileType, KeepsStored, HasStored,
         TransferState, RunnerFetchFails, Raise, files, Goto
<1>30. CASE RunnerRecord(r)
  BY <1>30, TxNotCompleted
     DEF StoredInv, TypeInv, StoreType, RunnerType, FileType, KeepsStored, HasStored,
         TransferState, RunnerRecord, Stored, Raise, Continue, files, Goto
<1>31. CASE RunnerDiscard(r)
  BY <1>31, TxNotCompleted
     DEF StoredInv, TypeInv, StoreType, RunnerType, FileType, KeepsStored, HasStored,
         TransferState, RunnerDiscard, Fail, Stored, Finish, files, Goto
<1>32. CASE RunnerStoreFails(r)
  BY <1>32, TxNotCompleted
     DEF StoredInv, TypeInv, StoreType, RunnerType, FileType, KeepsStored, HasStored,
         TransferState, RunnerStoreFails, Raise, files, Goto
<1>33. QED
  BY <1>1, <1>2, <1>3, <1>4, <1>5, <1>6, <1>7, <1>8, <1>9, <1>10, <1>11, <1>12,
     <1>13, <1>14, <1>15, <1>16, <1>17, <1>18, <1>19, <1>20, <1>21, <1>22, <1>23,
     <1>24, <1>25, <1>26, <1>27, <1>28, <1>29, <1>30, <1>31, <1>32
     DEF RunnerStep

LEMMA HandlerKeepsStored ==
  ASSUME StoredInv, HandlerStep
  PROVE  KeepsStored
<1>1. CASE HandlerWrite
  <2>1. h.task \in Task /\ tasks[h.task] \in TaskRecord /\ h.priority \in Priority /\ StoreType
    BY <1>1 DEF StoredInv, TypeInv, StoreType, HandlerType, HandlerWrite
  <2>2. \A t \in Task : tasks'[t].state = "Completed" => tasks[t].state = "Completed"
    <3>1. PICK k \in {TxSet(tasks[h.task], "Paused"), TxSet(tasks[h.task], "Queued"),
                     TxSet(tasks[h.task], "Cancelled"), TxRetry(tasks[h.task]),
                     TxPriority(tasks[h.task], h.priority)} :
            tasks' = [tasks EXCEPT ![h.task] = k]
      BY <1>1 DEF HandlerWrite, Stored
    <3>2. k.state = "Completed" => tasks[h.task].state = "Completed"
      <4>1. \A s \in {"Paused", "Queued", "Cancelled"} :
              TxSet(tasks[h.task], s).state # "Completed"
        BY <2>1, TxNotCompleted DEF TransferState
      <4>2. QED
        BY <2>1, <3>1, <4>1, TxNotCompleted
    <3>3. QED
      BY <2>1, <3>1, <3>2, StoreNotCompleted
  <2>3. UNCHANGED <<object, pc, job>>
    BY <1>1 DEF HandlerWrite, files, runners, rvars
  <2>4. QED
    BY <2>2, <2>3 DEF KeepsStored, HasStored
<1>2. CASE HandlerUnflag
  <2>1. h.task \in Task /\ tasks[h.task] \in TaskRecord /\ h.priority \in Priority /\ StoreType
    BY <1>2 DEF StoredInv, TypeInv, StoreType, HandlerType, HandlerUnflag
  <2>2. \A t \in Task : tasks'[t].state = "Completed" => tasks[t].state = "Completed"
    <3>1. PICK k \in {TxPausedByNetwork(tasks[h.task], FALSE)} :
            tasks' = [tasks EXCEPT ![h.task] = k]
      BY <1>2 DEF HandlerUnflag, Stored
    <3>2. k.state = "Completed" => tasks[h.task].state = "Completed"
      BY <2>1, <3>1 DEF TxPausedByNetwork, TaskRecord
    <3>3. QED
      BY <2>1, <3>1, <3>2, StoreNotCompleted
  <2>3. UNCHANGED <<object, pc, job>>
    BY <1>2 DEF HandlerUnflag, files, runners, rvars
  <2>4. QED
    BY <2>2, <2>3 DEF KeepsStored, HasStored
<1>3. CASE HandlerSlots
  BY <1>3, TxNotCompleted
     DEF StoredInv, TypeInv, StoreType, RunnerType, FileType, HandlerType, KeepsStored,
         HasStored, TransferState, HandlerSlots, files
<1>4. CASE HandlerList
  BY <1>4, TxNotCompleted
     DEF StoredInv, TypeInv, StoreType, RunnerType, FileType, HandlerType, KeepsStored,
         HasStored, TransferState, HandlerList, files, runners, rvars
<1>5. CASE HandlerApply
  <2>1. \E t \in Task : \E k \in {TxNetworkPause(tasks[t]), TxNetworkResume(tasks[t])} :
          tasks' = [tasks EXCEPT ![t] = k]
    BY <1>5 DEF StoredInv, TypeInv, HandlerType, HandlerApply, Stored
  <2>2. \A t \in Task : tasks'[t].state = "Completed" => tasks[t].state = "Completed"
    BY <2>1, TxNotCompleted DEF StoredInv, TypeInv, StoreType
  <2>3. UNCHANGED <<object, pc, job>>
    BY <1>5 DEF HandlerApply, files, runners, rvars
  <2>4. QED
    BY <2>2, <2>3 DEF KeepsStored, HasStored
<1>6. CASE HandlerApplied
  BY <1>6, TxNotCompleted
     DEF StoredInv, TypeInv, StoreType, RunnerType, FileType, HandlerType, KeepsStored,
         HasStored, TransferState, HandlerApplied, files, runners, rvars
<1>7. CASE HandlerSpawnResumed
  BY <1>7, TxNotCompleted
     DEF StoredInv, TypeInv, StoreType, RunnerType, FileType, HandlerType, KeepsStored,
         HasStored, TransferState, HandlerSpawnResumed, files, rvars, Spawn, Goto
<1>8. CASE HandlerGet
  BY <1>8, TxNotCompleted
     DEF StoredInv, TypeInv, StoreType, RunnerType, FileType, HandlerType, KeepsStored,
         HasStored, TransferState, HandlerGet, files, runners, rvars
<1>9. CASE HandlerSpawn
  BY <1>9, TxNotCompleted
     DEF StoredInv, TypeInv, StoreType, RunnerType, FileType, HandlerType, KeepsStored,
         HasStored, TransferState, HandlerSpawn, files, Spawn, Goto
<1>10. CASE HandlerStoreFails
  BY <1>10
     DEF StoredInv, TypeInv, StoreType, RunnerType, FileType, KeepsStored, HasStored,
         HandlerStoreFails, files, runners, rvars
<1>11. QED
  BY <1>1, <1>2, <1>3, <1>4, <1>5, <1>6, <1>7, <1>8, <1>9, <1>10 DEF HandlerStep

LEMMA ClientKeepsStored ==
  ASSUME StoredInv, ClientRequest
  PROVE  KeepsStored
<1>1. ASSUME NEW t \in Task, NEW p \in Priority, CreateTransfer(t, p) PROVE KeepsStored
  BY <1>1, TxNotCompleted
     DEF StoredInv, TypeInv, StoreType, RunnerType, FileType, KeepsStored, HasStored,
         CreateTransfer, Request, Stored, files, runners, rvars
<1>2. ASSUME NEW t \in Task, AssistPin(t) PROVE KeepsStored
  BY <1>2, TxNotCompleted, TaskAssumption
     DEF StoredInv, TypeInv, StoreType, RunnerType, FileType, KeepsStored, HasStored,
         AssistPin, Request, Stored, files, runners, rvars
<1>3. ASSUME NEW op \in Operations \ {"create", "assist_pin", "config"},
             NEW t \in Task, NEW p \in Priority, ControlTransfer(op, t, p)
      PROVE  KeepsStored
  BY <1>3
     DEF StoredInv, TypeInv, StoreType, RunnerType, FileType, KeepsStored, HasStored,
         ControlTransfer, Request, files, runners, rvars
<1>4. ASSUME NEW c \in Config, SetNodeConfig(c) PROVE KeepsStored
  BY <1>4
     DEF StoredInv, TypeInv, StoreType, RunnerType, FileType, KeepsStored, HasStored,
         SetNodeConfig, Request, files, runners, rvars
<1>5. QED
  BY <1>1, <1>2, <1>3, <1>4 DEF ClientRequest

LEMMA StoredStep ==
  ASSUME StoredInv, [Next]_vars
  PROVE  StoredInv'
<1>1. CASE UNCHANGED vars
  BY <1>1, TypeStep DEF StoredInv, CompletedIsStored, HasStored, vars, rvars, files
<1>2. CASE Next
  <2>1. KeepsStored
    <3>1. ASSUME NEW t \in Task, SweepJudge(t) \/ SweepRemove(t) PROVE KeepsStored
      BY <3>1 DEF KeepsStored, HasStored, SweepJudge, SweepRemove, runners, rvars
    <3>2. CASE Restart
      <4>1. \A r \in Runner : pc'[r] \in {"idle", "sched"}
        BY <3>2 DEF Restart
      <4>2. QED
        BY <3>2, <4>1, TxNotCompleted
           DEF StoredInv, TypeInv, StoreType, KeepsStored, HasStored, Restart
    <3>3. QED
      BY <1>2, <3>1, <3>2, RunnerKeepsStored, HandlerKeepsStored, ClientKeepsStored DEF Next
  <2>2. TypeInv'
    BY TypeStep DEF StoredInv
  <2>3. QED
    BY <2>1, <2>2
       DEF KeepsStored, StoredInv, CompletedIsStored, TypeInv, RunnerType, HasStored
<1>3. QED
  BY <1>1, <1>2

\* DST-008 for every number of tasks and runners, every schedule and every
\* crash: a task that reads completed has its object in the repository.
THEOREM CompletedStored == Spec => []CompletedIsStored
<1>1. Init => StoredInv
  BY TypeInit DEF Init, StoredInv, CompletedIsStored, HasStored, AbsentTask
<1>2. StoredInv /\ [Next]_vars => StoredInv'
  BY StoredStep
<1>3. StoredInv => CompletedIsStored
  BY DEF StoredInv
<1>4. QED
  BY <1>1, <1>2, <1>3, PTL DEF Spec

-----------------------------------------------------------------------------
(* The scheduler lock: whoever decides holds it. *)

SchedulerInv ==
  /\ TypeInv
  /\ \A r \in Runner : Deciding(r) <=> scheduler = r

\* A runner step that takes or drops the lock enters or leaves the decision.
LEMMA RunnerScheduler ==
  ASSUME SchedulerInv, NEW r \in Runner, RunnerStep(r)
  PROVE  \A q \in Runner : Deciding(q)' <=> scheduler' = q
<1>1. CASE RunnerLock(r)
  BY <1>1, SystemAssumption
     DEF SchedulerInv, TypeInv, RunnerType, OtherType, Deciding, RunnerLock, Goto, Finish,
         Continue
<1>2. CASE RunnerWait(r)
  BY <1>2, SystemAssumption
     DEF SchedulerInv, TypeInv, RunnerType, OtherType, Deciding, RunnerWait, Goto, Raise,
         Continue
<1>3. CASE RunnerPick(r)
  BY <1>3, SystemAssumption
     DEF SchedulerInv, TypeInv, RunnerType, OtherType, Deciding, RunnerPick, Goto
<1>4. CASE RunnerNetwork(r)
  BY <1>4, SystemAssumption
     DEF SchedulerInv, TypeInv, RunnerType, OtherType, Deciding, RunnerNetwork, rvars
<1>5. CASE RunnerNetworkDone(r)
  BY <1>5, SystemAssumption
     DEF SchedulerInv, TypeInv, RunnerType, OtherType, Deciding, RunnerNetworkDone, Goto,
         Finish
<1>6. CASE RunnerMarkCheck(r)
  BY <1>6, SystemAssumption
     DEF SchedulerInv, TypeInv, RunnerType, OtherType, Deciding, RunnerMarkCheck, Goto,
         Raise, Continue
<1>7. CASE RunnerMark(r)
  BY <1>7, SystemAssumption
     DEF SchedulerInv, TypeInv, RunnerType, OtherType, Deciding, RunnerMark, Goto, Continue
<1>8. CASE RunnerFetchWhole(r)
  BY <1>8, SystemAssumption
     DEF SchedulerInv, TypeInv, RunnerType, OtherType, Deciding, RunnerFetchWhole, Goto
<1>9. CASE RunnerFetchStream(r)
  BY <1>9, SystemAssumption
     DEF SchedulerInv, TypeInv, RunnerType, OtherType, Deciding, RunnerFetchStream, Goto,
         Raise, Continue
<1>10. CASE RunnerProgress(r)
  BY <1>10, SystemAssumption
     DEF SchedulerInv, TypeInv, RunnerType, OtherType, Deciding, RunnerProgress, Goto,
         Raise, Continue
<1>11. CASE RunnerChunk(r)
  BY <1>11, SystemAssumption
     DEF SchedulerInv, TypeInv, RunnerType, OtherType, Deciding, RunnerChunk, Goto, Raise,
         Continue
<1>12. CASE RunnerChunkError(r)
  BY <1>12, SystemAssumption
     DEF SchedulerInv, TypeInv, RunnerType, OtherType, Deciding, RunnerChunkError, Goto,
         Raise
<1>13. CASE RunnerWrite(r)
  BY <1>13, SystemAssumption
     DEF SchedulerInv, TypeInv, RunnerType, OtherType, Deciding, RunnerWrite, Goto
<1>14. CASE RunnerMeter(r)
  BY <1>14, SystemAssumption
     DEF SchedulerInv, TypeInv, RunnerType, OtherType, Deciding, RunnerMeter, Goto, Raise,
         Continue
<1>15. CASE RunnerStreamEnd(r)
  BY <1>15, SystemAssumption
     DEF SchedulerInv, TypeInv, RunnerType, OtherType, Deciding, RunnerStreamEnd, Goto,
         Raise, Continue
<1>16. CASE RunnerVerifyCheck(r)
  BY <1>16, SystemAssumption
     DEF SchedulerInv, TypeInv, RunnerType, OtherType, Deciding, RunnerVerifyCheck, Goto,
         Raise, Continue
<1>17. CASE RunnerVerify(r)
  BY <1>17, SystemAssumption
     DEF SchedulerInv, TypeInv, RunnerType, OtherType, Deciding, RunnerVerify, Goto,
         Continue
<1>18. CASE RunnerHash(r)
  BY <1>18, SystemAssumption
     DEF SchedulerInv, TypeInv, RunnerType, OtherType, Deciding, RunnerHash, Goto, Raise,
         Continue
<1>19. CASE RunnerPut(r)
  BY <1>19, SystemAssumption
     DEF SchedulerInv, TypeInv, RunnerType, OtherType, Deciding, RunnerPut, Goto, Raise,
         Continue
<1>20. CASE RunnerCommitCheck(r)
  BY <1>20, SystemAssumption
     DEF SchedulerInv, TypeInv, RunnerType, OtherType, Deciding, RunnerCommitCheck, Goto,
         Raise, Continue
<1>21. CASE RunnerCommit(r)
  BY <1>21, SystemAssumption
     DEF SchedulerInv, TypeInv, RunnerType, OtherType, Deciding, RunnerCommit, Goto,
         Continue
<1>22. CASE RunnerComplete(r)
  BY <1>22, SystemAssumption
     DEF SchedulerInv, TypeInv, RunnerType, OtherType, Deciding, RunnerComplete, Goto,
         Finish, Continue
<1>23. CASE RunnerDestination(r)
  BY <1>23, SystemAssumption
     DEF SchedulerInv, TypeInv, RunnerType, OtherType, Deciding, RunnerDestination, Goto,
         Raise, Continue
<1>24. CASE RunnerDestinationRename(r)
  BY <1>24, SystemAssumption
     DEF SchedulerInv, TypeInv, RunnerType, OtherType, Deciding, RunnerDestinationRename,
         Goto, Finish
<1>25. CASE RunnerErrorCheck(r)
  BY <1>25, SystemAssumption
     DEF SchedulerInv, TypeInv, RunnerType, OtherType, Deciding, RunnerErrorCheck, Goto,
         Finish, Continue
<1>26. CASE RunnerFail(r)
  BY <1>26, SystemAssumption
     DEF SchedulerInv, TypeInv, RunnerType, OtherType, Deciding, RunnerFail, Goto, Finish
<1>27. CASE RunnerNetworkFails(r)
  BY <1>27, SystemAssumption
     DEF SchedulerInv, TypeInv, RunnerType, OtherType, Deciding, RunnerNetworkFails,
         Finish, Goto
<1>28. CASE RunnerFill(r)
  BY <1>28, SystemAssumption
     DEF SchedulerInv, TypeInv, RunnerType, OtherType, Deciding, RunnerFill, Continue,
         Goto
<1>29. CASE RunnerFetchFails(r)
  BY <1>29, SystemAssumption
     DEF SchedulerInv, TypeInv, RunnerType, OtherType, Deciding, RunnerFetchFails,
         Raise, Goto
<1>30. CASE RunnerRecord(r)
  BY <1>30, SystemAssumption
     DEF SchedulerInv, TypeInv, RunnerType, OtherType, Deciding, RunnerRecord, Raise,
         Continue, Goto
<1>31. CASE RunnerDiscard(r)
  BY <1>31, SystemAssumption
     DEF SchedulerInv, TypeInv, RunnerType, OtherType, Deciding, RunnerDiscard, Finish,
         Goto
<1>32. CASE RunnerStoreFails(r)
  BY <1>32, SystemAssumption
     DEF SchedulerInv, TypeInv, RunnerType, OtherType, Deciding, RunnerStoreFails,
         Raise, Goto
<1>33. QED
  BY <1>1, <1>2, <1>3, <1>4, <1>5, <1>6, <1>7, <1>8, <1>9, <1>10, <1>11, <1>12,
     <1>13, <1>14, <1>15, <1>16, <1>17, <1>18, <1>19, <1>20, <1>21, <1>22, <1>23,
     <1>24, <1>25, <1>26, <1>27, <1>28, <1>29, <1>30, <1>31, <1>32
     DEF RunnerStep

LEMMA SchedulerStep ==
  ASSUME SchedulerInv, [Next]_vars
  PROVE  SchedulerInv'
<1>1. TypeInv'
  BY TypeStep DEF SchedulerInv
<1>2. CASE UNCHANGED <<pc, scheduler>>
  BY <1>1, <1>2 DEF SchedulerInv, Deciding
<1>3. ASSUME NEW r \in Runner, RunnerStep(r) PROVE SchedulerInv'
  BY <1>1, <1>3, RunnerScheduler DEF SchedulerInv
<1>4. ASSUME NEW r \in Runner, NEW t \in Task, Spawn(r, t), UNCHANGED scheduler
      PROVE  SchedulerInv'
  BY <1>1, <1>4 DEF SchedulerInv, Deciding, Spawn, Goto, TypeInv, RunnerType
<1>5. CASE HandlerStep
  <2>1. \/ UNCHANGED <<pc, scheduler>>
        \/ \E r \in Runner, t \in Task : Spawn(r, t) /\ UNCHANGED scheduler
    <3>1. CASE HandlerSpawnResumed
      BY <3>1 DEF HandlerSpawnResumed, rvars, SchedulerInv, TypeInv, HandlerType
    <3>2. CASE HandlerSpawn
      BY <3>2 DEF HandlerSpawn, SchedulerInv, TypeInv, HandlerType
    <3>3. CASE ~HandlerSpawnResumed /\ ~HandlerSpawn
      BY <1>5, <3>3 DEF HandlerStep, HandlerWrite, HandlerUnflag, HandlerSlots, HandlerList,
         HandlerApply, HandlerApplied, HandlerGet, HandlerStoreFails, runners, rvars
    <3>4. QED
      BY <3>1, <3>2, <3>3
  <2>2. QED
    BY <1>2, <1>4, <2>1
<1>6. CASE ClientRequest
  BY <1>2, <1>6
     DEF ClientRequest, CreateTransfer, AssistPin, ControlTransfer, SetNodeConfig,
     Request, runners, rvars
<1>7. ASSUME NEW t \in Task, SweepJudge(t) \/ SweepRemove(t) PROVE SchedulerInv'
  BY <1>2, <1>7 DEF SweepJudge, SweepRemove, runners, rvars
<1>8. CASE Restart
  <2>1. \A r \in Runner : pc'[r] \in {"idle", "sched"}
    BY <1>8 DEF Restart
  <2>2. \A r \in Runner : ~Deciding(r)' /\ scheduler' # r
    BY <1>8, <2>1, SystemAssumption DEF Restart, Deciding
  <2>3. QED
    BY <1>1, <2>2 DEF SchedulerInv
<1>9. QED
  BY <1>2, <1>3, <1>5, <1>6, <1>7, <1>8 DEF Next, vars, rvars

LEMMA SchedulerInvariance == Spec => []SchedulerInv
<1>1. Init => SchedulerInv
  BY TypeInit, SystemAssumption DEF Init, SchedulerInv, Deciding
<1>2. QED
  BY <1>1, SchedulerStep, PTL DEF Spec

\* run() picks and marks under transfer_scheduler: at most one runner is
\* between the two, whatever is spawned, replayed or restarted.
THEOREM OneDecides == Spec => []SchedulerExclusive
<1>1. SchedulerInv => SchedulerExclusive
  BY DEF SchedulerInv, SchedulerExclusive
<1>2. QED
  BY <1>1, SchedulerInvariance, PTL

-----------------------------------------------------------------------------
(* The slots.  A runner takes a permit only while it has none.               *)

Current == {r \in Runner : permit[r] = "current"}

SlotsInv ==
  /\ TypeInv
  /\ SlotsConserved
  /\ \A r \in Runner :
       pc[r] \in {"idle", "sched", "pick", "error", "fail_write"} => permit[r] = "none"

\* What a step of a runner does to the permits.
TakesPermit(r) ==
  /\ permit[r] = "none" /\ slotFree > 0
  /\ permit' = [permit EXCEPT ![r] = "current"]
  /\ slotFree' = slotFree - 1

LEMMA RunnerPermits ==
  ASSUME SlotsInv, NEW r \in Runner, RunnerStep(r)
  PROVE  /\ UNCHANGED <<permit, slotFree>> \/ ReleasePermit(r) \/ TakesPermit(r)
         /\ \A q \in Runner :
              pc'[q] \in {"idle", "sched", "pick", "error", "fail_write"} => permit'[q] = "none"
         /\ UNCHANGED <<cfg, h>>
<1>1. CASE RunnerLock(r)
  BY <1>1
     DEF SlotsInv, TypeInv, RunnerType, TakesPermit, ReleasePermit, outside, RunnerLock,
         Goto, Finish, Continue
<1>2. CASE RunnerWait(r)
  BY <1>2
     DEF SlotsInv, TypeInv, RunnerType, TakesPermit, ReleasePermit, outside, RunnerWait,
         Goto, Raise, Continue
<1>3. CASE RunnerPick(r)
  BY <1>3
     DEF SlotsInv, TypeInv, RunnerType, TakesPermit, ReleasePermit, outside, RunnerPick,
         Goto
<1>4. CASE RunnerNetwork(r)
  BY <1>4
     DEF SlotsInv, TypeInv, RunnerType, TakesPermit, ReleasePermit, outside, RunnerNetwork,
         rvars
<1>5. CASE RunnerNetworkDone(r)
  BY <1>5
     DEF SlotsInv, TypeInv, RunnerType, TakesPermit, ReleasePermit, outside,
         RunnerNetworkDone, Goto, Finish
<1>6. CASE RunnerMarkCheck(r)
  BY <1>6
     DEF SlotsInv, TypeInv, RunnerType, TakesPermit, ReleasePermit, outside,
         RunnerMarkCheck, Goto, Raise, Continue
<1>7. CASE RunnerMark(r)
  BY <1>7
     DEF SlotsInv, TypeInv, RunnerType, TakesPermit, ReleasePermit, outside, RunnerMark,
         Goto, Continue
<1>8. CASE RunnerFetchWhole(r)
  BY <1>8
     DEF SlotsInv, TypeInv, RunnerType, TakesPermit, ReleasePermit, outside,
         RunnerFetchWhole, Goto
<1>9. CASE RunnerFetchStream(r)
  BY <1>9
     DEF SlotsInv, TypeInv, RunnerType, TakesPermit, ReleasePermit, outside,
         RunnerFetchStream, Goto, Raise, Continue
<1>10. CASE RunnerProgress(r)
  BY <1>10
     DEF SlotsInv, TypeInv, RunnerType, TakesPermit, ReleasePermit, outside,
         RunnerProgress, Goto, Raise, Continue
<1>11. CASE RunnerChunk(r)
  BY <1>11
     DEF SlotsInv, TypeInv, RunnerType, TakesPermit, ReleasePermit, outside, RunnerChunk,
         Goto, Raise, Continue
<1>12. CASE RunnerChunkError(r)
  BY <1>12
     DEF SlotsInv, TypeInv, RunnerType, TakesPermit, ReleasePermit, outside,
         RunnerChunkError, Goto, Raise
<1>13. CASE RunnerWrite(r)
  BY <1>13
     DEF SlotsInv, TypeInv, RunnerType, TakesPermit, ReleasePermit, outside, RunnerWrite,
         Goto
<1>14. CASE RunnerMeter(r)
  BY <1>14
     DEF SlotsInv, TypeInv, RunnerType, TakesPermit, ReleasePermit, outside, RunnerMeter,
         Goto, Raise, Continue
<1>15. CASE RunnerStreamEnd(r)
  BY <1>15
     DEF SlotsInv, TypeInv, RunnerType, TakesPermit, ReleasePermit, outside,
         RunnerStreamEnd, Goto, Raise, Continue
<1>16. CASE RunnerVerifyCheck(r)
  BY <1>16
     DEF SlotsInv, TypeInv, RunnerType, TakesPermit, ReleasePermit, outside,
         RunnerVerifyCheck, Goto, Raise, Continue
<1>17. CASE RunnerVerify(r)
  BY <1>17
     DEF SlotsInv, TypeInv, RunnerType, TakesPermit, ReleasePermit, outside, RunnerVerify,
         Goto, Continue
<1>18. CASE RunnerHash(r)
  BY <1>18
     DEF SlotsInv, TypeInv, RunnerType, TakesPermit, ReleasePermit, outside, RunnerHash,
         Goto, Raise, Continue
<1>19. CASE RunnerPut(r)
  BY <1>19
     DEF SlotsInv, TypeInv, RunnerType, TakesPermit, ReleasePermit, outside, RunnerPut,
         Goto, Raise, Continue
<1>20. CASE RunnerCommitCheck(r)
  BY <1>20
     DEF SlotsInv, TypeInv, RunnerType, TakesPermit, ReleasePermit, outside,
         RunnerCommitCheck, Goto, Raise, Continue
<1>21. CASE RunnerCommit(r)
  BY <1>21
     DEF SlotsInv, TypeInv, RunnerType, TakesPermit, ReleasePermit, outside, RunnerCommit,
         Goto, Continue
<1>22. CASE RunnerComplete(r)
  BY <1>22
     DEF SlotsInv, TypeInv, RunnerType, TakesPermit, ReleasePermit, outside,
         RunnerComplete, Goto, Finish, Continue
<1>23. CASE RunnerDestination(r)
  BY <1>23
     DEF SlotsInv, TypeInv, RunnerType, TakesPermit, ReleasePermit, outside,
         RunnerDestination, Goto, Raise, Continue
<1>24. CASE RunnerDestinationRename(r)
  BY <1>24
     DEF SlotsInv, TypeInv, RunnerType, TakesPermit, ReleasePermit, outside,
         RunnerDestinationRename, Goto, Finish
<1>25. CASE RunnerErrorCheck(r)
  BY <1>25
     DEF SlotsInv, TypeInv, RunnerType, TakesPermit, ReleasePermit, outside,
         RunnerErrorCheck, Goto, Finish, Continue
<1>26. CASE RunnerFail(r)
  BY <1>26
     DEF SlotsInv, TypeInv, RunnerType, TakesPermit, ReleasePermit, outside, RunnerFail,
         Goto, Finish
<1>27. CASE RunnerNetworkFails(r)
  BY <1>27
     DEF SlotsInv, TypeInv, RunnerType, TakesPermit, outside, RunnerNetworkFails,
         Finish, ReleasePermit, Goto
<1>28. CASE RunnerFill(r)
  BY <1>28
     DEF SlotsInv, TypeInv, RunnerType, TakesPermit, outside, RunnerFill, Continue, Goto
<1>29. CASE RunnerFetchFails(r)
  BY <1>29
     DEF SlotsInv, TypeInv, RunnerType, TakesPermit, outside, RunnerFetchFails, Raise,
         ReleasePermit, Goto
<1>30. CASE RunnerRecord(r)
  BY <1>30
     DEF SlotsInv, TypeInv, RunnerType, TakesPermit, outside, RunnerRecord, Raise,
         Continue, ReleasePermit, Goto
<1>31. CASE RunnerDiscard(r)
  BY <1>31
     DEF SlotsInv, TypeInv, RunnerType, TakesPermit, outside, RunnerDiscard, Finish,
         ReleasePermit, Goto
<1>32. CASE RunnerStoreFails(r)
  BY <1>32
     DEF SlotsInv, TypeInv, RunnerType, TakesPermit, outside, RunnerStoreFails, Raise,
         ReleasePermit, Goto
<1>33. QED
  BY <1>1, <1>2, <1>3, <1>4, <1>5, <1>6, <1>7, <1>8, <1>9, <1>10, <1>11, <1>12,
     <1>13, <1>14, <1>15, <1>16, <1>17, <1>18, <1>19, <1>20, <1>21, <1>22, <1>23,
     <1>24, <1>25, <1>26, <1>27, <1>28, <1>29, <1>30, <1>31, <1>32
     DEF RunnerStep

LEMMA PermitsCounted ==
  ASSUME SlotsInv, NEW r \in Runner,
         UNCHANGED <<permit, slotFree>> \/ ReleasePermit(r) \/ TakesPermit(r)
  PROVE  slotFree' + Cardinality(Current') = slotFree + Cardinality(Current)
<1>1. IsFiniteSet(Current)
  BY SystemAssumption, FS_Subset DEF Current
<1>2. CASE UNCHANGED <<permit, slotFree>>
  BY <1>2 DEF Current
<1>3. CASE ReleasePermit(r) /\ permit[r] = "current"
  <2>1. Current' = Current \ {r} /\ r \in Current
    BY <1>3 DEF Current, ReleasePermit, SlotsInv, TypeInv, RunnerType
  <2>2. Cardinality(Current') = Cardinality(Current) - 1 /\ Cardinality(Current) \in Nat
    BY <1>1, <2>1, FS_RemoveElement, FS_CardinalityType
  <2>3. QED
    BY <1>3, <2>2 DEF ReleasePermit, SlotsInv, TypeInv, RunnerType
<1>4. CASE ReleasePermit(r) /\ permit[r] # "current"
  <2>1. Current' = Current /\ slotFree' = slotFree
    BY <1>4 DEF Current, ReleasePermit, SlotsInv, TypeInv, RunnerType
  <2>2. QED
    BY <2>1
<1>5. CASE TakesPermit(r)
  <2>1. Current' = Current \cup {r} /\ r \notin Current
    BY <1>5 DEF Current, TakesPermit, SlotsInv, TypeInv, RunnerType
  <2>2. Cardinality(Current') = Cardinality(Current) + 1 /\ Cardinality(Current) \in Nat
    BY <1>1, <2>1, FS_AddElement, FS_CardinalityType
  <2>3. QED
    BY <1>5, <2>2 DEF TakesPermit, SlotsInv, TypeInv, RunnerType
<1>6. QED
  BY <1>2, <1>3, <1>4, <1>5

LEMMA SlotsStep ==
  ASSUME SlotsInv, [Next]_vars
  PROVE  SlotsInv'
<1>1. TypeInv'
  BY TypeStep DEF SlotsInv
<1>2. CASE UNCHANGED <<permit, slotFree, pc, cfg>> /\ h'.pc # "slots" /\ h.pc # "slots"
  BY <1>1, <1>2 DEF SlotsInv, SlotsConserved, Current
<1>3. ASSUME NEW r \in Runner, RunnerStep(r) PROVE SlotsInv'
  BY <1>1, <1>3, RunnerPermits, PermitsCounted DEF SlotsInv, SlotsConserved, Current
<1>4. CASE UNCHANGED vars
  BY <1>1, <1>4 DEF SlotsInv, SlotsConserved, Current, vars, rvars
<1>5. CASE HandlerSlots
  <2>1. Current' = {} /\ slotFree' = cfg'.max /\ cfg'.max \in Nat
    BY <1>5, SystemAssumption
       DEF HandlerSlots, Current, SlotsInv, TypeInv, RunnerType, OtherType
  <2>2. slotFree' + Cardinality(Current') = cfg'.max
    BY <2>1, FS_EmptySet
  <2>3. QED
    BY <1>1, <1>5, <2>2
       DEF HandlerSlots, SlotsInv, SlotsConserved, Current, TypeInv, RunnerType
<1>6. CASE Restart
  <2>1. Current' = {} /\ slotFree' = cfg'.max /\ cfg'.max \in Nat
    BY <1>6, SystemAssumption DEF Restart, Current, SlotsInv, TypeInv, OtherType
  <2>2. slotFree' + Cardinality(Current') = cfg'.max
    BY <2>1, FS_EmptySet
  <2>3. QED
    BY <1>1, <1>6, <2>2 DEF Restart, SlotsInv, SlotsConserved, Current
<1>7. ASSUME NEW r \in Runner, NEW t \in Task, Spawn(r, t), UNCHANGED cfg,
             h.pc # "slots"
      PROVE  SlotsInv'
  BY <1>1, <1>7 DEF SlotsInv, SlotsConserved, Spawn, Goto, TypeInv, RunnerType
<1>8. CASE HandlerStep /\ ~HandlerSlots
  <2>1. CASE HandlerSpawnResumed
    BY <1>2, <1>7, <2>1 DEF HandlerSpawnResumed, HandlerAt, HandlerDone, IdleHandler, rvars,
       SlotsInv, TypeInv, HandlerType
  <2>2. CASE HandlerSpawn
    BY <1>7, <2>2 DEF HandlerSpawn, SlotsInv, TypeInv, HandlerType
  <2>3. CASE HandlerWrite
    BY <1>2, <2>3 DEF HandlerWrite, HandlerAt, HandlerDone, IdleHandler, runners, rvars,
       SlotsInv, TypeInv, HandlerType
  <2>4. CASE HandlerUnflag
    BY <1>2, <2>4 DEF HandlerUnflag, HandlerAt, HandlerDone, IdleHandler, runners, rvars,
       SlotsInv, TypeInv, HandlerType
  <2>5. CASE HandlerList
    BY <1>2, <2>5 DEF HandlerList, runners, rvars, SlotsInv, TypeInv, HandlerType
  <2>6. CASE HandlerApply
    BY <1>2, <2>6 DEF HandlerApply, runners, rvars, SlotsInv, TypeInv, HandlerType
  <2>7. CASE HandlerApplied
    BY <1>2, <2>7
       DEF HandlerApplied, HandlerAt, runners, rvars, SlotsInv, TypeInv, HandlerType
  <2>8. CASE HandlerGet
    BY <1>2, <2>8
       DEF HandlerGet, HandlerAt, HandlerDone, IdleHandler, runners, rvars, SlotsInv,
           TypeInv, HandlerType
  <2>9. CASE HandlerStoreFails
    BY <1>2, <2>9
       DEF HandlerStoreFails, HandlerDone, IdleHandler, runners, rvars, SlotsInv, TypeInv,
           HandlerType
  <2>10. QED
    BY <1>8, <2>1, <2>2, <2>3, <2>4, <2>5, <2>6, <2>7, <2>8, <2>9 DEF HandlerStep
<1>9. CASE ClientRequest
  <2>1. ASSUME NEW c \in Config, SetNodeConfig(c) PROVE SlotsInv'
    BY <1>1, <2>1
       DEF SetNodeConfig, Request, runners, rvars, SlotsInv, SlotsConserved, TypeInv,
       HandlerType
  <2>2. CASE ~\E c \in Config : SetNodeConfig(c)
    <3>1. UNCHANGED <<runners, cfg>> /\ h'.pc # "slots" /\ h.pc # "slots"
      BY <1>9, <2>2, RequestChanges DEF SlotsInv, TypeInv
    <3>2. QED
      BY <1>2, <3>1 DEF runners, rvars, SlotsInv
  <2>3. QED
    BY <2>1, <2>2
<1>10. ASSUME NEW t \in Task, SweepJudge(t) \/ SweepRemove(t) PROVE SlotsInv'
  BY <1>1, <1>10 DEF SweepJudge, SweepRemove, runners, rvars, SlotsInv, SlotsConserved
<1>11. QED
  BY <1>3, <1>4, <1>5, <1>6, <1>8, <1>9, <1>10 DEF Next

LEMMA SlotsInit == Init => SlotsInv
<1> SUFFICES ASSUME Init PROVE SlotsInv
  OBVIOUS
<1>1. Current = {} /\ slotFree = cfg.max /\ cfg.max \in Nat
  BY SystemAssumption DEF Init, Current
<1>2. slotFree + Cardinality(Current) = cfg.max
  BY <1>1, FS_EmptySet
<1>3. QED
  BY <1>2, TypeInit DEF Init, SlotsInv, SlotsConserved, Current

LEMMA SlotsInvariance == Spec => []SlotsInv
BY SlotsInit, SlotsStep, PTL DEF Spec

\* No path through run(), no restart and no change of configuration loses a
\* permit of transfer_slots or returns one twice.
THEOREM PermitsConserved == Spec => []SlotsConserved
<1>1. SlotsInv => SlotsConserved
  BY DEF SlotsInv
<1>2. QED
  BY <1>1, SlotsInvariance, PTL

-----------------------------------------------------------------------------
(* Bounded concurrency.  It holds as long as nobody changes the              *)
(* configuration: set_node_config puts a new semaphore beside the permits of  *)
(* the old one.                                                              *)

FixedInv ==
  /\ SlotsInv
  /\ h.pc # "slots"
  /\ \A r \in Runner : permit[r] # "replaced"

LEMMA FixedStep ==
  ASSUME Config = {}, FixedInv, [Next]_vars
  PROVE  FixedInv'
<1>1. SlotsInv'
  BY SlotsStep DEF FixedInv
<1>2. h'.pc # "slots" /\ \A r \in Runner : permit'[r] # "replaced"
  <2>1. CASE UNCHANGED vars
    BY <2>1 DEF FixedInv, vars, rvars
  <2>2. ASSUME NEW r \in Runner, RunnerStep(r) PROVE <1>2
    BY <2>2, RunnerPermits
       DEF FixedInv, SlotsInv, TypeInv, RunnerType, ReleasePermit, TakesPermit
  <2>3. CASE HandlerStep
    <3>1. permit' = permit
      <4>1. ~HandlerSlots
        BY DEF FixedInv, HandlerSlots
      <4>2. QED
        BY <2>3, <4>1
           DEF HandlerStep, HandlerWrite, HandlerUnflag, HandlerList, HandlerApply,
           HandlerApplied, HandlerSpawnResumed, HandlerGet, HandlerSpawn, HandlerStoreFails,
           Spawn, runners, rvars
    <3>2. h'.pc # "slots"
      <4>1. h \in [pc : HandlerPc, op : Operations \cup {"none"}, task : Task \cup {None},
                  priority : Priority,
                  apply : [pause : SUBSET Task, resume : SUBSET Task],
                  resumed : SUBSET Task]
        BY DEF FixedInv, SlotsInv, TypeInv, HandlerType
      <4>2. ASSUME NEW label, HandlerAt(label), label # "slots" PROVE h'.pc # "slots"
        BY <4>1, <4>2 DEF HandlerAt
      <4>3. ASSUME HandlerDone PROVE h'.pc # "slots"
        BY <4>3 DEF HandlerDone, IdleHandler
      <4>4. CASE HandlerApply
        BY <4>1, <4>4 DEF HandlerApply
      <4>5. CASE HandlerList
        BY <4>1, <4>5 DEF HandlerList
      <4>6. CASE HandlerSpawnResumed
        BY <4>1, <4>2, <4>3, <4>6 DEF HandlerSpawnResumed, FixedInv
      <4>7. CASE ~(HandlerApply \/ HandlerList \/ HandlerSpawnResumed \/ HandlerSlots)
        BY <2>3, <4>2, <4>3, <4>7 DEF HandlerStep, HandlerWrite, HandlerUnflag,
           HandlerApplied, HandlerGet, HandlerSpawn, HandlerStoreFails
      <4>8. QED
        BY <4>4, <4>5, <4>6, <4>7 DEF FixedInv, HandlerSlots
    <3>3. QED
      BY <3>1, <3>2 DEF FixedInv
  <2>4. CASE ClientRequest
    <3>1. UNCHANGED permit /\ h'.pc # "slots"
      BY <2>4, RequestChanges DEF FixedInv, SlotsInv, TypeInv, runners, rvars
    <3>2. QED
      BY <3>1 DEF FixedInv
  <2>5. ASSUME NEW t \in Task, SweepJudge(t) \/ SweepRemove(t) PROVE <1>2
    BY <2>5 DEF FixedInv, SweepJudge, SweepRemove, runners, rvars
  <2>6. CASE Restart
    BY <2>6 DEF Restart, IdleHandler
  <2>7. QED
    BY <2>1, <2>2, <2>3, <2>4, <2>5, <2>6 DEF Next
<1>3. QED
  BY <1>1, <1>2 DEF FixedInv

\* DST-010: as long as the configuration stays, no more runners than
\* max_concurrent_transfers hold a permit, paused ones and duplicates included.
THEOREM ConcurrencyBounded ==
  ASSUME Config = {}
  PROVE  Spec => []ConcurrencyBound
<1>1. Init => FixedInv
  <2>1. Init => SlotsInv
    BY SlotsInit
  <2>2. QED
    BY <2>1 DEF Init, FixedInv, IdleHandler
<1>2. FixedInv /\ [Next]_vars => FixedInv'
  BY FixedStep
<1>3. FixedInv => ConcurrencyBound
  <2> SUFFICES ASSUME FixedInv PROVE ConcurrencyBound
    OBVIOUS
  <2>1. {r \in Runner : Working(r)} = Current
    BY DEF FixedInv, SlotsInv, TypeInv, RunnerType, Working, Current
  <2>2. Cardinality(Current) \in Nat
    BY SystemAssumption, FS_Subset, FS_CardinalityType DEF Current
  <2>3. slotFree \in Nat /\ slotFree + Cardinality(Current) = cfg.max
    BY DEF FixedInv, SlotsInv, SlotsConserved, Current, TypeInv, RunnerType
  <2>4. cfg.max \in Nat
    BY SystemAssumption DEF FixedInv, SlotsInv, TypeInv, OtherType
  <2>5. QED
    BY <2>1, <2>2, <2>3, <2>4 DEF ConcurrencyBound
<1>4. QED
  BY <1>1, <1>2, <1>3, PTL DEF Spec
=============================================================================
