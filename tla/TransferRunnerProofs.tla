------------------------- MODULE TransferRunnerProofs -------------------------
(***************************************************************************)
(* What the runners owe to one another.  First what one step of a runner   *)
(* may change, and which steps alone leave a queued task without somebody  *)
(* who will start it.  Then one runner per task, and what follows from it: *)
(* a completed task is intact, the cellular limit holds up to a chunk and  *)
(* a terminal task stays what it is.  That second part rests on two        *)
(* conditions, and TLC refutes it without them: the class of the network   *)
(* stays, and no request puts a task that may still have a runner back     *)
(* into the queue.                                                         *)
(***************************************************************************)
EXTENDS TransferSystemProofs

-----------------------------------------------------------------------------
(* What a step of a runner changes. *)

\* The locals of the other runners stay, and so does what no runner changes.  A
\* runner keeps its task, and leaves the lock only when that is queued.
Alone(r) ==
  /\ \A q \in Runner \ {r} :
       pc'[q] = pc[q] /\ job'[q] = job[q] /\ permit'[q] = permit[q] /\ source'[q] = source[q]
  /\ pc'[r] # "idle" => job'[r] = job[r]
  /\ \/ pc'[r] \in {"idle", "sched"} \/ pc[r] \notin {"idle", "sched"}
     \/ pc'[r] = "pick" /\ tasks[job[r]].state = "Queued"
  /\ cfg' = cfg /\ h' = h

LEMMA RunnerAlone ==
  ASSUME TypeInv, NEW r \in Runner, RunnerStep(r)
  PROVE  Alone(r)
<1>1. CASE RunnerLock(r)
  BY <1>1
     DEF TypeInv, RunnerType, Alone, RunnerLock, Goto, ReleasePermit, Finish, Continue,
         files, outside
<1>2. CASE RunnerWait(r)
  BY <1>2
     DEF TypeInv, RunnerType, Alone, RunnerWait, Goto, ReleasePermit, Raise, Continue,
         files, outside
<1>3. CASE RunnerPick(r)
  BY <1>3 DEF TypeInv, RunnerType, Alone, RunnerPick, Goto, files, outside
<1>4. CASE RunnerNetwork(r)
  BY <1>4 DEF TypeInv, RunnerType, Alone, RunnerNetwork, Stored, files, outside, rvars
<1>5. CASE RunnerNetworkDone(r)
  BY <1>5
     DEF TypeInv, RunnerType, Alone, RunnerNetworkDone, Goto, ReleasePermit, Finish,
         files, outside, NoApply
<1>6. CASE RunnerMarkCheck(r)
  BY <1>6
     DEF TypeInv, RunnerType, Alone, RunnerMarkCheck, Goto, ReleasePermit, Raise,
         Continue, files, outside
<1>7. CASE RunnerMark(r)
  BY <1>7 DEF TypeInv, RunnerType, Alone, RunnerMark, Goto, Stored, Continue, files, outside
<1>8. CASE RunnerFetchWhole(r)
  BY <1>8 DEF TypeInv, RunnerType, Alone, RunnerFetchWhole, Goto, outside
<1>9. CASE RunnerFetchStream(r)
  BY <1>9
     DEF TypeInv, RunnerType, Alone, RunnerFetchStream, Goto, ReleasePermit, Raise,
         Continue, outside
<1>10. CASE RunnerProgress(r)
  BY <1>10
     DEF TypeInv, RunnerType, Alone, RunnerProgress, Goto, Stored, ReleasePermit, Raise,
         Continue, files, outside
<1>11. CASE RunnerChunk(r)
  BY <1>11
     DEF TypeInv, RunnerType, Alone, RunnerChunk, Goto, ReleasePermit, Raise, Continue,
         Close, files, outside
<1>12. CASE RunnerChunkError(r)
  BY <1>12
     DEF TypeInv, RunnerType, Alone, RunnerChunkError, Goto, ReleasePermit, Raise, Close,
         Remove, outside
<1>13. CASE RunnerWrite(r)
  BY <1>13 DEF TypeInv, RunnerType, Alone, RunnerWrite, Goto, outside
<1>14. CASE RunnerMeter(r)
  BY <1>14
     DEF TypeInv, RunnerType, Alone, RunnerMeter, Goto, Stored, ReleasePermit, Raise,
         Continue, Close, files, outside
<1>15. CASE RunnerStreamEnd(r)
  BY <1>15
     DEF TypeInv, RunnerType, Alone, RunnerStreamEnd, Goto, ReleasePermit, Continue,
         Close, Remove, outside, Raise
<1>16. CASE RunnerVerifyCheck(r)
  BY <1>16
     DEF TypeInv, RunnerType, Alone, RunnerVerifyCheck, Goto, ReleasePermit, Raise,
         Continue, files, outside
<1>17. CASE RunnerVerify(r)
  BY <1>17
     DEF TypeInv, RunnerType, Alone, RunnerVerify, Goto, Stored, Continue, files, outside
<1>18. CASE RunnerHash(r)
  BY <1>18
     DEF TypeInv, RunnerType, Alone, RunnerHash, Goto, Stored, ReleasePermit, Raise,
         Continue, files, outside, Fail
<1>19. CASE RunnerPut(r)
  BY <1>19
     DEF TypeInv, RunnerType, Alone, RunnerPut, Goto, Stored, ReleasePermit, Raise,
         Continue, outside, Fail, PutObject
<1>20. CASE RunnerCommitCheck(r)
  BY <1>20
     DEF TypeInv, RunnerType, Alone, RunnerCommitCheck, Goto, ReleasePermit, Raise,
         Continue, files, outside
<1>21. CASE RunnerCommit(r)
  BY <1>21
     DEF TypeInv, RunnerType, Alone, RunnerCommit, Goto, Stored, Continue, files, outside
<1>22. CASE RunnerComplete(r)
  BY <1>22
     DEF TypeInv, RunnerType, Alone, RunnerComplete, Goto, Stored, ReleasePermit, Finish,
         Continue, files, outside
<1>23. CASE RunnerDestination(r)
  BY <1>23
     DEF TypeInv, RunnerType, Alone, RunnerDestination, Goto, ReleasePermit, Raise,
         Continue, outside
<1>24. CASE RunnerDestinationRename(r)
  BY <1>24
     DEF TypeInv, RunnerType, Alone, RunnerDestinationRename, Goto, ReleasePermit,
         Finish, outside
<1>25. CASE RunnerErrorCheck(r)
  BY <1>25
     DEF TypeInv, RunnerType, Alone, RunnerErrorCheck, Goto, ReleasePermit, Finish,
         Continue, files, outside
<1>26. CASE RunnerFail(r)
  BY <1>26
     DEF TypeInv, RunnerType, Alone, RunnerFail, Goto, Stored, ReleasePermit, Finish,
         files, outside, Fail
<1>27. CASE RunnerNetworkFails(r)
  BY <1>27
     DEF TypeInv, RunnerType, Alone, outside, RunnerNetworkFails, NoApply, Finish,
         files, ReleasePermit, Goto
<1>28. CASE RunnerFill(r)
  BY <1>28 DEF TypeInv, RunnerType, Alone, outside, RunnerFill, Close, Continue, Goto
<1>29. CASE RunnerFetchFails(r)
  BY <1>29
     DEF TypeInv, RunnerType, Alone, outside, RunnerFetchFails, Raise, files,
         ReleasePermit, Goto
<1>30. CASE RunnerRecord(r)
  BY <1>30
     DEF TypeInv, RunnerType, Alone, outside, RunnerRecord, Stored, Raise, Close,
         Continue, files, ReleasePermit, Goto
<1>31. CASE RunnerDiscard(r)
  BY <1>31
     DEF TypeInv, RunnerType, Alone, outside, RunnerDiscard, Fail, Stored, Finish,
         files, ReleasePermit, Goto
<1>32. CASE RunnerStoreFails(r)
  BY <1>32
     DEF TypeInv, RunnerType, Alone, outside, RunnerStoreFails, Raise, Close, files,
         ReleasePermit, Goto
<1>33. QED
  BY <1>1, <1>2, <1>3, <1>4, <1>5, <1>6, <1>7, <1>8, <1>9, <1>10, <1>11, <1>12,
     <1>13, <1>14, <1>15, <1>16, <1>17, <1>18, <1>19, <1>20, <1>21, <1>22, <1>23,
     <1>24, <1>25, <1>26, <1>27, <1>28, <1>29, <1>30, <1>31, <1>32
     DEF RunnerStep

\* The list of apply_network_class is made when a runner finds its task
\* restricted, and only shrinks after that.
NetworkList(r) ==
  \/ net' = net
  \/ /\ pc[r] = "net"
     /\ net'.pause \subseteq net.pause /\ net'.resume \subseteq net.resume
  \/ /\ pc[r] = "pick" /\ pc'[r] = "net"
     /\ network_restricted(job[r], cfg)
     /\ net' = [pause  |-> {t \in Task : ToPause(t, tasks[t], cfg)},
                resume |-> {t \in Task : ToResume(t, tasks[t], cfg)}]

LEMMA RunnerNetworkList ==
  ASSUME TypeInv, NEW r \in Runner, RunnerStep(r)
  PROVE  NetworkList(r)
<1>1. CASE RunnerLock(r)
  BY <1>1
     DEF TypeInv, RunnerType, OtherType, NetworkList, RunnerLock, Goto, ReleasePermit,
         Finish, Continue, files, outside
<1>2. CASE RunnerWait(r)
  BY <1>2
     DEF TypeInv, RunnerType, OtherType, NetworkList, RunnerWait, Goto, ReleasePermit,
         Raise, Continue, files, outside
<1>3. CASE RunnerPick(r)
  BY <1>3 DEF TypeInv, RunnerType, OtherType, NetworkList, RunnerPick, Goto, files, outside
<1>4. CASE RunnerNetwork(r)
  BY <1>4
     DEF TypeInv, RunnerType, OtherType, NetworkList, RunnerNetwork, Stored, files,
         outside, rvars
<1>5. CASE RunnerNetworkDone(r)
  BY <1>5
     DEF TypeInv, RunnerType, OtherType, NetworkList, RunnerNetworkDone, Goto,
         ReleasePermit, Finish, files, outside, NoApply
<1>6. CASE RunnerMarkCheck(r)
  BY <1>6
     DEF TypeInv, RunnerType, OtherType, NetworkList, RunnerMarkCheck, Goto,
         ReleasePermit, Raise, Continue, files, outside
<1>7. CASE RunnerMark(r)
  BY <1>7
     DEF TypeInv, RunnerType, OtherType, NetworkList, RunnerMark, Goto, Stored, Continue,
         files, outside
<1>8. CASE RunnerFetchWhole(r)
  BY <1>8 DEF TypeInv, RunnerType, OtherType, NetworkList, RunnerFetchWhole, Goto, outside
<1>9. CASE RunnerFetchStream(r)
  BY <1>9
     DEF TypeInv, RunnerType, OtherType, NetworkList, RunnerFetchStream, Goto,
         ReleasePermit, Raise, Continue, outside
<1>10. CASE RunnerProgress(r)
  BY <1>10
     DEF TypeInv, RunnerType, OtherType, NetworkList, RunnerProgress, Goto, Stored,
         ReleasePermit, Raise, Continue, files, outside
<1>11. CASE RunnerChunk(r)
  BY <1>11
     DEF TypeInv, RunnerType, OtherType, NetworkList, RunnerChunk, Goto, ReleasePermit,
         Raise, Continue, Close, files, outside
<1>12. CASE RunnerChunkError(r)
  BY <1>12
     DEF TypeInv, RunnerType, OtherType, NetworkList, RunnerChunkError, Goto,
         ReleasePermit, Raise, Close, Remove, outside
<1>13. CASE RunnerWrite(r)
  BY <1>13 DEF TypeInv, RunnerType, OtherType, NetworkList, RunnerWrite, Goto, outside
<1>14. CASE RunnerMeter(r)
  BY <1>14
     DEF TypeInv, RunnerType, OtherType, NetworkList, RunnerMeter, Goto, Stored,
         ReleasePermit, Raise, Continue, Close, files, outside
<1>15. CASE RunnerStreamEnd(r)
  BY <1>15
     DEF TypeInv, RunnerType, OtherType, NetworkList, RunnerStreamEnd, Goto,
         ReleasePermit, Continue, Close, Remove, outside, Raise
<1>16. CASE RunnerVerifyCheck(r)
  BY <1>16
     DEF TypeInv, RunnerType, OtherType, NetworkList, RunnerVerifyCheck, Goto,
         ReleasePermit, Raise, Continue, files, outside
<1>17. CASE RunnerVerify(r)
  BY <1>17
     DEF TypeInv, RunnerType, OtherType, NetworkList, RunnerVerify, Goto, Stored,
         Continue, files, outside
<1>18. CASE RunnerHash(r)
  BY <1>18
     DEF TypeInv, RunnerType, OtherType, NetworkList, RunnerHash, Goto, Stored,
         ReleasePermit, Raise, Continue, files, outside, Fail
<1>19. CASE RunnerPut(r)
  BY <1>19
     DEF TypeInv, RunnerType, OtherType, NetworkList, RunnerPut, Goto, Stored,
         ReleasePermit, Raise, Continue, outside, Fail, PutObject
<1>20. CASE RunnerCommitCheck(r)
  BY <1>20
     DEF TypeInv, RunnerType, OtherType, NetworkList, RunnerCommitCheck, Goto,
         ReleasePermit, Raise, Continue, files, outside
<1>21. CASE RunnerCommit(r)
  BY <1>21
     DEF TypeInv, RunnerType, OtherType, NetworkList, RunnerCommit, Goto, Stored,
         Continue, files, outside
<1>22. CASE RunnerComplete(r)
  BY <1>22
     DEF TypeInv, RunnerType, OtherType, NetworkList, RunnerComplete, Goto, Stored,
         ReleasePermit, Finish, Continue, files, outside
<1>23. CASE RunnerDestination(r)
  BY <1>23
     DEF TypeInv, RunnerType, OtherType, NetworkList, RunnerDestination, Goto,
         ReleasePermit, Raise, Continue, outside
<1>24. CASE RunnerDestinationRename(r)
  BY <1>24
     DEF TypeInv, RunnerType, OtherType, NetworkList, RunnerDestinationRename, Goto,
         ReleasePermit, Finish, outside
<1>25. CASE RunnerErrorCheck(r)
  BY <1>25
     DEF TypeInv, RunnerType, OtherType, NetworkList, RunnerErrorCheck, Goto,
         ReleasePermit, Finish, Continue, files, outside
<1>26. CASE RunnerFail(r)
  BY <1>26
     DEF TypeInv, RunnerType, OtherType, NetworkList, RunnerFail, Goto, Stored,
         ReleasePermit, Finish, files, outside, Fail
<1>27. CASE RunnerNetworkFails(r)
  BY <1>27
     DEF TypeInv, RunnerType, OtherType, NetworkList, outside, RunnerNetworkFails,
         NoApply, Finish, files, ReleasePermit, Goto
<1>28. CASE RunnerFill(r)
  BY <1>28
     DEF TypeInv, RunnerType, OtherType, NetworkList, outside, RunnerFill, Close,
         Continue, Goto
<1>29. CASE RunnerFetchFails(r)
  BY <1>29
     DEF TypeInv, RunnerType, OtherType, NetworkList, outside, RunnerFetchFails, Raise,
         files, ReleasePermit, Goto
<1>30. CASE RunnerRecord(r)
  BY <1>30
     DEF TypeInv, RunnerType, OtherType, NetworkList, outside, RunnerRecord, Stored,
         Raise, Close, Continue, files, ReleasePermit, Goto
<1>31. CASE RunnerDiscard(r)
  BY <1>31
     DEF TypeInv, RunnerType, OtherType, NetworkList, outside, RunnerDiscard, Fail,
         Stored, Finish, files, ReleasePermit, Goto
<1>32. CASE RunnerStoreFails(r)
  BY <1>32
     DEF TypeInv, RunnerType, OtherType, NetworkList, outside, RunnerStoreFails, Raise,
         Close, files, ReleasePermit, Goto
<1>33. QED
  BY <1>1, <1>2, <1>3, <1>4, <1>5, <1>6, <1>7, <1>8, <1>9, <1>10, <1>11, <1>12,
     <1>13, <1>14, <1>15, <1>16, <1>17, <1>18, <1>19, <1>20, <1>21, <1>22, <1>23,
     <1>24, <1>25, <1>26, <1>27, <1>28, <1>29, <1>30, <1>31, <1>32
     DEF RunnerStep

\* The only state a runner writes into a task that is not its own is Paused,
\* unless apply_network_class tells it to resume the task.
Acting == {"mark_write", "progress", "record", "meter", "discard", "verify_write", "hash",
           "put", "commit_write", "complete"}

StateWritten(r, t) ==
  \/ tasks'[t].state = tasks[t].state
  \/ /\ t = job[r] /\ pc[r] \in Acting
     /\ tasks'[t].state \notin {"Queued", "Absent"}
  \/ t = job[r] /\ pc[r] = "fail_write" /\ tasks'[t].state = "Failed"
  \/ pc[r] = "net" /\ t \in net.pause /\ tasks'[t].state = "Paused"

LEMMA RunnerStates ==
  ASSUME TypeInv, NEW r \in Runner, RunnerStep(r),
         NEW t \in Task, ~(RunnerNetwork(r) /\ t \in net.resume)
  PROVE  StateWritten(r, t)
<1>1. CASE RunnerLock(r)
  BY <1>1, TxNotCompleted
     DEF TypeInv, StoreType, RunnerType, TransferState, StateWritten, Acting, RunnerLock,
         Goto, ReleasePermit, Finish, Continue, files, outside
<1>2. CASE RunnerWait(r)
  BY <1>2, TxNotCompleted
     DEF TypeInv, StoreType, RunnerType, TransferState, StateWritten, Acting, RunnerWait,
         Goto, ReleasePermit, Raise, Continue, files, outside
<1>3. CASE RunnerPick(r)
  BY <1>3, TxNotCompleted
     DEF TypeInv, StoreType, RunnerType, TransferState, StateWritten, Acting, RunnerPick,
         Goto, files, outside
<1>4. CASE RunnerNetwork(r)
  <2>1. PICK u \in Task :
          \/ u \in net.pause /\ tasks' = [tasks EXCEPT ![u] = TxNetworkPause(tasks[u])]
          \/ u # t /\ tasks' = [tasks EXCEPT ![u] = TxNetworkResume(tasks[u])]
    BY <1>4 DEF RunnerNetwork, Stored, TypeInv, OtherType
  <2>2. pc[r] = "net"
    BY <1>4 DEF RunnerNetwork
  <2>3. QED
    BY <2>1, <2>2, TxNotCompleted DEF TypeInv, StoreType, StateWritten
<1>5. CASE RunnerNetworkDone(r)
  BY <1>5, TxNotCompleted
     DEF TypeInv, StoreType, RunnerType, TransferState, StateWritten, Acting,
         RunnerNetworkDone, Goto, ReleasePermit, Finish, files, outside, NoApply
<1>6. CASE RunnerMarkCheck(r)
  BY <1>6, TxNotCompleted
     DEF TypeInv, StoreType, RunnerType, TransferState, StateWritten, Acting,
         RunnerMarkCheck, Goto, ReleasePermit, Raise, Continue, files, outside
<1>7. CASE RunnerMark(r)
  BY <1>7, TxNotCompleted
     DEF TypeInv, StoreType, RunnerType, TransferState, StateWritten, Acting, RunnerMark,
         Goto, Stored, Continue, files, outside
<1>8. CASE RunnerFetchWhole(r)
  BY <1>8, TxNotCompleted
     DEF TypeInv, StoreType, RunnerType, TransferState, StateWritten, Acting,
         RunnerFetchWhole, Goto, outside
<1>9. CASE RunnerFetchStream(r)
  BY <1>9, TxNotCompleted
     DEF TypeInv, StoreType, RunnerType, TransferState, StateWritten, Acting,
         RunnerFetchStream, Goto, ReleasePermit, Raise, Continue, outside
<1>10. CASE RunnerProgress(r)
  BY <1>10, TxNotCompleted
     DEF TypeInv, StoreType, RunnerType, TransferState, StateWritten, Acting,
         RunnerProgress, Goto, Stored, ReleasePermit, Raise, Continue, files, outside
<1>11. CASE RunnerChunk(r)
  BY <1>11, TxNotCompleted
     DEF TypeInv, StoreType, RunnerType, TransferState, StateWritten, Acting,
         RunnerChunk, Goto, ReleasePermit, Raise, Continue, Close, files, outside
<1>12. CASE RunnerChunkError(r)
  BY <1>12, TxNotCompleted
     DEF TypeInv, StoreType, RunnerType, TransferState, StateWritten, Acting,
         RunnerChunkError, Goto, ReleasePermit, Raise, Close, Remove, outside
<1>13. CASE RunnerWrite(r)
  BY <1>13, TxNotCompleted
     DEF TypeInv, StoreType, RunnerType, TransferState, StateWritten, Acting,
         RunnerWrite, Goto, outside
<1>14. CASE RunnerMeter(r)
  BY <1>14, TxNotCompleted
     DEF TypeInv, StoreType, RunnerType, TransferState, StateWritten, Acting,
         RunnerMeter, Goto, Stored, ReleasePermit, Raise, Continue, Close, files, outside
<1>15. CASE RunnerStreamEnd(r)
  BY <1>15, TxNotCompleted
     DEF TypeInv, StoreType, RunnerType, TransferState, StateWritten, Acting,
         RunnerStreamEnd, Goto, ReleasePermit, Continue, Close, Remove, outside, Raise
<1>16. CASE RunnerVerifyCheck(r)
  BY <1>16, TxNotCompleted
     DEF TypeInv, StoreType, RunnerType, TransferState, StateWritten, Acting,
         RunnerVerifyCheck, Goto, ReleasePermit, Raise, Continue, files, outside
<1>17. CASE RunnerVerify(r)
  BY <1>17, TxNotCompleted
     DEF TypeInv, StoreType, RunnerType, TransferState, StateWritten, Acting,
         RunnerVerify, Goto, Stored, Continue, files, outside
<1>18. CASE RunnerHash(r)
  BY <1>18, TxNotCompleted
     DEF TypeInv, StoreType, RunnerType, TransferState, StateWritten, Acting,
         RunnerHash, Goto, Stored, ReleasePermit, Raise, Continue, files, outside, Fail
<1>19. CASE RunnerPut(r)
  BY <1>19, TxNotCompleted
     DEF TypeInv, StoreType, RunnerType, TransferState, StateWritten, Acting, RunnerPut,
         Goto, Stored, ReleasePermit, Raise, Continue, outside, Fail, PutObject
<1>20. CASE RunnerCommitCheck(r)
  BY <1>20, TxNotCompleted
     DEF TypeInv, StoreType, RunnerType, TransferState, StateWritten, Acting,
         RunnerCommitCheck, Goto, ReleasePermit, Raise, Continue, files, outside
<1>21. CASE RunnerCommit(r)
  BY <1>21, TxNotCompleted
     DEF TypeInv, StoreType, RunnerType, TransferState, StateWritten, Acting,
         RunnerCommit, Goto, Stored, Continue, files, outside
<1>22. CASE RunnerComplete(r)
  BY <1>22, TxNotCompleted
     DEF TypeInv, StoreType, RunnerType, TransferState, StateWritten, Acting,
         RunnerComplete, Goto, Stored, ReleasePermit, Finish, Continue, files, outside
<1>23. CASE RunnerDestination(r)
  BY <1>23, TxNotCompleted
     DEF TypeInv, StoreType, RunnerType, TransferState, StateWritten, Acting,
         RunnerDestination, Goto, ReleasePermit, Raise, Continue, outside
<1>24. CASE RunnerDestinationRename(r)
  BY <1>24, TxNotCompleted
     DEF TypeInv, StoreType, RunnerType, TransferState, StateWritten, Acting,
         RunnerDestinationRename, Goto, ReleasePermit, Finish, outside
<1>25. CASE RunnerErrorCheck(r)
  BY <1>25, TxNotCompleted
     DEF TypeInv, StoreType, RunnerType, TransferState, StateWritten, Acting,
         RunnerErrorCheck, Goto, ReleasePermit, Finish, Continue, files, outside
<1>26. CASE RunnerFail(r)
  BY <1>26, TxNotCompleted
     DEF TypeInv, StoreType, RunnerType, TransferState, StateWritten, Acting,
         RunnerFail, Goto, Stored, ReleasePermit, Finish, files, outside, Fail
<1>27. CASE RunnerNetworkFails(r)
  BY <1>27, TxNotCompleted
     DEF TypeInv, StoreType, RunnerType, TransferState, StateWritten, Acting, outside,
         RunnerNetworkFails, NoApply, Finish, files, ReleasePermit, Goto
<1>28. CASE RunnerFill(r)
  BY <1>28, TxNotCompleted
     DEF TypeInv, StoreType, RunnerType, TransferState, StateWritten, Acting, outside,
         RunnerFill, Close, Continue, Goto
<1>29. CASE RunnerFetchFails(r)
  BY <1>29, TxNotCompleted
     DEF TypeInv, StoreType, RunnerType, TransferState, StateWritten, Acting, outside,
         RunnerFetchFails, Raise, files, ReleasePermit, Goto
<1>30. CASE RunnerRecord(r)
  BY <1>30, TxNotCompleted
     DEF TypeInv, StoreType, RunnerType, TransferState, StateWritten, Acting, outside,
         RunnerRecord, Stored, Raise, Close, Continue, files, ReleasePermit, Goto
<1>31. CASE RunnerDiscard(r)
  BY <1>31, TxNotCompleted
     DEF TypeInv, StoreType, RunnerType, TransferState, StateWritten, Acting, outside,
         RunnerDiscard, Fail, Stored, Finish, files, ReleasePermit, Goto
<1>32. CASE RunnerStoreFails(r)
  BY <1>32, TxNotCompleted
     DEF TypeInv, StoreType, RunnerType, TransferState, StateWritten, Acting, outside,
         RunnerStoreFails, Raise, Close, files, ReleasePermit, Goto
<1>33. QED
  BY <1>1, <1>2, <1>3, <1>4, <1>5, <1>6, <1>7, <1>8, <1>9, <1>10, <1>11, <1>12,
     <1>13, <1>14, <1>15, <1>16, <1>17, <1>18, <1>19, <1>20, <1>21, <1>22, <1>23,
     <1>24, <1>25, <1>26, <1>27, <1>28, <1>29, <1>30, <1>31, <1>32
     DEF RunnerStep

-----------------------------------------------------------------------------
(* A queued task is served.  A runner that sleeps is still a server: it looks *)
(* again.  A runner in apply_network_class is one only as long as the task is *)
(* on its list, because it pauses the task and then leaves.                   *)

Serves(r, t) == job[r] = t /\ WillStart(r)

\* The handler forgets nothing it has to spawn: a request that is over has no
\* name, and the tasks resumed by the network are spawned before it goes on.
HandlerRemembers ==
  /\ h.pc = "idle" => h.op = "none"
  /\ h.pc \notin {"apply", "spawn_resumed"} => h.resumed = {}

Served(t) == tasks[t].state = "Queued" =>
               (\E r \in Runner : Serves(r, t)) \/ WillSpawn(t)

ServingInv == SchedulerInv /\ HandlerRemembers

\* The steps that may leave task t without a server.
RunnerDrops(r, t) ==
  \/ RunnerNetwork(r) /\ t \in net.resume
  \/ (RunnerNetworkFails(r) \/ RunnerStoreFails(r)) /\ t = job[r]

Excused(t) ==
  \/ HandlerStoreFails /\ WillSpawn(t)
  \/ \E r \in Runner : RunnerDrops(r, t)

KeepsServed == \A t \in Task : Served(t) => Served(t)' \/ Excused(t)

\* Any other step of a runner queues nothing and leaves every queued task its server.
LEMMA RunnerServes ==
  ASSUME SchedulerInv, NEW r \in Runner, RunnerStep(r),
         NEW t \in Task, tasks'[t].state = "Queued", ~RunnerDrops(r, t)
  PROVE  /\ tasks[t].state = "Queued"
         /\ Serves(r, t) => Serves(r, t)'
<1>1. tasks[t].state = "Queued"
  BY RunnerStates DEF SchedulerInv, StateWritten, RunnerDrops
<1>2. ASSUME Serves(r, t) PROVE Serves(r, t)'
  <2>1. CASE RunnerLock(r)
    BY <2>1, <1>1, <1>2
       DEF SchedulerInv, TypeInv, StoreType, RunnerType, Serves, WillStart, RunnerLock,
           Goto, ReleasePermit, Finish, Continue, files, outside
  <2>2. CASE RunnerWait(r)
    BY <2>2, <1>1, <1>2
       DEF SchedulerInv, TypeInv, StoreType, RunnerType, Serves, WillStart, RunnerWait,
           Goto, ReleasePermit, Raise, Continue, files, outside
  <2>3. CASE RunnerPick(r)
    BY <2>3, <1>1, <1>2
       DEF SchedulerInv, TypeInv, StoreType, RunnerType, Serves, WillStart, RunnerPick,
           Goto, files, outside, ToPause
  <2>4. CASE RunnerNetwork(r)
    <3>1. PICK u \in Task :
            \/ /\ tasks' = [tasks EXCEPT ![u] = TxNetworkPause(tasks[u])]
               /\ net' = [net EXCEPT !.pause = net.pause \ {u}]
            \/ net' = [net EXCEPT !.resume = net.resume \ {u}]
      BY <2>4 DEF RunnerNetwork, Stored, SchedulerInv, TypeInv, OtherType
    <3>2. net \in [pause : SUBSET Task, resume : SUBSET Task]
      BY DEF SchedulerInv, TypeInv, OtherType
    <3>3. CASE /\ net'.pause = net.pause \ {u}
               /\ tasks' = [tasks EXCEPT ![u] = TxNetworkPause(tasks[u])]
      <4>1. t # u
        BY <1>1, <3>3, TxNotCompleted DEF SchedulerInv, TypeInv, StoreType
      <4>2. QED
        BY <2>4, <1>2, <3>3, <4>1
           DEF RunnerNetwork, rvars, SchedulerInv, TypeInv, RunnerType, Serves, WillStart
    <3>4. CASE net'.pause = net.pause
      BY <2>4, <1>2, <3>4
         DEF RunnerNetwork, rvars, SchedulerInv, TypeInv, RunnerType, Serves, WillStart
    <3>5. QED
      BY <3>1, <3>2, <3>3, <3>4
  <2>5. CASE RunnerNetworkDone(r)
    BY <2>5, <1>1, <1>2
       DEF SchedulerInv, TypeInv, StoreType, RunnerType, Serves, WillStart,
           RunnerNetworkDone, Goto, ReleasePermit, Finish, files, outside, NoApply
  <2>6. CASE RunnerMarkCheck(r)
    BY <2>6, <1>1, <1>2
       DEF SchedulerInv, TypeInv, StoreType, RunnerType, Serves, WillStart,
           RunnerMarkCheck, Goto, ReleasePermit, Raise, Continue, files, outside,
           transition_allowed
  <2>7. CASE RunnerMark(r)
    BY <2>7, <1>1, <1>2
       DEF SchedulerInv, TypeInv, StoreType, RunnerType, Serves, WillStart, RunnerMark,
           Goto, Stored, Continue, files, outside, TxSet
  <2>8. CASE RunnerFetchWhole(r)
    BY <2>8, <1>1, <1>2
       DEF SchedulerInv, TypeInv, StoreType, RunnerType, Serves, WillStart,
           RunnerFetchWhole, Goto, outside
  <2>9. CASE RunnerFetchStream(r)
    BY <2>9, <1>1, <1>2
       DEF SchedulerInv, TypeInv, StoreType, RunnerType, Serves, WillStart,
           RunnerFetchStream, Goto, ReleasePermit, Raise, Continue, outside
  <2>10. CASE RunnerProgress(r)
    BY <2>10, <1>1, <1>2
       DEF SchedulerInv, TypeInv, StoreType, RunnerType, Serves, WillStart,
           RunnerProgress, Goto, Stored, ReleasePermit, Raise, Continue, files, outside
  <2>11. CASE RunnerChunk(r)
    BY <2>11, <1>1, <1>2
       DEF SchedulerInv, TypeInv, StoreType, RunnerType, Serves, WillStart, RunnerChunk,
           Goto, ReleasePermit, Raise, Continue, Close, files, outside
  <2>12. CASE RunnerChunkError(r)
    BY <2>12, <1>1, <1>2
       DEF SchedulerInv, TypeInv, StoreType, RunnerType, Serves, WillStart,
           RunnerChunkError, Goto, ReleasePermit, Raise, Close, Remove, outside
  <2>13. CASE RunnerWrite(r)
    BY <2>13, <1>1, <1>2
       DEF SchedulerInv, TypeInv, StoreType, RunnerType, Serves, WillStart, RunnerWrite,
           Goto, outside
  <2>14. CASE RunnerMeter(r)
    BY <2>14, <1>1, <1>2
       DEF SchedulerInv, TypeInv, StoreType, RunnerType, Serves, WillStart, RunnerMeter,
           Goto, Stored, ReleasePermit, Raise, Continue, Close, files, outside
  <2>15. CASE RunnerStreamEnd(r)
    BY <2>15, <1>1, <1>2
       DEF SchedulerInv, TypeInv, StoreType, RunnerType, Serves, WillStart,
           RunnerStreamEnd, Goto, ReleasePermit, Continue, Close, Remove, outside, Raise
  <2>16. CASE RunnerVerifyCheck(r)
    BY <2>16, <1>1, <1>2
       DEF SchedulerInv, TypeInv, StoreType, RunnerType, Serves, WillStart,
           RunnerVerifyCheck, Goto, ReleasePermit, Raise, Continue, files, outside
  <2>17. CASE RunnerVerify(r)
    BY <2>17, <1>1, <1>2
       DEF SchedulerInv, TypeInv, StoreType, RunnerType, Serves, WillStart,
           RunnerVerify, Goto, Stored, Continue, files, outside
  <2>18. CASE RunnerHash(r)
    BY <2>18, <1>1, <1>2
       DEF SchedulerInv, TypeInv, StoreType, RunnerType, Serves, WillStart, RunnerHash,
           Goto, Stored, ReleasePermit, Raise, Continue, files, outside, Fail
  <2>19. CASE RunnerPut(r)
    BY <2>19, <1>1, <1>2
       DEF SchedulerInv, TypeInv, StoreType, RunnerType, Serves, WillStart, RunnerPut,
           Goto, Stored, ReleasePermit, Raise, Continue, outside, Fail, PutObject
  <2>20. CASE RunnerCommitCheck(r)
    BY <2>20, <1>1, <1>2
       DEF SchedulerInv, TypeInv, StoreType, RunnerType, Serves, WillStart,
           RunnerCommitCheck, Goto, ReleasePermit, Raise, Continue, files, outside
  <2>21. CASE RunnerCommit(r)
    BY <2>21, <1>1, <1>2
       DEF SchedulerInv, TypeInv, StoreType, RunnerType, Serves, WillStart,
           RunnerCommit, Goto, Stored, Continue, files, outside
  <2>22. CASE RunnerComplete(r)
    BY <2>22, <1>1, <1>2
       DEF SchedulerInv, TypeInv, StoreType, RunnerType, Serves, WillStart,
           RunnerComplete, Goto, Stored, ReleasePermit, Finish, Continue, files, outside
  <2>23. CASE RunnerDestination(r)
    BY <2>23, <1>1, <1>2
       DEF SchedulerInv, TypeInv, StoreType, RunnerType, Serves, WillStart,
           RunnerDestination, Goto, ReleasePermit, Raise, Continue, outside
  <2>24. CASE RunnerDestinationRename(r)
    BY <2>24, <1>1, <1>2
       DEF SchedulerInv, TypeInv, StoreType, RunnerType, Serves, WillStart,
           RunnerDestinationRename, Goto, ReleasePermit, Finish, outside
  <2>25. CASE RunnerErrorCheck(r)
    BY <2>25, <1>1, <1>2
       DEF SchedulerInv, TypeInv, StoreType, RunnerType, Serves, WillStart,
           RunnerErrorCheck, Goto, ReleasePermit, Finish, Continue, files, outside
  <2>26. CASE RunnerFail(r)
    BY <2>26, <1>1, <1>2
       DEF SchedulerInv, TypeInv, StoreType, RunnerType, Serves, WillStart, RunnerFail,
           Goto, Stored, ReleasePermit, Finish, files, outside, Fail
  <2>27. CASE RunnerNetworkFails(r)
    BY <2>27, <1>2 DEF RunnerDrops, Serves
  <2>28. CASE RunnerFill(r)
    BY <2>28, <1>1, <1>2
       DEF SchedulerInv, TypeInv, StoreType, RunnerType, Serves, WillStart, RunnerFill,
           Goto, Continue, Close, outside
  <2>29. CASE RunnerFetchFails(r)
    BY <2>29, <1>1, <1>2
       DEF SchedulerInv, TypeInv, StoreType, RunnerType, Serves, WillStart,
           RunnerFetchFails, Goto, ReleasePermit, Raise, files, outside
  <2>30. CASE RunnerRecord(r)
    BY <2>30, <1>1, <1>2
       DEF SchedulerInv, TypeInv, StoreType, RunnerType, Serves, WillStart,
           RunnerRecord, Goto, Stored, ReleasePermit, Raise, Continue, Close, files,
           outside
  <2>31. CASE RunnerDiscard(r)
    BY <2>31, <1>1, <1>2
       DEF SchedulerInv, TypeInv, StoreType, RunnerType, Serves, WillStart,
           RunnerDiscard, Goto, Fail, Stored, ReleasePermit, Finish, files, outside
  <2>32. CASE RunnerStoreFails(r)
    BY <2>32, <1>2 DEF RunnerDrops, Serves
  <2>33. QED
    BY <2>1, <2>2, <2>3, <2>4, <2>5, <2>6, <2>7, <2>8, <2>9, <2>10, <2>11, <2>12,
       <2>13, <2>14, <2>15, <2>16, <2>17, <2>18, <2>19, <2>20, <2>21, <2>22, <2>23,
       <2>24, <2>25, <2>26, <2>27, <2>28, <2>29, <2>30, <2>31, <2>32
       DEF RunnerStep
<1>3. QED
  BY <1>1, <1>2

LEMMA RunnerServedStep ==
  ASSUME ServingInv, NEW r \in Runner, RunnerStep(r)
  PROVE  HandlerRemembers' /\ KeepsServed
<1>1. Alone(r) /\ NetworkList(r)
  BY RunnerAlone, RunnerNetworkList DEF ServingInv, SchedulerInv
<1>2. HandlerRemembers'
  BY <1>1 DEF ServingInv, HandlerRemembers, Alone
<1>3. ASSUME NEW t \in Task, Served(t), tasks'[t].state = "Queued", ~RunnerDrops(r, t)
      PROVE  (\E q \in Runner : Serves(q, t)') \/ WillSpawn(t)'
  <2>1. tasks[t].state = "Queued" /\ (Serves(r, t) => Serves(r, t)')
    BY <1>3, RunnerServes DEF ServingInv
  <2>2. CASE WillSpawn(t)
    BY <1>1, <2>2 DEF WillSpawn, Alone
  <2>3. ASSUME NEW q \in Runner, q # r, Serves(q, t) PROVE Serves(q, t)'
    \* Only the runner that holds the scheduler changes the list.
    <3>1. pc[q] = "net" => pc[r] \notin {"pick", "net"}
      BY <2>3 DEF ServingInv, SchedulerInv, Deciding
    <3>2. QED
      BY <1>1, <2>3, <3>1 DEF Alone, NetworkList, Serves, WillStart
  <2>4. QED
    BY <1>3, <2>1, <2>2, <2>3 DEF Served
<1>4. QED
  BY <1>2, <1>3 DEF KeepsServed, Served, Excused

\* As long as no runner changes, a queued task keeps whoever serves it.
LEMMA ServesKept ==
  ASSUME UNCHANGED <<pc, job, net>>, NEW t \in Task, Served(t),
         WillSpawn(t)' \/ (tasks[t].state = "Queued" /\ ~WillSpawn(t))
  PROVE  (\E r \in Runner : Serves(r, t)') \/ WillSpawn(t)'
BY DEF Served, Serves, WillStart

\* A handler that spawns a runner for a task serves it, and takes no server away.
LEMMA SpawnServes ==
  ASSUME SchedulerInv, NEW r \in Runner, NEW t \in Task, Spawn(r, t), UNCHANGED net
  PROVE  /\ Serves(r, t)'
         /\ \A q \in Runner, u \in Task : Serves(q, u) => Serves(q, u)'
BY DEF SchedulerInv, TypeInv, RunnerType, Spawn, Goto, Serves, WillStart

LEMMA HandlerServedStep ==
  ASSUME ServingInv, HandlerStep
  PROVE  HandlerRemembers' /\ KeepsServed
<1> DEFINE Kept(t) == tasks'[t].state = "Queued" =>
                        WillSpawn(t)' \/ (tasks[t].state = "Queued" /\ ~WillSpawn(t))
<1>1. HandlerType /\ StoreType
  BY DEF ServingInv, SchedulerInv, TypeInv
<1>2. ASSUME UNCHANGED <<pc, job, net>>, \A t \in Task : Kept(t) \/ Excused(t)
      PROVE  KeepsServed
  BY <1>2, ServesKept DEF KeepsServed, Served
<1>3. CASE HandlerWrite
  <2>1. HandlerRemembers' /\ UNCHANGED <<pc, job, net>>
    BY <1>1, <1>3 DEF ServingInv, HandlerRemembers, HandlerWrite, HandlerType, HandlerAt,
       HandlerDone, IdleHandler, runners, rvars
  <2>2. h.task \in Task /\ tasks[h.task] \in TaskRecord /\ h.priority \in Priority
    BY <1>1, <1>3 DEF HandlerWrite, HandlerType, StoreType
  <2>3. \/ /\ h.op \in {"resume", "retry"}
           /\ h'.op = h.op /\ h'.task = h.task /\ h'.resumed = h.resumed
           /\ \A t \in Task \ {h.task} : tasks'[t] = tasks[t]
        \/ /\ h.op \in {"pause", "cancel", "priority"} /\ h.resumed = {}
           /\ \A t \in Task : tasks'[t].state = "Queued" => tasks[t].state = "Queued"
    <3>1. tasks \in [Task -> TaskRecord] /\ h.resumed = {}
      BY <1>1, <1>3 DEF StoreType, ServingInv, HandlerRemembers, HandlerWrite
    <3>2. CASE /\ h.op \in {"resume", "retry"}
               /\ HandlerAt(IF h.op = "resume" THEN "unflag" ELSE "list")
               /\ \E k : tasks' = [tasks EXCEPT ![h.task] = k]
      BY <1>1, <2>2, <3>1, <3>2 DEF HandlerAt, HandlerType
    <3>3. CASE /\ h.op \in {"pause", "cancel"}
               /\ \E to \in {"Paused", "Cancelled"} :
                    tasks' = [tasks EXCEPT ![h.task] = TxSet(tasks[h.task], to)]
      BY <2>2, <3>1, <3>3, TxNotCompleted DEF TransferState
    <3>4. CASE /\ h.op = "priority"
               /\ tasks' = [tasks EXCEPT ![h.task] = TxPriority(tasks[h.task], h.priority)]
      BY <2>2, <3>1, <3>4, TxNotCompleted
    <3>5. QED
      BY <1>3, <3>2, <3>3, <3>4 DEF HandlerWrite, Stored
  <2>4. ASSUME NEW t \in Task PROVE Kept(t)
    BY <2>3 DEF WillSpawn
  <2>5. QED
    BY <1>2, <2>1, <2>4
<1>4. CASE HandlerUnflag
  <2>1. HandlerRemembers' /\ UNCHANGED <<pc, job, net>>
    BY <1>1, <1>4 DEF ServingInv, HandlerRemembers, HandlerUnflag, HandlerType, HandlerAt,
       HandlerDone, IdleHandler, runners, rvars
  <2>2. ASSUME NEW t \in Task PROVE Kept(t)
    <3>1. tasks'[t].state = tasks[t].state
      <4>1. h.task \in Task /\ tasks[h.task] \in TaskRecord
        BY <1>1, <1>4 DEF HandlerUnflag, HandlerType, StoreType
      <4>2. TxPausedByNetwork(tasks[h.task], FALSE).state = tasks[h.task].state
        BY <4>1, TxNotCompleted
      <4>3. QED
        BY <1>1, <1>4, <4>1, <4>2 DEF HandlerUnflag, StoreType, Stored
    <3>2. CASE h.op = "pause"
      BY <1>1, <1>4, <3>1, <3>2 DEF ServingInv, HandlerRemembers, HandlerUnflag, WillSpawn
    <3>3. CASE h.op # "pause"
      BY <1>1, <1>4, <3>1, <3>3 DEF HandlerUnflag, HandlerAt, HandlerType, WillSpawn
    <3>4. QED
      BY <3>2, <3>3
  <2>3. QED
    BY <1>2, <2>1, <2>2
<1>5. CASE HandlerSlots \/ HandlerList \/ HandlerApplied
  <2>1. HandlerRemembers' /\ UNCHANGED <<pc, job, net>>
    BY <1>1, <1>5 DEF ServingInv, HandlerRemembers, HandlerSlots, HandlerList, HandlerApplied,
       HandlerType, HandlerAt, runners, rvars
  <2>2. ASSUME NEW t \in Task PROVE Kept(t)
    BY <1>1, <1>5 DEF HandlerSlots, HandlerList, HandlerApplied, HandlerType, HandlerAt,
       WillSpawn
  <2>3. QED
    BY <1>2, <2>1, <2>2
<1>6. CASE HandlerApply
  <2>1. HandlerRemembers' /\ UNCHANGED <<pc, job, net>>
    BY <1>1, <1>6 DEF ServingInv, HandlerRemembers, HandlerApply, HandlerType, runners, rvars
  <2>2. \E u \in Task :
          \/ /\ tasks' = [tasks EXCEPT ![u] = TxNetworkPause(tasks[u])]
             /\ h'.resumed = h.resumed /\ h'.op = h.op /\ h'.task = h.task
          \/ /\ tasks' = [tasks EXCEPT ![u] = TxNetworkResume(tasks[u])]
             /\ h'.resumed = h.resumed \cup {u} /\ h'.op = h.op /\ h'.task = h.task
    BY <1>1, <1>6 DEF HandlerApply, HandlerType, Stored
  <2>3. ASSUME NEW t \in Task PROVE Kept(t)
    BY <1>1, <2>2, TxNotCompleted DEF StoreType, WillSpawn
  <2>4. QED
    BY <1>2, <2>1, <2>3
<1>7. CASE HandlerSpawnResumed
  <2>1. CASE h.resumed = {}
    <3>1. HandlerRemembers' /\ UNCHANGED <<pc, job, net>>
      BY <1>1, <1>7, <2>1 DEF HandlerRemembers, HandlerSpawnResumed, HandlerType, HandlerAt,
         HandlerDone, IdleHandler, rvars
    <3>2. ASSUME NEW t \in Task PROVE Kept(t)
      BY <1>1, <1>7, <2>1 DEF HandlerSpawnResumed, HandlerType, HandlerAt, HandlerDone,
         IdleHandler, WillSpawn
    <3>3. QED
      BY <1>2, <3>1, <3>2
  <2>2. CASE h.resumed # {}
    <3>1. PICK u \in h.resumed, r \in Runner :
            Spawn(r, u) /\ h' = [h EXCEPT !.resumed = @ \ {u}]
      BY <1>7, <2>2 DEF HandlerSpawnResumed
    <3>2. u \in Task /\ tasks' = tasks /\ net' = net /\ h.pc = "spawn_resumed"
      BY <1>1, <1>7 DEF HandlerSpawnResumed, HandlerType
    <3>3. h'.resumed = h.resumed \ {u} /\ h'.op = h.op /\ h'.task = h.task /\ h'.pc = h.pc
      BY <1>1, <3>1 DEF HandlerType
    <3>4. ASSUME NEW t \in Task, Served(t), tasks'[t].state = "Queued"
          PROVE  (\E q \in Runner : Serves(q, t)') \/ WillSpawn(t)'
      BY <3>1, <3>2, <3>3, <3>4, SpawnServes DEF ServingInv, Served, WillSpawn
    <3>5. QED
      BY <3>2, <3>3, <3>4 DEF HandlerRemembers, KeepsServed, Served
  <2>3. QED
    BY <2>1, <2>2
<1>8. CASE HandlerGet
  <2>1. HandlerRemembers' /\ UNCHANGED <<pc, job, net>>
    BY <1>1, <1>8 DEF ServingInv, HandlerRemembers, HandlerGet, HandlerType, HandlerAt,
       HandlerDone, IdleHandler, runners, rvars
  <2>2. ASSUME NEW t \in Task PROVE Kept(t)
    BY <1>1, <1>8 DEF ServingInv, HandlerRemembers, HandlerGet, HandlerType, HandlerAt,
       HandlerDone, IdleHandler, WillSpawn
  <2>3. QED
    BY <1>2, <2>1, <2>2
<1>9. CASE HandlerSpawn
  <2>1. PICK r \in Runner : Spawn(r, h.task)
    BY <1>9 DEF HandlerSpawn
  <2>2. /\ h.task \in Task /\ tasks' = tasks /\ net' = net /\ h.pc = "spawn"
        /\ h.resumed = {} /\ h'.pc = "idle" /\ h'.op = "none" /\ h'.resumed = {}
    BY <1>1, <1>9 DEF ServingInv, HandlerRemembers, HandlerSpawn, HandlerDone, IdleHandler,
       HandlerType
  <2>3. ASSUME NEW t \in Task, Served(t), tasks'[t].state = "Queued"
        PROVE  \E q \in Runner : Serves(q, t)'
    BY <2>1, <2>2, <2>3, SpawnServes DEF ServingInv, Served, WillSpawn
  <2>4. QED
    BY <2>2, <2>3 DEF HandlerRemembers, KeepsServed, Served
<1>10. CASE HandlerStoreFails
  <2>1. HandlerRemembers' /\ UNCHANGED <<pc, job, net>>
    BY <1>10 DEF HandlerRemembers, HandlerStoreFails, HandlerDone, IdleHandler, runners, rvars
  <2>2. ASSUME NEW t \in Task PROVE Kept(t) \/ Excused(t)
    BY <1>10 DEF HandlerStoreFails, Excused
  <2>3. QED
    BY <1>2, <2>1, <2>2
<1>11. QED
  BY <1>3, <1>4, <1>5, <1>6, <1>7, <1>8, <1>9, <1>10 DEF HandlerStep

LEMMA ClientServedStep ==
  ASSUME ServingInv, ClientRequest
  PROVE  HandlerRemembers' /\ KeepsServed
<1>1. HandlerType /\ StoreType /\ h.pc = "idle" /\ h.resumed = {} /\ h.op = "none"
  BY RequestChanges DEF ServingInv, SchedulerInv, TypeInv, HandlerRemembers
<1>2. HandlerRemembers' /\ UNCHANGED <<pc, job, net>>
  BY <1>1, RequestChanges DEF HandlerRemembers, HandlerType, runners, rvars
<1>3. ASSUME NEW t \in Task, tasks'[t].state = "Queued"
      PROVE  WillSpawn(t)' \/ (tasks[t].state = "Queued" /\ ~WillSpawn(t))
  <2> DEFINE Goal == WillSpawn(t)' \/ (tasks[t].state = "Queued" /\ ~WillSpawn(t))
  <2>1. ~WillSpawn(t)
    BY <1>1 DEF WillSpawn
  <2>2. ASSUME NEW u \in Task, NEW p \in Priority, CreateTransfer(u, p) PROVE Goal
    BY <1>1, <1>3, <2>1, <2>2 DEF CreateTransfer, Stored, WillSpawn, HandlerType, StoreType
  <2>3. ASSUME NEW u \in Task, AssistPin(u) PROVE Goal
    BY <1>1, <1>3, <2>1, <2>3 DEF AssistPin, Stored, WillSpawn, HandlerType, StoreType
  <2>4. CASE tasks' = tasks
    BY <1>3, <2>1, <2>4
  <2>5. QED
    BY <2>2, <2>3, <2>4 DEF ClientRequest, ControlTransfer, SetNodeConfig
<1>4. QED
  BY <1>2, <1>3, ServesKept DEF KeepsServed, Served

\* build_router() spawns a runner for each task that open() left in the queue.
LEMMA RestartServedStep ==
  ASSUME ServingInv, Restart
  PROVE  HandlerRemembers' /\ KeepsServed
<1>1. HandlerRemembers'
  BY DEF Restart, IdleHandler, HandlerRemembers
<1>2. PICK f \in [{t \in Task : tasks'[t].state = "Queued"} -> Runner] :
        /\ \A t, u \in DOMAIN f : t # u => f[t] # f[u]
        /\ job' = [r \in Runner |-> IF \E t \in DOMAIN f : f[t] = r
                                    THEN CHOOSE t \in DOMAIN f : f[t] = r ELSE None]
  BY DEF Restart
<1>3. ASSUME NEW t \in Task, tasks'[t].state = "Queued" PROVE Serves(f[t], t)'
  <2>1. t \in DOMAIN f /\ f[t] \in Runner
    BY <1>3
  <2>2. (CHOOSE u \in DOMAIN f : f[u] = f[t]) = t
    BY <1>2, <2>1
  <2>3. job'[f[t]] = t
    BY <1>2, <2>1, <2>2
  <2>4. t # None
    BY SystemAssumption
  <2>5. pc'[f[t]] = "sched"
    BY <2>1, <2>3, <2>4 DEF Restart
  <2>6. QED
    BY <2>3, <2>5 DEF Serves, WillStart
<1>4. QED
  BY <1>1, <1>3 DEF KeepsServed, Served

LEMMA ServedStep ==
  ASSUME ServingInv, [Next]_vars
  PROVE  ServingInv' /\ KeepsServed
<1>1. SchedulerInv'
  BY SchedulerStep DEF ServingInv
<1>2. ASSUME UNCHANGED <<tasks, pc, job, net, h>> PROVE HandlerRemembers' /\ KeepsServed
  BY <1>2 DEF ServingInv, HandlerRemembers, KeepsServed, Served, Serves, WillStart, WillSpawn
<1>3. ASSUME NEW t \in Task, SweepJudge(t) \/ SweepRemove(t)
      PROVE  HandlerRemembers' /\ KeepsServed
  BY <1>2, <1>3 DEF SweepJudge, SweepRemove, runners, rvars
<1>4. ASSUME UNCHANGED vars PROVE HandlerRemembers' /\ KeepsServed
  BY <1>2, <1>4 DEF vars, rvars
<1>5. QED
  BY <1>1, <1>3, <1>4, RunnerServedStep, HandlerServedStep, ClientServedStep,
     RestartServedStep DEF ServingInv, Next

LEMMA ServingInit == Init => ServingInv
<1> SUFFICES ASSUME Init PROVE ServingInv
  OBVIOUS
<1>1. SchedulerInv
  BY TypeInit, SystemAssumption DEF Init, SchedulerInv, Deciding
<1>2. QED
  BY <1>1 DEF Init, ServingInv, HandlerRemembers, IdleHandler

\* No task is left in the queue without a runner or a handler that will start it,
\* for every number of tasks and runners, every configuration, every interleaving of
\* requests with runners, every change of the network class and every crash: except
\* when a runner re-queues it for the network and drops the effect
\* (transfer_runner.rs:75), or the task store fails under its runner or its request.
THEOREM QueueServed == Spec => StrandedHasCause
<1>1. \A t \in Task : t \in Stranded <=> ~Served(t)
  BY DEF Stranded, Served, Serves
<1>2. (\A t \in Task : t \in Stranded <=> ~Served(t))'
  BY DEF Stranded, Served, Serves
<1>3. ServingInv /\ [Next]_vars => ServingInv' /\ KeepsServed
  BY ServedStep
<1>4. ServingInv /\ [Next]_vars =>
        [\A t \in Stranded' \ Stranded :
           \/ HandlerStoreFails /\ WillSpawn(t)
           \/ \E r \in Runner :
                \/ RunnerNetwork(r) /\ t \in net.resume
                \/ RunnerNetworkFails(r) /\ t = job[r]
                \/ RunnerStoreFails(r) /\ t = job[r]]_vars
  <2>1. \A t \in Stranded' : t \in Task
    BY DEF Stranded
  <2>2. QED
    BY <1>1, <1>2, <1>3, <2>1 DEF KeepsServed, Excused, RunnerDrops
<1>5. QED
  BY <1>3, <1>4, ServingInit, PTL DEF Spec, StrandedHasCause

-----------------------------------------------------------------------------
(* A network that stays.  When the network class does not change, what was    *)
(* paused for its sake stays barred: bytes used over a cellular network are   *)
(* never taken back.  So apply_network_class never resumes anything.          *)

\* Clients may change max_concurrent_transfers, not the class of the network.
SteadyNetwork ==
  \A c \in Config : c.network = InitialConfig.network /\ c.metered = InitialConfig.metered

Barred(t) ==
  network_restricted(t, InitialConfig) \/ cellular_quota_exceeded(t, tasks[t], InitialConfig)

NetInv ==
  /\ TypeInv
  /\ cfg.network = InitialConfig.network /\ cfg.metered = InitialConfig.metered
  /\ h.apply.resume = {} /\ net.resume = {} /\ h.resumed = {}
  /\ \A t \in Task : tasks[t].paused_by_network \/ t \in h.apply.pause \cup net.pause =>
                       Barred(t)
  /\ \A t \in Task : tasks[t].state = "Absent" => tasks[t].cellular_bytes_used = 0
  /\ \A r \in Runner : pc[r] \notin {"idle", "sched"} => tasks[job[r]].state # "Absent"

LEMMA SteadyTests ==
  ASSUME NetInv, NEW t \in Task
  PROVE  /\ network_restricted(t, cfg) <=> network_restricted(t, InitialConfig)
         /\ \A k : cellular_quota_exceeded(t, k, cfg)
                     <=> cellular_quota_exceeded(t, k, InitialConfig)
         /\ ToPause(t, tasks[t], cfg) => Barred(t)
         /\ ~ToResume(t, tasks[t], cfg)
<1>1. network_restricted(t, cfg) <=> network_restricted(t, InitialConfig)
  BY DEF NetInv, network_restricted
<1>2. \A k : cellular_quota_exceeded(t, k, cfg) <=> cellular_quota_exceeded(t, k, InitialConfig)
  BY DEF NetInv, cellular_quota_exceeded
<1>3. QED
  BY <1>1, <1>2 DEF NetInv, Barred, ToPause, ToResume

\* How a step may change the record of task t: the bytes used never shrink, and
\* the flag is set for a task on a list, or for one that reaches its limit.
Ages(t) ==
  /\ tasks'[t].cellular_bytes_used >= tasks[t].cellular_bytes_used
  /\ tasks'[t].paused_by_network =>
       \/ tasks[t].paused_by_network
       \/ t \in h.apply.pause \cup net.pause
       \/ cellular_quota_exceeded(t, tasks'[t], cfg)
  /\ tasks'[t].state = "Absent" =>
       /\ tasks[t].state = "Absent"
       /\ tasks'[t].cellular_bytes_used = tasks[t].cellular_bytes_used

\* What the transactions do to the fields of a record.
LEMMA TxFields ==
  \A k \in TaskRecord :
    /\ \A s \in TransferState : /\ TxSet(k, s).cellular_bytes_used = k.cellular_bytes_used
                                /\ TxSet(k, s).paused_by_network = k.paused_by_network
                                /\ TxSet(k, s).state # "Absent"
    /\ \A b \in BOOLEAN :
         /\ TxPausedByNetwork(k, b).cellular_bytes_used = k.cellular_bytes_used
         /\ TxPausedByNetwork(k, b).paused_by_network = b
    /\ \A p \in Priority : /\ TxPriority(k, p).cellular_bytes_used = k.cellular_bytes_used
                           /\ TxPriority(k, p).paused_by_network = k.paused_by_network
    /\ TxRetry(k).cellular_bytes_used = k.cellular_bytes_used
    /\ ~TxRetry(k).paused_by_network
    /\ TxNetworkPause(k).cellular_bytes_used = k.cellular_bytes_used
    /\ TxNetworkResume(k).cellular_bytes_used = k.cellular_bytes_used
    /\ TxProgress(k).cellular_bytes_used = k.cellular_bytes_used
    /\ TxProgress(k).paused_by_network = k.paused_by_network
    /\ TxProgress(k).state # "Absent"
    /\ TxRecover(k).cellular_bytes_used = k.cellular_bytes_used
    /\ TxRecover(k).paused_by_network = k.paused_by_network
    /\ TxRecover(k).state = "Absent" => k.state = "Absent"
BY DEF TaskRecord, TransferState, TxSet, TxPausedByNetwork, TxPriority, TxRetry,
       TxNetworkPause, TxNetworkResume, TxProgress, TxRecover, is_terminal, InFlight

LEMMA TxCellularFields ==
  ASSUME NEW t \in Task, NEW k \in TaskRecord, NEW n \in 1..ChunkBytes,
         NEW c, c.network = "cellular"
  PROVE  /\ TxCellular(t, k, n).cellular_bytes_used
              \in {k.cellular_bytes_used, k.cellular_bytes_used + n}
         /\ TxCellular(t, k, n).paused_by_network =>
              k.paused_by_network \/ cellular_quota_exceeded(t, TxCellular(t, k, n), c)
         /\ TxCellular(t, k, n).state = "Absent" => k.state = "Absent"
<1> DEFINE moved == [k EXCEPT !.cellular_bytes_used = k.cellular_bytes_used + n]
<1>1. moved \in TaskRecord
  BY DEF TaskRecord
<1>2. /\ moved.cellular_bytes_used = k.cellular_bytes_used + n
      /\ moved.paused_by_network = k.paused_by_network /\ moved.state = k.state
  BY DEF TaskRecord
<1>3. /\ TxNetworkPause(moved).cellular_bytes_used = k.cellular_bytes_used + n
      /\ TxNetworkPause(moved).state = "Paused"
  BY <1>1, <1>2, TxFields, TxNotCompleted
<1>4. CASE TxCellular(t, k, n) \in {k, moved}
  BY <1>2, <1>4
<1>5. CASE TxCellular(t, k, n) \notin {k, moved}
  <2>1. /\ TxCellular(t, k, n) = TxNetworkPause(moved)
        /\ CellularLimit[t] # NoLimit /\ k.cellular_bytes_used + n >= CellularLimit[t]
    BY <1>5 DEF TxCellular
  <2>2. QED
    BY <1>3, <2>1 DEF cellular_quota_exceeded
<1>6. QED
  BY <1>4, <1>5

LEMMA RunnerAges ==
  ASSUME NetInv, NEW r \in Runner, RunnerStep(r), NEW t \in Task
  PROVE  Ages(t)
<1>1. tasks \in [Task -> TaskRecord] /\ (pc[r] # "idle" => job[r] \in Task)
  BY DEF NetInv, TypeInv, StoreType, RunnerType
<1>2. tasks' = tasks => Ages(t)
  BY <1>1 DEF Ages, TaskRecord
<1>3. pc[r] \notin {"idle", "sched"} => tasks[job[r]].state # "Absent"
  BY DEF NetInv
<1>4. ASSUME NEW s \in TransferState, tasks' = [tasks EXCEPT ![job[r]] = TxSet(tasks[job[r]], s)],
             pc[r] \notin {"idle", "sched"}
      PROVE  Ages(t)
  <2> DEFINE k == TxSet(tasks[job[r]], s)
  <2>1. job[r] \in Task /\ tasks[job[r]] \in TaskRecord /\ k \in TaskRecord
    BY <1>1, <1>4, TxTypes
  <2>2. /\ k.cellular_bytes_used = tasks[job[r]].cellular_bytes_used
        /\ k.paused_by_network = tasks[job[r]].paused_by_network /\ k.state # "Absent"
    BY <2>1, TxFields
  <2>3. tasks[job[r]].cellular_bytes_used \in Nat
    BY <2>1 DEF TaskRecord
  <2>4. tasks' = [tasks EXCEPT ![job[r]] = k] /\ tasks[job[r]].state # "Absent"
    BY <1>3, <1>4
  <2> HIDE DEF k
  <2>5. QED
    BY <1>1, <2>1, <2>2, <2>3, <2>4 DEF Ages, TaskRecord
<1>5. ASSUME tasks' = [tasks EXCEPT ![job[r]] = TxProgress(tasks[job[r]])],
             pc[r] \notin {"idle", "sched"}
      PROVE  Ages(t)
  <2> DEFINE k == TxProgress(tasks[job[r]])
  <2>1. job[r] \in Task /\ tasks[job[r]] \in TaskRecord /\ k \in TaskRecord
    BY <1>1, <1>5, TxTypes
  <2>2. /\ k.cellular_bytes_used = tasks[job[r]].cellular_bytes_used
        /\ k.paused_by_network = tasks[job[r]].paused_by_network /\ k.state # "Absent"
    BY <2>1, TxFields
  <2>3. tasks[job[r]].cellular_bytes_used \in Nat
    BY <2>1 DEF TaskRecord
  <2>4. tasks' = [tasks EXCEPT ![job[r]] = k] /\ tasks[job[r]].state # "Absent"
    BY <1>3, <1>5
  <2> HIDE DEF k
  <2>5. QED
    BY <1>1, <2>1, <2>2, <2>3, <2>4 DEF Ages, TaskRecord
<1>6. CASE RunnerNetwork(r)
  <2>1. PICK u \in net.pause : tasks' = [tasks EXCEPT ![u] = TxNetworkPause(tasks[u])]
    BY <1>6 DEF NetInv, RunnerNetwork, Stored
  <2>2. u \in Task
    BY DEF NetInv, TypeInv, OtherType
  <2>3. QED
    BY <1>1, <2>1, <2>2, TxFields, TxNotCompleted DEF Ages, TaskRecord
<1>7. CASE RunnerMeter(r)
  <2>1. CASE cfg.network = "cellular"
    <3>1. job[r] \in Task /\ tasks[job[r]] \in TaskRecord /\ pc[r] = "meter"
      BY <1>1, <1>7 DEF RunnerMeter
    <3>2. PICK n \in 1..ChunkBytes :
            tasks' = [tasks EXCEPT ![job[r]] = TxCellular(job[r], tasks[job[r]], n)]
      BY <1>7, <2>1 DEF RunnerMeter, Stored
    <3> DEFINE k == TxCellular(job[r], tasks[job[r]], n)
    <3>3. /\ k.cellular_bytes_used \in {tasks[job[r]].cellular_bytes_used,
                                        tasks[job[r]].cellular_bytes_used + n}
          /\ k.paused_by_network => \/ tasks[job[r]].paused_by_network
                                    \/ cellular_quota_exceeded(job[r], k, cfg)
          /\ k.state = "Absent" => tasks[job[r]].state = "Absent"
      BY <2>1, <3>1, TxCellularFields
    <3>4. /\ tasks[job[r]].cellular_bytes_used \in Nat /\ n \in Nat
          /\ tasks[job[r]].state # "Absent"
          /\ k \in TaskRecord
      BY <1>3, <3>1, SystemAssumption, TxTypes DEF TaskRecord
    <3>5. tasks' = [tasks EXCEPT ![job[r]] = k]
      BY <3>2
    <3> HIDE DEF k
    <3>6. QED
      BY <1>1, <3>1, <3>3, <3>4, <3>5 DEF Ages, TaskRecord
  <2>2. CASE cfg.network # "cellular"
    BY <1>1, <1>2, <1>7, <2>2 DEF RunnerMeter, Stored
  <2>3. QED
    BY <2>1, <2>2
<1>8. CASE RunnerLock(r)
  BY <1>8, <1>2 DEF RunnerLock
<1>9. CASE RunnerWait(r)
  BY <1>9, <1>2 DEF RunnerWait
<1>10. CASE RunnerPick(r)
  BY <1>10, <1>2 DEF RunnerPick
<1>11. CASE RunnerNetworkDone(r)
  BY <1>11, <1>2 DEF RunnerNetworkDone
<1>12. CASE RunnerMarkCheck(r)
  BY <1>12, <1>2 DEF RunnerMarkCheck
<1>13. CASE RunnerMark(r)
  BY <1>13, <1>2, <1>4 DEF RunnerMark, Stored, TransferState
<1>14. CASE RunnerFetchWhole(r)
  BY <1>14, <1>2 DEF RunnerFetchWhole
<1>15. CASE RunnerFetchStream(r)
  BY <1>15, <1>2 DEF RunnerFetchStream
<1>16. CASE RunnerProgress(r)
  BY <1>16, <1>5 DEF RunnerProgress, Stored
<1>17. CASE RunnerChunk(r)
  BY <1>17, <1>2 DEF RunnerChunk
<1>18. CASE RunnerChunkError(r)
  BY <1>18, <1>2 DEF RunnerChunkError
<1>19. CASE RunnerWrite(r)
  BY <1>19, <1>2 DEF RunnerWrite
<1>20. CASE RunnerStreamEnd(r)
  BY <1>20, <1>2 DEF RunnerStreamEnd
<1>21. CASE RunnerVerifyCheck(r)
  BY <1>21, <1>2 DEF RunnerVerifyCheck
<1>22. CASE RunnerVerify(r)
  BY <1>22, <1>2, <1>4 DEF RunnerVerify, Stored, TransferState
<1>23. CASE RunnerHash(r)
  BY <1>23, <1>2, <1>4 DEF RunnerHash, Fail, Stored, TransferState
<1>24. CASE RunnerPut(r)
  BY <1>24, <1>2, <1>4 DEF RunnerPut, Fail, Stored, TransferState
<1>25. CASE RunnerCommitCheck(r)
  BY <1>25, <1>2 DEF RunnerCommitCheck
<1>26. CASE RunnerCommit(r)
  BY <1>26, <1>2, <1>4 DEF RunnerCommit, Stored, TransferState
<1>27. CASE RunnerComplete(r)
  BY <1>27, <1>2, <1>4 DEF RunnerComplete, Stored, TransferState
<1>28. CASE RunnerDestination(r)
  BY <1>28, <1>2 DEF RunnerDestination
<1>29. CASE RunnerDestinationRename(r)
  BY <1>29, <1>2 DEF RunnerDestinationRename
<1>30. CASE RunnerErrorCheck(r)
  BY <1>30, <1>2 DEF RunnerErrorCheck
<1>31. CASE RunnerFail(r)
  BY <1>31, <1>2, <1>4 DEF RunnerFail, Fail, Stored, TransferState
<1>32. CASE RunnerNetworkFails(r)
  BY <1>32, <1>2 DEF RunnerNetworkFails
<1>33. CASE RunnerFill(r)
  BY <1>33, <1>2 DEF RunnerFill
<1>34. CASE RunnerFetchFails(r)
  BY <1>34, <1>2 DEF RunnerFetchFails
<1>35. CASE RunnerRecord(r)
  BY <1>35, <1>5 DEF RunnerRecord, Stored
<1>36. CASE RunnerDiscard(r)
  BY <1>36, <1>2, <1>4 DEF RunnerDiscard, Fail, Stored, TransferState
<1>37. CASE RunnerStoreFails(r)
  BY <1>37, <1>2 DEF RunnerStoreFails
<1>38. QED
  BY <1>6, <1>7, <1>8, <1>9, <1>10, <1>11, <1>12, <1>13, <1>14, <1>15, <1>16, <1>17,
     <1>18, <1>19, <1>20, <1>21, <1>22, <1>23, <1>24, <1>25, <1>26, <1>27, <1>28,
     <1>29, <1>30, <1>31, <1>32, <1>33, <1>34, <1>35, <1>36, <1>37
     DEF RunnerStep

LEMMA HandlerAges ==
  ASSUME NetInv, HandlerStep, NEW t \in Task
  PROVE  Ages(t)
<1>1. /\ tasks \in [Task -> TaskRecord] /\ HandlerType
      /\ h.pc \in {"write", "unflag"} => h.task \in Task /\ tasks[h.task] \in TaskRecord
  BY DEF NetInv, TypeInv, StoreType, HandlerType
<1>2. tasks' = tasks => Ages(t)
  BY <1>1 DEF Ages, TaskRecord
<1>3. CASE HandlerWrite
  <2>1. ASSUME NEW s \in {"Paused", "Queued", "Cancelled"},
               tasks' = [tasks EXCEPT ![h.task] = TxSet(tasks[h.task], s)]
        PROVE  Ages(t)
    <3>1. /\ h.task \in Task /\ tasks[h.task] \in TaskRecord /\ s \in TransferState
          /\ TxSet(tasks[h.task], s).state = s
      BY <1>1, <1>3, <2>1, TxNotCompleted DEF HandlerWrite, TransferState
    <3>2. QED
      BY <1>1, <2>1, <3>1, TxFields DEF Ages, TaskRecord, TransferState
  <2>2. CASE tasks' = [tasks EXCEPT ![h.task] = TxRetry(tasks[h.task])]
    BY <1>1, <1>3, <2>2, TxFields, TxNotCompleted DEF HandlerWrite, Ages, TaskRecord
  <2>3. CASE tasks' = [tasks EXCEPT ![h.task] = TxPriority(tasks[h.task], h.priority)]
    <3>1. h.task \in Task /\ tasks[h.task] \in TaskRecord /\ h.priority \in Priority
      BY <1>1, <1>3 DEF HandlerWrite, HandlerType
    <3>2. QED
      BY <1>1, <2>3, <3>1, TxFields, TxNotCompleted DEF Ages, TaskRecord
  <2>4. QED
    BY <1>3, <2>1, <2>2, <2>3 DEF HandlerWrite, Stored
<1>4. CASE HandlerUnflag
  <2>1. /\ h.task \in Task /\ tasks[h.task] \in TaskRecord
        /\ tasks' = [tasks EXCEPT ![h.task] = TxPausedByNetwork(tasks[h.task], FALSE)]
    BY <1>1, <1>4 DEF HandlerUnflag, Stored
  <2>2. QED
    <3> DEFINE k == TxPausedByNetwork(tasks[h.task], FALSE)
    <3>1. /\ k.state = tasks[h.task].state /\ ~k.paused_by_network
          /\ k.cellular_bytes_used = tasks[h.task].cellular_bytes_used
      BY <2>1, TxFields, TxNotCompleted
    <3>2. tasks' = [tasks EXCEPT ![h.task] = k]
      BY <2>1
    <3> HIDE DEF k
    <3>3. tasks[t].cellular_bytes_used \in Nat
      BY <1>1 DEF TaskRecord
    <3>4. CASE t = h.task
      BY <1>1, <3>1, <3>2, <3>3, <3>4 DEF Ages
    <3>5. CASE t # h.task
      BY <1>1, <3>2, <3>3, <3>5 DEF Ages
    <3>6. QED
      BY <3>4, <3>5
<1>5. CASE HandlerApply
  <2>1. PICK u \in h.apply.pause : tasks' = [tasks EXCEPT ![u] = TxNetworkPause(tasks[u])]
    BY <1>5 DEF NetInv, HandlerApply, Stored
  <2>2. u \in Task /\ tasks[u] \in TaskRecord
    BY <1>1 DEF HandlerType
  <2>3. QED
    BY <1>1, <2>1, <2>2, TxFields, TxNotCompleted DEF Ages, TaskRecord
<1>6. CASE tasks' = tasks
  BY <1>2, <1>6
<1>7. QED
  BY <1>3, <1>4, <1>5, <1>6
     DEF HandlerStep, HandlerSlots, HandlerList, HandlerApplied, HandlerSpawnResumed,
         HandlerGet, HandlerSpawn, HandlerStoreFails

\* What was never created has used nothing, so that creating it takes nothing back.
LEMMA ClientAges ==
  ASSUME NetInv, ClientRequest, NEW t \in Task
  PROVE  Ages(t)
<1>1. tasks \in [Task -> TaskRecord]
  BY DEF NetInv, TypeInv, StoreType
<1>2. tasks' = tasks => Ages(t)
  BY <1>1 DEF Ages, TaskRecord
<1>3. ASSUME NEW u \in Task, NEW p \in Priority,
             tasks' = [tasks EXCEPT ![u] = IF tasks[u].state = "Absent" THEN TxCreate(p)
                                           ELSE tasks[u]]
      PROVE  Ages(t)
  <2>1. /\ TxCreate(p).state = "Queued" /\ ~TxCreate(p).paused_by_network
        /\ TxCreate(p).cellular_bytes_used = 0
    BY DEF TxCreate, AbsentTask
  <2>2. tasks[u].state = "Absent" => tasks[u].cellular_bytes_used = 0
    BY DEF NetInv
  <2>3. QED
    BY <1>1, <1>3, <2>1, <2>2 DEF Ages, TaskRecord
<1>4. QED
  BY <1>2, <1>3, TaskAssumption
     DEF ClientRequest, CreateTransfer, AssistPin, ControlTransfer, SetNodeConfig, Stored

LEMMA RestartAges ==
  ASSUME NetInv, Restart, NEW t \in Task
  PROVE  Ages(t)
<1>1. tasks[t] \in TaskRecord /\ tasks'[t] = TxRecover(tasks[t])
  BY DEF NetInv, TypeInv, StoreType, Restart
<1>2. tasks[t].cellular_bytes_used \in Nat
  BY <1>1 DEF TaskRecord
<1>3. QED
  BY <1>1, <1>2, TxFields DEF Ages

LEMMA NetAges ==
  ASSUME NetInv, [Next]_vars, NEW t \in Task
  PROVE  Ages(t)
<1>1. ASSUME tasks' = tasks PROVE Ages(t)
  BY <1>1 DEF NetInv, TypeInv, StoreType, TaskRecord, Ages
<1>2. ASSUME NEW u \in Task, SweepJudge(u) \/ SweepRemove(u) PROVE Ages(t)
  BY <1>1, <1>2 DEF SweepJudge, SweepRemove
<1>3. CASE UNCHANGED vars
  BY <1>1, <1>3 DEF vars
<1>4. QED
  BY <1>2, <1>3, RunnerAges, HandlerAges, ClientAges, RestartAges DEF Next

\* ... so a task that is barred stays barred.
LEMMA BarredStays ==
  ASSUME NetInv, NEW t \in Task, Ages(t), TypeInv', cfg'.network = InitialConfig.network
  PROVE  /\ Barred(t) => Barred(t)'
         /\ cellular_quota_exceeded(t, tasks'[t], cfg) => Barred(t)'
<1>1. /\ tasks[t].cellular_bytes_used \in Nat /\ tasks'[t].cellular_bytes_used \in Nat
      /\ CellularLimit[t] # NoLimit => CellularLimit[t] \in Nat
  BY TaskAssumption DEF NetInv, TypeInv, StoreType, TaskRecord
<1>2. QED
  BY <1>1 DEF NetInv, Ages, Barred, cellular_quota_exceeded

\* The lists of apply_network_class, and what a step adds to them.
LEMMA NetLists ==
  ASSUME NetInv, [Next]_vars
  PROVE  /\ h'.apply.resume = {} /\ net'.resume = {} /\ h'.resumed = {}
         /\ \A t \in h'.apply.pause \cup net'.pause :
              t \in h.apply.pause \cup net.pause \/ (t \in Task /\ ToPause(t, tasks[t], cfg))
<1> DEFINE Goal == /\ h'.apply.resume = {} /\ net'.resume = {} /\ h'.resumed = {}
                   /\ \A t \in h'.apply.pause \cup net'.pause :
                        \/ t \in h.apply.pause \cup net.pause
                        \/ t \in Task /\ ToPause(t, tasks[t], cfg)
<1>1. /\ HandlerType /\ TypeInv /\ h.apply.resume = {} /\ net.resume = {} /\ h.resumed = {}
      /\ \A t \in Task : ~ToResume(t, tasks[t], cfg)
  BY SteadyTests DEF NetInv, TypeInv
<1>2. ASSUME UNCHANGED <<h, net>> PROVE Goal
  BY <1>1, <1>2
<1>3. ASSUME NEW r \in Runner, RunnerStep(r) PROVE Goal
  <2>1. h' = h /\ NetworkList(r)
    BY <1>1, <1>3, RunnerAlone, RunnerNetworkList DEF Alone
  <2>2. QED
    BY <1>1, <2>1 DEF NetworkList
<1>4. CASE HandlerStep
  <2>1. net' = net
    BY <1>4 DEF HandlerStep, HandlerWrite, HandlerUnflag, HandlerSlots, HandlerList,
       HandlerApply, HandlerApplied, HandlerSpawnResumed, HandlerGet, HandlerSpawn,
       HandlerStoreFails, runners
  <2>2. ASSUME NEW label, HandlerAt(label) PROVE h'.apply = h.apply /\ h'.resumed = h.resumed
    BY <1>1, <2>2 DEF HandlerAt, HandlerType
  <2>3. ASSUME HandlerDone PROVE h'.apply = NoApply /\ h'.resumed = {}
    BY <2>3 DEF HandlerDone, IdleHandler
  <2>4. CASE HandlerList
    BY <1>1, <2>1, <2>4 DEF HandlerList, HandlerType
  <2>5. CASE HandlerApply
    BY <1>1, <2>1, <2>5 DEF HandlerApply, HandlerType
  <2>6. CASE ~HandlerList /\ ~HandlerApply
    <3>1. h'.apply \in {h.apply, NoApply} /\ h'.resumed = {}
      BY <1>1, <1>4, <2>2, <2>3, <2>6
         DEF HandlerStep, HandlerWrite, HandlerUnflag, HandlerSlots, HandlerApplied,
             HandlerSpawnResumed, HandlerGet, HandlerSpawn, HandlerStoreFails
    <3>2. QED
      BY <1>1, <2>1, <3>1 DEF NoApply
  <2>7. QED
    BY <2>4, <2>5, <2>6
<1>5. CASE ClientRequest
  <2>1. net' = net
    BY <1>5 DEF ClientRequest, CreateTransfer, AssistPin, ControlTransfer, SetNodeConfig,
       Request, runners
  <2> DEFINE Kept == h'.apply = h.apply /\ h'.resumed = h.resumed
  <2>2. ASSUME NEW t \in Task, NEW p \in Priority, CreateTransfer(t, p) PROVE Kept
    BY <1>1, <2>2 DEF CreateTransfer, HandlerType
  <2>3. ASSUME NEW t \in Task, AssistPin(t) PROVE Kept
    BY <1>1, <2>3 DEF AssistPin, HandlerType
  <2>4. ASSUME NEW op, NEW t \in Task, NEW p \in Priority, ControlTransfer(op, t, p) PROVE Kept
    BY <1>1, <2>4 DEF ControlTransfer, HandlerType
  <2>5. ASSUME NEW c \in Config, SetNodeConfig(c) PROVE Kept
    BY <1>1, <2>5 DEF SetNodeConfig, HandlerType
  <2>6. Kept
    BY <1>5, <2>2, <2>3, <2>4, <2>5 DEF ClientRequest
  <2>7. QED
    BY <1>1, <2>1, <2>6
<1>6. CASE Restart
  BY <1>6 DEF Restart, IdleHandler, NoApply
<1>7. ASSUME NEW t \in Task, SweepJudge(t) \/ SweepRemove(t) PROVE Goal
  BY <1>2, <1>7 DEF SweepJudge, SweepRemove, runners
<1>8. CASE UNCHANGED vars
  BY <1>2, <1>8 DEF vars
<1>9. QED
  BY <1>3, <1>4, <1>5, <1>6, <1>7, <1>8 DEF Next

\* A runner that holds the lock or has held it works on a task that exists.
LEMMA RunnersHaveTasks ==
  ASSUME NetInv, [Next]_vars, NEW r \in Runner, pc'[r] \notin {"idle", "sched"}
  PROVE  tasks'[job'[r]].state # "Absent"
<1>1. \A t \in Task : tasks'[t].state = "Absent" => tasks[t].state = "Absent"
  BY NetAges DEF Ages
<1>2. TypeInv /\ TypeInv'
  BY TypeStep DEF NetInv
<1>3. ASSUME pc[r] \notin {"idle", "sched"} \/ tasks[job[r]].state = "Queued",
             job'[r] = job[r]
      PROVE  tasks'[job'[r]].state # "Absent"
  BY <1>1, <1>2, <1>3 DEF NetInv, TypeInv, RunnerType
<1>4. ASSUME pc'[r] = pc[r], job'[r] = job[r] PROVE tasks'[job'[r]].state # "Absent"
  BY <1>3, <1>4
<1>5. ASSUME NEW q \in Runner, RunnerStep(q) PROVE tasks'[job'[r]].state # "Absent"
  BY <1>2, <1>3, <1>4, <1>5, RunnerAlone DEF Alone
<1>6. ASSUME NEW q \in Runner, NEW t, Spawn(q, t) PROVE tasks'[job'[r]].state # "Absent"
  BY <1>2, <1>4, <1>6 DEF Spawn, Goto, TypeInv, RunnerType
<1>7. CASE HandlerStep
  BY <1>4, <1>6, <1>7 DEF HandlerStep, HandlerWrite, HandlerUnflag, HandlerSlots,
     HandlerList, HandlerApply, HandlerApplied, HandlerSpawnResumed, HandlerGet,
     HandlerSpawn, HandlerStoreFails, runners, rvars
<1>8. CASE ClientRequest
  BY <1>4, <1>8 DEF ClientRequest, CreateTransfer, AssistPin, ControlTransfer,
     SetNodeConfig, Request, runners, rvars
<1>9. CASE Restart
  BY <1>9 DEF Restart
<1>10. ASSUME NEW t \in Task, SweepJudge(t) \/ SweepRemove(t)
       PROVE  tasks'[job'[r]].state # "Absent"
  BY <1>4, <1>10 DEF SweepJudge, SweepRemove, runners, rvars
<1>11. CASE UNCHANGED vars
  BY <1>4, <1>11 DEF vars, rvars
<1>12. QED
  BY <1>5, <1>7, <1>8, <1>9, <1>10, <1>11 DEF Next

LEMMA ConfigSteady ==
  ASSUME SteadyNetwork, NetInv, [Next]_vars
  PROVE  cfg'.network = InitialConfig.network /\ cfg'.metered = InitialConfig.metered
<1>1. TypeInv'
  BY TypeStep DEF NetInv
<1>2. QED
  BY <1>1 DEF SteadyNetwork, TypeInv, OtherType

LEMMA NetStep ==
  ASSUME SteadyNetwork, NetInv, [Next]_vars
  PROVE  NetInv'
<1>1. TypeInv' /\ cfg'.network = InitialConfig.network /\ cfg'.metered = InitialConfig.metered
  BY TypeStep, ConfigSteady DEF NetInv
<1>2. ASSUME NEW t \in Task,
             tasks'[t].paused_by_network \/ t \in h'.apply.pause \cup net'.pause
      PROVE  Barred(t)'
  <2>1. Ages(t) /\ (Barred(t) => Barred(t)')
        /\ (cellular_quota_exceeded(t, tasks'[t], cfg) => Barred(t)')
    BY <1>1, NetAges, BarredStays
  <2>2. t \in h'.apply.pause \cup net'.pause => Barred(t)
    BY NetLists, SteadyTests DEF NetInv
  <2>3. QED
    BY <1>2, <2>1, <2>2 DEF NetInv, Ages
<1>3. ASSUME NEW t \in Task, tasks'[t].state = "Absent" PROVE tasks'[t].cellular_bytes_used = 0
  BY <1>3, NetAges DEF NetInv, Ages
<1>4. QED
  BY <1>1, <1>2, <1>3, NetLists, RunnersHaveTasks DEF NetInv

LEMMA NetInit == Init => NetInv
<1> SUFFICES ASSUME Init PROVE NetInv
  OBVIOUS
<1>1. TypeInv
  BY TypeInit
<1>2. QED
  BY <1>1 DEF Init, NetInv, IdleHandler, NoApply, AbsentTask

LEMMA NetInvariance == SteadyNetwork => (Spec => []NetInv)
<1> SUFFICES ASSUME SteadyNetwork PROVE Spec => []NetInv
  OBVIOUS
<1>1. NetInv /\ [Next]_vars => NetInv'
  BY NetStep
<1>2. QED
  BY <1>1, NetInit, PTL DEF Spec

-----------------------------------------------------------------------------
(* One runner per task. *)

\* No client resumes or retries a task.
NoRequeue == Operation \cap {"resume", "retry"} = {}

-----------------------------------------------------------------------------
(* What the steps that are no runner's may change. *)

OutsideStep ==
  \/ HandlerStep \/ ClientRequest
  \/ \E t \in Task : SweepJudge(t) \/ SweepRemove(t)
  \/ UNCHANGED vars

LEMMA NextCases ==
  ASSUME [Next]_vars
  PROVE  OutsideStep \/ Restart \/ \E r \in Runner : RunnerStep(r)
BY DEF Next, OutsideStep

\* They start idle runners and leave the others where they are.
LEMMA OutsideRunners ==
  ASSUME TypeInv, OutsideStep, NEW r \in Runner
  PROVE  /\ Working(r)' <=> Working(r)
         /\ pc'[r] = pc[r] \/ (pc[r] = "idle" /\ pc'[r] = "sched")
         /\ pc[r] # "idle" => job'[r] = job[r]
         /\ source'[r] = source[r]
<1>1. CASE UNCHANGED rvars
  BY <1>1 DEF rvars, Working
<1>2. ASSUME NEW q \in Runner, NEW t, Spawn(q, t)
      PROVE  /\ UNCHANGED <<permit, source>>
             /\ pc'[r] = pc[r] \/ (pc[r] = "idle" /\ pc'[r] = "sched")
             /\ pc[r] # "idle" => job'[r] = job[r]
  BY <1>2 DEF Spawn, Goto, TypeInv, RunnerType
<1>3. CASE HandlerStep
  <2>1. CASE HandlerSlots
    BY <2>1 DEF HandlerSlots, Working, TypeInv, RunnerType
  <2>2. CASE HandlerSpawnResumed
    BY <1>1, <1>2, <2>2 DEF HandlerSpawnResumed, Working
  <2>3. CASE HandlerSpawn
    BY <1>2, <2>3 DEF HandlerSpawn, Working
  <2>4. QED
    BY <1>1, <1>3, <2>1, <2>2, <2>3
       DEF HandlerStep, HandlerWrite, HandlerUnflag, HandlerList, HandlerApply,
           HandlerApplied, HandlerGet, HandlerStoreFails, runners
<1>4. CASE ClientRequest
  BY <1>1, <1>4 DEF ClientRequest, CreateTransfer, AssistPin, ControlTransfer, SetNodeConfig,
     Request, runners
<1>5. ASSUME NEW t \in Task, SweepJudge(t)
      PROVE  UNCHANGED rvars
  BY <1>5 DEF SweepJudge, runners, rvars
<1>6. ASSUME NEW t \in Task, SweepRemove(t)
      PROVE  UNCHANGED <<pc, job, permit, source>>
  BY <1>6 DEF SweepRemove
<1>7. CASE UNCHANGED <<pc, job, permit, source>>
  BY <1>7 DEF Working
<1>8. QED
  BY <1>1, <1>3, <1>4, <1>5, <1>6, <1>7 DEF OutsideStep, vars

\* The request in progress is one that clients may send.
KnownRequest == h.op \in Operation \cup {"none"}

LEMMA KnownRequestStep ==
  ASSUME TypeInv, KnownRequest, [Next]_vars
  PROVE  KnownRequest'
<1>1. HandlerType
  BY DEF TypeInv
<1>2. CASE h' = h
  BY <1>2 DEF KnownRequest
<1>3. ASSUME NEW r \in Runner, RunnerStep(r) PROVE h' = h
  BY <1>3, RunnerAlone DEF Alone
<1>4. CASE HandlerStep
  <2>1. ASSUME NEW label, HandlerAt(label) PROVE h'.op = h.op
    BY <1>1, <2>1 DEF HandlerAt, HandlerType
  <2>2. ASSUME HandlerDone PROVE h'.op = "none"
    BY <2>2 DEF HandlerDone, IdleHandler
  <2>3. CASE HandlerList
    BY <1>1, <2>3 DEF HandlerList, HandlerType, KnownRequest
  <2>4. CASE HandlerApply
    BY <1>1, <2>4 DEF HandlerApply, HandlerType, KnownRequest
  <2>5. CASE HandlerSpawnResumed
    BY <1>1, <2>1, <2>2, <2>5 DEF HandlerSpawnResumed, HandlerType, KnownRequest
  <2>6. QED
    BY <1>4, <2>1, <2>2, <2>3, <2>4, <2>5
       DEF HandlerStep, HandlerWrite, HandlerUnflag, HandlerSlots, HandlerApplied, HandlerGet,
           HandlerSpawn, HandlerStoreFails, KnownRequest
<1>5. CASE ClientRequest
  <2>1. ASSUME NEW t \in Task, NEW p \in Priority, CreateTransfer(t, p) PROVE KnownRequest'
    BY <1>1, <2>1 DEF CreateTransfer, Request, HandlerType, KnownRequest
  <2>2. ASSUME NEW t \in Task, AssistPin(t) PROVE KnownRequest'
    BY <1>1, <2>2 DEF AssistPin, Request, HandlerType, KnownRequest
  <2>3. ASSUME NEW op, NEW t \in Task, NEW p \in Priority, ControlTransfer(op, t, p)
        PROVE  KnownRequest'
    BY <1>1, <2>3 DEF ControlTransfer, Request, HandlerType, KnownRequest
  <2>4. ASSUME NEW c \in Config, SetNodeConfig(c) PROVE KnownRequest'
    BY <1>1, <2>4 DEF SetNodeConfig, Request, HandlerType, KnownRequest
  <2>5. QED
    BY <1>5, <2>1, <2>2, <2>3, <2>4 DEF ClientRequest
<1>6. CASE Restart
  BY <1>6 DEF Restart, IdleHandler, KnownRequest
<1>7. QED
  BY <1>2, <1>3, <1>4, <1>5, <1>6 DEF Next, SweepJudge, SweepRemove, vars

\* What they write: a task is created, paused or cancelled.
OutsideState(t) ==
  \/ tasks'[t].state = tasks[t].state
  \/ tasks[t].state = "Absent" /\ tasks'[t].state = "Queued"
  \/ tasks'[t].state = "Paused" /\ (t \in h.apply.pause \/ "pause" \in Operation)
  \/ tasks'[t].state = "Cancelled" /\ "cancel" \in Operation

LEMMA OutsideStates ==
  ASSUME NoRequeue, NetInv, KnownRequest, OutsideStep, NEW t \in Task
  PROVE  OutsideState(t)
<1>1. /\ tasks \in [Task -> TaskRecord]
      /\ h.pc \in {"write", "unflag"} => h.task \in Task /\ tasks[h.task] \in TaskRecord
  BY DEF NetInv, TypeInv, StoreType, HandlerType
<1>2. CASE tasks' = tasks
  BY <1>2 DEF OutsideState
<1>3. CASE HandlerWrite
  <2>1. h.op \notin {"resume", "retry"} /\ h.op \in Operation \cup {"none"}
    BY DEF NoRequeue, KnownRequest
  <2>2. h.task \in Task /\ tasks[h.task] \in TaskRecord
    BY <1>1, <1>3 DEF HandlerWrite
  <2>3. CASE /\ h.op = "pause"
            /\ tasks' = [tasks EXCEPT ![h.task] = TxSet(tasks[h.task], "Paused")]
    BY <1>1, <2>1, <2>2, <2>3, TxNotCompleted DEF OutsideState, TransferState
  <2>4. CASE /\ h.op = "cancel"
            /\ tasks' = [tasks EXCEPT ![h.task] = TxSet(tasks[h.task], "Cancelled")]
    BY <1>1, <2>1, <2>2, <2>4, TxNotCompleted DEF OutsideState, TransferState
  <2>5. CASE tasks' = [tasks EXCEPT ![h.task] = TxPriority(tasks[h.task], h.priority)]
    <3>1. TxPriority(tasks[h.task], h.priority).state = tasks[h.task].state
      BY <2>2, TxNotCompleted DEF NetInv, TypeInv, HandlerType
    <3>2. QED
      BY <1>1, <2>2, <2>5, <3>1 DEF OutsideState
  <2>6. QED
    BY <1>3, <2>1, <2>3, <2>4, <2>5 DEF HandlerWrite, Stored
<1>4. CASE HandlerUnflag
  <2>1. h.task \in Task /\ tasks[h.task] \in TaskRecord
    BY <1>1, <1>4 DEF HandlerUnflag
  <2>2. TxPausedByNetwork(tasks[h.task], FALSE).state = tasks[h.task].state
    BY <2>1, TxNotCompleted
  <2>3. QED
    BY <1>1, <1>4, <2>1, <2>2 DEF HandlerUnflag, Stored, OutsideState
<1>5. CASE HandlerApply
  <2>1. PICK u \in h.apply.pause : tasks' = [tasks EXCEPT ![u] = TxNetworkPause(tasks[u])]
    BY <1>5 DEF NetInv, HandlerApply, Stored
  <2>2. u \in Task
    BY DEF NetInv, TypeInv, HandlerType
  <2>3. QED
    BY <1>1, <2>1, <2>2, TxNotCompleted DEF OutsideState
<1>6. CASE HandlerStep
  BY <1>2, <1>3, <1>4, <1>5, <1>6
     DEF HandlerStep, HandlerSlots, HandlerList, HandlerApplied, HandlerSpawnResumed,
         HandlerGet, HandlerSpawn, HandlerStoreFails
<1>7. CASE ClientRequest
  <2>1. ASSUME NEW u \in Task, NEW p \in Priority,
               tasks' = [tasks EXCEPT ![u] = IF tasks[u].state = "Absent" THEN TxCreate(p)
                                             ELSE tasks[u]]
        PROVE  OutsideState(t)
    BY <1>1, <2>1 DEF OutsideState, TxCreate, AbsentTask
  <2>2. QED
    BY <1>2, <1>7, <2>1, TaskAssumption
       DEF ClientRequest, CreateTransfer, AssistPin, ControlTransfer, SetNodeConfig, Stored
<1>8. QED
  BY <1>2, <1>6, <1>7 DEF OutsideStep, SweepJudge, SweepRemove, vars

-----------------------------------------------------------------------------
(* One runner per task.  A runner has a permit from the pick to the end of    *)
(* its work, and a task at work is never queued, so that the next runner that *)
(* picks finds another task.                                                  *)

WithoutPermit == {"idle", "sched", "pick", "error", "fail_write"}

Engaged(r) == Working(r) /\ ~Deciding(r)

OneInv ==
  /\ NetInv /\ SchedulerInv /\ KnownRequest
  /\ \A r \in Runner : Working(r) <=> pc[r] \notin WithoutPermit
  /\ \A r \in Runner : Engaged(r) => tasks[job[r]].state # "Queued"
  /\ OneRunnerPerTask

LEMMA RunnerWorks ==
  ASSUME TypeInv, NEW r \in Runner, Working(r) <=> pc[r] \notin WithoutPermit, RunnerStep(r)
  PROVE  /\ Working(r)' <=> pc'[r] \notin WithoutPermit
         /\ Working(r)' => \/ Working(r)
                           \/ pc[r] = "pick" /\ tasks[job[r]].state = "Queued"
         /\ Engaged(r)' => \/ Engaged(r)
                           \/ pc[r] = "mark_write" /\ tasks'[job[r]].state = "Resolving"
<1>1. CASE RunnerLock(r)
  BY <1>1
     DEF TypeInv, StoreType, RunnerType, Working, Engaged, Deciding, WithoutPermit,
         RunnerLock, Goto, ReleasePermit, Finish, Continue, files, outside
<1>2. CASE RunnerWait(r)
  BY <1>2
     DEF TypeInv, StoreType, RunnerType, Working, Engaged, Deciding, WithoutPermit,
         RunnerWait, Goto, ReleasePermit, Raise, Continue, files, outside
<1>3. CASE RunnerPick(r)
  BY <1>3
     DEF TypeInv, StoreType, RunnerType, Working, Engaged, Deciding, WithoutPermit,
         RunnerPick, Goto, files, outside, next_queued
<1>4. CASE RunnerNetwork(r)
  BY <1>4
     DEF TypeInv, StoreType, RunnerType, Working, Engaged, Deciding, WithoutPermit,
         RunnerNetwork, Stored, files, outside, rvars
<1>5. CASE RunnerNetworkDone(r)
  BY <1>5
     DEF TypeInv, StoreType, RunnerType, Working, Engaged, Deciding, WithoutPermit,
         RunnerNetworkDone, Goto, ReleasePermit, Finish, files, outside, NoApply
<1>6. CASE RunnerMarkCheck(r)
  BY <1>6
     DEF TypeInv, StoreType, RunnerType, Working, Engaged, Deciding, WithoutPermit,
         RunnerMarkCheck, Goto, ReleasePermit, Raise, Continue, files, outside
<1>7. CASE RunnerMark(r)
  BY <1>7
     DEF TypeInv, StoreType, RunnerType, Working, Engaged, Deciding, WithoutPermit,
         RunnerMark, Goto, Stored, Continue, files, outside, TxSet
<1>8. CASE RunnerFetchWhole(r)
  BY <1>8
     DEF TypeInv, StoreType, RunnerType, Working, Engaged, Deciding, WithoutPermit,
         RunnerFetchWhole, Goto, outside
<1>9. CASE RunnerFetchStream(r)
  BY <1>9
     DEF TypeInv, StoreType, RunnerType, Working, Engaged, Deciding, WithoutPermit,
         RunnerFetchStream, Goto, ReleasePermit, Raise, Continue, outside
<1>10. CASE RunnerProgress(r)
  BY <1>10
     DEF TypeInv, StoreType, RunnerType, Working, Engaged, Deciding, WithoutPermit,
         RunnerProgress, Goto, Stored, ReleasePermit, Raise, Continue, files, outside
<1>11. CASE RunnerChunk(r)
  BY <1>11
     DEF TypeInv, StoreType, RunnerType, Working, Engaged, Deciding, WithoutPermit,
         RunnerChunk, Goto, ReleasePermit, Raise, Continue, Close, files, outside
<1>12. CASE RunnerChunkError(r)
  BY <1>12
     DEF TypeInv, StoreType, RunnerType, Working, Engaged, Deciding, WithoutPermit,
         RunnerChunkError, Goto, ReleasePermit, Raise, Close, Remove, outside
<1>13. CASE RunnerWrite(r)
  BY <1>13
     DEF TypeInv, StoreType, RunnerType, Working, Engaged, Deciding, WithoutPermit,
         RunnerWrite, Goto, outside
<1>14. CASE RunnerMeter(r)
  BY <1>14
     DEF TypeInv, StoreType, RunnerType, Working, Engaged, Deciding, WithoutPermit,
         RunnerMeter, Goto, Stored, ReleasePermit, Raise, Continue, Close, files, outside
<1>15. CASE RunnerStreamEnd(r)
  BY <1>15
     DEF TypeInv, StoreType, RunnerType, Working, Engaged, Deciding, WithoutPermit,
         RunnerStreamEnd, Goto, ReleasePermit, Continue, Close, Remove, outside, Raise
<1>16. CASE RunnerVerifyCheck(r)
  BY <1>16
     DEF TypeInv, StoreType, RunnerType, Working, Engaged, Deciding, WithoutPermit,
         RunnerVerifyCheck, Goto, ReleasePermit, Raise, Continue, files, outside
<1>17. CASE RunnerVerify(r)
  BY <1>17
     DEF TypeInv, StoreType, RunnerType, Working, Engaged, Deciding, WithoutPermit,
         RunnerVerify, Goto, Stored, Continue, files, outside
<1>18. CASE RunnerHash(r)
  BY <1>18
     DEF TypeInv, StoreType, RunnerType, Working, Engaged, Deciding, WithoutPermit,
         RunnerHash, Goto, Stored, ReleasePermit, Raise, Continue, files, outside, Fail
<1>19. CASE RunnerPut(r)
  BY <1>19
     DEF TypeInv, StoreType, RunnerType, Working, Engaged, Deciding, WithoutPermit,
         RunnerPut, Goto, Stored, ReleasePermit, Raise, Continue, outside, Fail,
         PutObject
<1>20. CASE RunnerCommitCheck(r)
  BY <1>20
     DEF TypeInv, StoreType, RunnerType, Working, Engaged, Deciding, WithoutPermit,
         RunnerCommitCheck, Goto, ReleasePermit, Raise, Continue, files, outside
<1>21. CASE RunnerCommit(r)
  BY <1>21
     DEF TypeInv, StoreType, RunnerType, Working, Engaged, Deciding, WithoutPermit,
         RunnerCommit, Goto, Stored, Continue, files, outside
<1>22. CASE RunnerComplete(r)
  BY <1>22
     DEF TypeInv, StoreType, RunnerType, Working, Engaged, Deciding, WithoutPermit,
         RunnerComplete, Goto, Stored, ReleasePermit, Finish, Continue, files, outside
<1>23. CASE RunnerDestination(r)
  BY <1>23
     DEF TypeInv, StoreType, RunnerType, Working, Engaged, Deciding, WithoutPermit,
         RunnerDestination, Goto, ReleasePermit, Raise, Continue, outside
<1>24. CASE RunnerDestinationRename(r)
  BY <1>24
     DEF TypeInv, StoreType, RunnerType, Working, Engaged, Deciding, WithoutPermit,
         RunnerDestinationRename, Goto, ReleasePermit, Finish, outside
<1>25. CASE RunnerErrorCheck(r)
  BY <1>25
     DEF TypeInv, StoreType, RunnerType, Working, Engaged, Deciding, WithoutPermit,
         RunnerErrorCheck, Goto, ReleasePermit, Finish, Continue, files, outside
<1>26. CASE RunnerFail(r)
  BY <1>26
     DEF TypeInv, StoreType, RunnerType, Working, Engaged, Deciding, WithoutPermit,
         RunnerFail, Goto, Stored, ReleasePermit, Finish, files, outside, Fail
<1>27. CASE RunnerNetworkFails(r)
  BY <1>27
     DEF TypeInv, StoreType, RunnerType, Working, Engaged, Deciding, WithoutPermit,
         outside, RunnerNetworkFails, NoApply, Finish, files, ReleasePermit, Goto
<1>28. CASE RunnerFill(r)
  BY <1>28
     DEF TypeInv, StoreType, RunnerType, Working, Engaged, Deciding, WithoutPermit,
         outside, RunnerFill, Close, Continue, Goto
<1>29. CASE RunnerFetchFails(r)
  BY <1>29
     DEF TypeInv, StoreType, RunnerType, Working, Engaged, Deciding, WithoutPermit,
         outside, RunnerFetchFails, Raise, files, ReleasePermit, Goto
<1>30. CASE RunnerRecord(r)
  BY <1>30
     DEF TypeInv, StoreType, RunnerType, Working, Engaged, Deciding, WithoutPermit,
         outside, RunnerRecord, Stored, Raise, Close, Continue, files, ReleasePermit,
         Goto
<1>31. CASE RunnerDiscard(r)
  BY <1>31
     DEF TypeInv, StoreType, RunnerType, Working, Engaged, Deciding, WithoutPermit,
         outside, RunnerDiscard, Fail, Stored, Finish, files, ReleasePermit, Goto
<1>32. CASE RunnerStoreFails(r)
  BY <1>32
     DEF TypeInv, StoreType, RunnerType, Working, Engaged, Deciding, WithoutPermit,
         outside, RunnerStoreFails, Raise, Close, files, ReleasePermit, Goto
<1>33. QED
  BY <1>1, <1>2, <1>3, <1>4, <1>5, <1>6, <1>7, <1>8, <1>9, <1>10, <1>11, <1>12,
     <1>13, <1>14, <1>15, <1>16, <1>17, <1>18, <1>19, <1>20, <1>21, <1>22, <1>23,
     <1>24, <1>25, <1>26, <1>27, <1>28, <1>29, <1>30, <1>31, <1>32
     DEF RunnerStep

LEMMA RunnerOneStep ==
  ASSUME OneInv, NEW r \in Runner, RunnerStep(r)
  PROVE  /\ \A q \in Runner : Working(q)' <=> pc'[q] \notin WithoutPermit
         /\ \A q \in Runner : Engaged(q)' => tasks'[job'[q]].state # "Queued"
         /\ OneRunnerPerTask'
<1>1. TypeInv /\ Alone(r) /\ net.resume = {}
  BY RunnerAlone DEF OneInv, NetInv
<1>2. /\ Working(r)' <=> pc'[r] \notin WithoutPermit
      /\ Working(r)' => Working(r) \/ (pc[r] = "pick" /\ tasks[job[r]].state = "Queued")
      /\ Engaged(r)' => Engaged(r) \/ tasks'[job[r]].state = "Resolving"
  BY <1>1, RunnerWorks DEF OneInv
<1>3. ASSUME NEW q \in Runner, q # r
      PROVE  /\ pc'[q] = pc[q] /\ job'[q] = job[q]
             /\ Working(q)' <=> Working(q)
             /\ Engaged(q)' <=> Engaged(q)
  BY <1>1, <1>3 DEF Alone, Working, Engaged, Deciding
<1>4. \A q \in Runner : Working(q)' <=> pc'[q] \notin WithoutPermit
  BY <1>2, <1>3 DEF OneInv
<1>5. \A q \in Runner : Working(q) => job[q] \in Task
  BY <1>1 DEF OneInv, WithoutPermit, TypeInv, RunnerType
<1>6. \A t \in Task : tasks'[t].state = "Queued" => tasks[t].state = "Queued"
  BY <1>1, RunnerStates DEF StateWritten
<1>7. ASSUME NEW q \in Runner, Engaged(q)' PROVE tasks'[job'[q]].state # "Queued"
  <2>1. CASE q = r
    <3>1. job'[r] = job[r]
      BY <1>1, <1>2, <1>7, <2>1 DEF Alone, Engaged, WithoutPermit
    <3>2. QED
      BY <1>2, <1>5, <1>6, <1>7, <2>1, <3>1 DEF OneInv, Engaged
  <2>2. CASE q # r
    BY <1>3, <1>5, <1>6, <1>7, <2>2 DEF OneInv, Engaged
  <2>3. QED
    BY <2>1, <2>2
<1>8. ASSUME NEW q \in Runner, q # r, Working(q)', Working(r)' PROVE job'[q] # job'[r]
  <2>1. Working(q) /\ job'[q] = job[q] /\ job'[r] = job[r]
    BY <1>1, <1>2, <1>3, <1>8 DEF Alone, WithoutPermit
  <2>2. CASE Working(r)
    BY <1>8, <2>1, <2>2 DEF OneInv, OneRunnerPerTask
  <2>3. CASE pc[r] = "pick" /\ tasks[job[r]].state = "Queued"
    <3>1. Engaged(q)
      BY <1>8, <2>1, <2>3 DEF OneInv, SchedulerInv, Deciding, Engaged
    <3>2. QED
      BY <2>1, <2>3, <3>1 DEF OneInv
  <2>4. QED
    BY <1>2, <1>8, <2>2, <2>3
<1>9. OneRunnerPerTask'
  BY <1>3, <1>8 DEF OneInv, OneRunnerPerTask
<1>10. QED
  BY <1>4, <1>7, <1>9

LEMMA OutsideOneStep ==
  ASSUME NoRequeue, OneInv, OutsideStep
  PROVE  /\ \A q \in Runner : Working(q)' <=> pc'[q] \notin WithoutPermit
         /\ \A q \in Runner : Engaged(q)' => tasks'[job'[q]].state # "Queued"
         /\ OneRunnerPerTask'
<1>1. TypeInv
  BY DEF OneInv, NetInv
<1>2. ASSUME NEW q \in Runner
      PROVE  /\ Working(q)' <=> Working(q)
             /\ pc'[q] = pc[q] \/ (pc[q] = "idle" /\ pc'[q] = "sched")
             /\ Working(q) => job'[q] = job[q] /\ job[q] \in Task /\ pc'[q] = pc[q]
  BY <1>1, OutsideRunners DEF OneInv, WithoutPermit, TypeInv, RunnerType
<1>3. \A q \in Runner : Working(q)' <=> pc'[q] \notin WithoutPermit
  BY <1>2 DEF OneInv, WithoutPermit
<1>4. ASSUME NEW q \in Runner, Engaged(q)' PROVE tasks'[job'[q]].state # "Queued"
  <2>1. Engaged(q) /\ job'[q] = job[q] /\ job[q] \in Task
    BY <1>2, <1>4 DEF Engaged, Deciding
  <2>2. tasks[job[q]].state \notin {"Queued", "Absent"}
    BY <2>1 DEF OneInv, NetInv, Engaged, WithoutPermit
  <2>3. QED
    BY <2>1, <2>2, OutsideStates DEF OneInv, OutsideState
<1>5. OneRunnerPerTask'
  BY <1>2 DEF OneInv, OneRunnerPerTask
<1>6. QED
  BY <1>3, <1>4, <1>5

LEMMA OneStep ==
  ASSUME SteadyNetwork, NoRequeue, OneInv, [Next]_vars
  PROVE  OneInv'
<1>1. (NetInv /\ SchedulerInv /\ KnownRequest)'
  BY NetStep, SchedulerStep, KnownRequestStep DEF OneInv, NetInv
<1>2. CASE Restart
  <2>1. \A q \in Runner : permit'[q] = "none" /\ pc'[q] \in {"idle", "sched"}
    BY <1>2 DEF Restart
  <2>2. QED
    BY <1>1, <2>1 DEF OneInv, Working, Engaged, WithoutPermit, OneRunnerPerTask
<1>3. QED
  BY <1>1, <1>2, NextCases, RunnerOneStep, OutsideOneStep DEF OneInv

LEMMA OneInit == Init => OneInv
<1> SUFFICES ASSUME Init PROVE OneInv
  OBVIOUS
<1>1. NetInv /\ SchedulerInv
  BY NetInit, TypeInit, SystemAssumption DEF Init, SchedulerInv, Deciding
<1>2. QED
  BY <1>1 DEF Init, OneInv, KnownRequest, IdleHandler, Working, Engaged, WithoutPermit,
     OneRunnerPerTask

\* However many runners a replayed create, a pause, a cancel, a crash or a change of
\* max_concurrent_transfers leaves behind, no two of them work on one task.
THEOREM OneRunner ==
  ASSUME SteadyNetwork, NoRequeue
  PROVE  Spec => []OneRunnerPerTask
<1>1. OneInv /\ [Next]_vars => OneInv'
  BY OneStep
<1>2. OneInv => OneRunnerPerTask
  BY DEF OneInv
<1>3. QED
  BY <1>1, <1>2, OneInit, PTL DEF Spec

-----------------------------------------------------------------------------
(* A completed task is intact.  Between the hash and the copy the part file   *)
(* belongs to its one runner; the sweep can only take it away.                *)

IntactInv ==
  /\ OneInv /\ StoredInv
  /\ \A t \in Task : object[t] # "corrupt"
  /\ \A r \in Runner : pc[r] = "put" =>
       source[r] = "memory" \/ part[job[r]] \in {Full, NoFile}

LEMMA RunnerFiles ==
  ASSUME TypeInv, NEW r \in Runner, RunnerStep(r),
         pc[r] = "put" => source[r] = "memory" \/ part[job[r]] \in {Full, NoFile}
  PROVE  /\ \A t \in Task : object'[t] = "corrupt" => object[t] = "corrupt"
         /\ pc'[r] = "put" => source'[r] = "memory" \/ part'[job'[r]] \in {Full, NoFile}
         /\ \A t \in Task : \/ part'[t] = part[t]
                            \/ part'[t] \in {Full, NoFile}
                            \/ t = job[r] /\ pc[r] \in {"fetch", "write"}
<1>1. CASE RunnerLock(r)
  BY <1>1
     DEF TypeInv, FileType, RunnerType, RunnerLock, Goto, ReleasePermit, Finish,
         Continue, files, outside
<1>2. CASE RunnerWait(r)
  BY <1>2
     DEF TypeInv, FileType, RunnerType, RunnerWait, Goto, ReleasePermit, Raise, Continue,
         files, outside
<1>3. CASE RunnerPick(r)
  BY <1>3 DEF TypeInv, FileType, RunnerType, RunnerPick, Goto, files, outside
<1>4. CASE RunnerNetwork(r)
  BY <1>4 DEF TypeInv, FileType, RunnerType, RunnerNetwork, Stored, files, outside, rvars
<1>5. CASE RunnerNetworkDone(r)
  BY <1>5
     DEF TypeInv, FileType, RunnerType, RunnerNetworkDone, Goto, ReleasePermit, Finish,
         files, outside, NoApply
<1>6. CASE RunnerMarkCheck(r)
  BY <1>6
     DEF TypeInv, FileType, RunnerType, RunnerMarkCheck, Goto, ReleasePermit, Raise,
         Continue, files, outside
<1>7. CASE RunnerMark(r)
  BY <1>7
     DEF TypeInv, FileType, RunnerType, RunnerMark, Goto, Stored, Continue, files,
         outside
<1>8. CASE RunnerFetchWhole(r)
  BY <1>8 DEF TypeInv, FileType, RunnerType, RunnerFetchWhole, Goto, outside, Empty
<1>9. CASE RunnerFetchStream(r)
  BY <1>9
     DEF TypeInv, FileType, RunnerType, RunnerFetchStream, Goto, ReleasePermit, Raise,
         Continue, outside
<1>10. CASE RunnerProgress(r)
  BY <1>10
     DEF TypeInv, FileType, RunnerType, RunnerProgress, Goto, Stored, ReleasePermit,
         Raise, Continue, files, outside
<1>11. CASE RunnerChunk(r)
  BY <1>11
     DEF TypeInv, FileType, RunnerType, RunnerChunk, Goto, ReleasePermit, Raise,
         Continue, Close, files, outside
<1>12. CASE RunnerChunkError(r)
  BY <1>12
     DEF TypeInv, FileType, RunnerType, RunnerChunkError, Goto, ReleasePermit, Raise,
         Close, Remove, outside
<1>13. CASE RunnerWrite(r)
  BY <1>13 DEF TypeInv, FileType, RunnerType, RunnerWrite, Goto, outside
<1>14. CASE RunnerMeter(r)
  BY <1>14
     DEF TypeInv, FileType, RunnerType, RunnerMeter, Goto, Stored, ReleasePermit, Raise,
         Continue, Close, files, outside
<1>15. CASE RunnerStreamEnd(r)
  BY <1>15
     DEF TypeInv, FileType, RunnerType, RunnerStreamEnd, Goto, ReleasePermit, Continue,
         Close, Remove, outside, Raise
<1>16. CASE RunnerVerifyCheck(r)
  BY <1>16
     DEF TypeInv, FileType, RunnerType, RunnerVerifyCheck, Goto, ReleasePermit, Raise,
         Continue, files, outside
<1>17. CASE RunnerVerify(r)
  BY <1>17
     DEF TypeInv, FileType, RunnerType, RunnerVerify, Goto, Stored, Continue, files,
         outside
<1>18. CASE RunnerHash(r)
  BY <1>18
     DEF TypeInv, FileType, RunnerType, RunnerHash, Goto, Stored, ReleasePermit, Raise,
         Continue, files, outside, Fail
<1>19. CASE RunnerPut(r)
  BY <1>19
     DEF TypeInv, FileType, RunnerType, RunnerPut, Goto, Stored, ReleasePermit, Raise,
         Continue, outside, Fail, PutObject
<1>20. CASE RunnerCommitCheck(r)
  BY <1>20
     DEF TypeInv, FileType, RunnerType, RunnerCommitCheck, Goto, ReleasePermit, Raise,
         Continue, files, outside
<1>21. CASE RunnerCommit(r)
  BY <1>21
     DEF TypeInv, FileType, RunnerType, RunnerCommit, Goto, Stored, Continue, files,
         outside
<1>22. CASE RunnerComplete(r)
  BY <1>22
     DEF TypeInv, FileType, RunnerType, RunnerComplete, Goto, Stored, ReleasePermit,
         Finish, Continue, files, outside
<1>23. CASE RunnerDestination(r)
  BY <1>23
     DEF TypeInv, FileType, RunnerType, RunnerDestination, Goto, ReleasePermit, Raise,
         Continue, outside
<1>24. CASE RunnerDestinationRename(r)
  BY <1>24
     DEF TypeInv, FileType, RunnerType, RunnerDestinationRename, Goto, ReleasePermit,
         Finish, outside
<1>25. CASE RunnerErrorCheck(r)
  BY <1>25
     DEF TypeInv, FileType, RunnerType, RunnerErrorCheck, Goto, ReleasePermit, Finish,
         Continue, files, outside
<1>26. CASE RunnerFail(r)
  BY <1>26
     DEF TypeInv, FileType, RunnerType, RunnerFail, Goto, Stored, ReleasePermit, Finish,
         files, outside, Fail
<1>27. CASE RunnerNetworkFails(r)
  BY <1>27
     DEF TypeInv, FileType, RunnerType, outside, RunnerNetworkFails, NoApply, Finish,
         files, ReleasePermit, Goto
<1>28. CASE RunnerFill(r)
  BY <1>28
     DEF TypeInv, FileType, RunnerType, outside, RunnerFill, Close, Continue, Full, Goto
<1>29. CASE RunnerFetchFails(r)
  BY <1>29
     DEF TypeInv, FileType, RunnerType, outside, RunnerFetchFails, Raise, files,
         ReleasePermit, Goto
<1>30. CASE RunnerRecord(r)
  BY <1>30
     DEF TypeInv, FileType, RunnerType, outside, RunnerRecord, Stored, Raise, Close,
         Continue, files, ReleasePermit, Goto
<1>31. CASE RunnerDiscard(r)
  BY <1>31
     DEF TypeInv, FileType, RunnerType, outside, RunnerDiscard, Fail, Stored, Finish,
         files, ReleasePermit, Goto
<1>32. CASE RunnerStoreFails(r)
  BY <1>32
     DEF TypeInv, FileType, RunnerType, outside, RunnerStoreFails, Raise, Close, files,
         ReleasePermit, Goto
<1>33. QED
  BY <1>1, <1>2, <1>3, <1>4, <1>5, <1>6, <1>7, <1>8, <1>9, <1>10, <1>11, <1>12,
     <1>13, <1>14, <1>15, <1>16, <1>17, <1>18, <1>19, <1>20, <1>21, <1>22, <1>23,
     <1>24, <1>25, <1>26, <1>27, <1>28, <1>29, <1>30, <1>31, <1>32
     DEF RunnerStep

LEMMA IntactStep ==
  ASSUME SteadyNetwork, NoRequeue, IntactInv, [Next]_vars
  PROVE  IntactInv'
<1>1. OneInv' /\ StoredInv' /\ TypeInv
  BY OneStep, StoredStep DEF IntactInv, StoredInv
<1>2. ASSUME NEW r \in Runner, RunnerStep(r) PROVE IntactInv'
  <2>1. /\ \A t \in Task : object'[t] = "corrupt" => object[t] = "corrupt"
        /\ pc'[r] = "put" => source'[r] = "memory" \/ part'[job'[r]] \in {Full, NoFile}
        /\ \A t \in Task : \/ part'[t] = part[t]
                           \/ part'[t] \in {Full, NoFile}
                           \/ t = job[r] /\ pc[r] \in {"fetch", "write"}
    BY <1>1, <1>2, RunnerFiles DEF IntactInv
  <2>2. ASSUME NEW q \in Runner, q # r, pc'[q] = "put"
        PROVE  source'[q] = "memory" \/ part'[job'[q]] \in {Full, NoFile}
    <3>1. pc[q] = "put" /\ job'[q] = job[q] /\ source'[q] = source[q] /\ job[q] \in Task
      BY <1>1, <1>2, <2>2, RunnerAlone DEF Alone, TypeInv, RunnerType
    <3>2. job[q] = job[r] => pc[r] \notin {"fetch", "write"}
      BY <2>2, <3>1 DEF IntactInv, OneInv, WithoutPermit, OneRunnerPerTask
    <3>3. QED
      BY <2>1, <3>1, <3>2 DEF IntactInv
  <2>3. QED
    BY <1>1, <2>1, <2>2 DEF IntactInv
<1>3. CASE OutsideStep
  <2>1. object' = object
    BY <1>3 DEF OutsideStep, HandlerStep, HandlerWrite, HandlerUnflag, HandlerSlots,
       HandlerList, HandlerApply, HandlerApplied, HandlerSpawnResumed, HandlerGet,
       HandlerSpawn, HandlerStoreFails, ClientRequest, CreateTransfer, AssistPin,
       ControlTransfer, SetNodeConfig, Request, SweepJudge, SweepRemove, files, vars
  <2>2. \A t \in Task : part'[t] = part[t] \/ part'[t] = NoFile
    <3>1. ASSUME NEW u \in Task, SweepRemove(u)
          PROVE  \A t \in Task : part'[t] = part[t] \/ part'[t] = NoFile
      BY <1>1, <3>1 DEF SweepRemove, Remove, TypeInv, FileType
    <3>2. CASE part' = part
      BY <3>2
    <3>3. QED
      BY <1>3, <3>1, <3>2 DEF OutsideStep, HandlerStep, HandlerWrite, HandlerUnflag,
         HandlerSlots, HandlerList, HandlerApply, HandlerApplied, HandlerSpawnResumed,
         HandlerGet, HandlerSpawn, HandlerStoreFails, ClientRequest, CreateTransfer, AssistPin,
         ControlTransfer, SetNodeConfig, Request, SweepJudge, files, vars
  <2>3. \A q \in Runner : pc'[q] = "put" =>
          pc[q] = "put" /\ job'[q] = job[q] /\ source'[q] = source[q] /\ job[q] \in Task
    BY <1>1, <1>3, OutsideRunners DEF TypeInv, RunnerType
  <2>4. QED
    BY <1>1, <2>1, <2>2, <2>3 DEF IntactInv
<1>4. CASE Restart
  <2>1. \A q \in Runner : pc'[q] # "put"
    BY <1>4 DEF Restart
  <2>2. QED
    BY <1>1, <1>4, <2>1 DEF IntactInv, Restart
<1>5. QED
  BY <1>2, <1>3, <1>4, NextCases

\* DST-008: what a completed task left in the repository is its content.  TLC shows
\* the run that breaks it once a resume gives the task a second runner.
THEOREM CompletedIntact ==
  ASSUME SteadyNetwork, NoRequeue
  PROVE  Spec => []CompletedIsIntact
<1>1. Init => IntactInv
  <2>1. Init => StoredInv
    BY TypeInit DEF Init, StoredInv, CompletedIsStored, HasStored, AbsentTask
  <2>2. QED
    BY <2>1, OneInit DEF Init, IntactInv
<1>2. IntactInv /\ [Next]_vars => IntactInv'
  BY IntactStep
<1>3. IntactInv => CompletedIsIntact
  BY DEF IntactInv, StoredInv, CompletedIsStored, CompletedIsIntact, TypeInv, FileType
<1>4. QED
  BY <1>1, <1>2, <1>3, PTL DEF Spec

-----------------------------------------------------------------------------
(* The cellular limit.  The chunk that reaches it pauses the task and ends    *)
(* its one runner, and nothing starts another.                               *)

\* A limit of zero is left out: the handler that creates such a task pauses it, but
\* after a crash between the two its runner starts, and counts a chunk.
AtLimit(t) ==
  CellularLimit[t] \notin {NoLimit, 0} /\ tasks[t].cellular_bytes_used >= CellularLimit[t]

LimitInv ==
  /\ OneInv
  /\ CellularWithinOneChunk
  /\ \A t \in Task : AtLimit(t) =>
       /\ tasks[t].state \notin InFlight \cup {"Queued"}
       /\ \A r \in Runner : job[r] = t => ~Working(r)

\* The bytes used over a cellular network are counted by the task's runner only.
BytesWritten(r, t) ==
  \/ tasks'[t].cellular_bytes_used = tasks[t].cellular_bytes_used
  \/ /\ t = job[r] /\ pc[r] = "meter"
     /\ \E n \in 1..ChunkBytes :
          tasks'[t].cellular_bytes_used = tasks[t].cellular_bytes_used + n
     /\ CellularLimit[t] # NoLimit /\ tasks'[t].cellular_bytes_used >= CellularLimit[t] =>
          tasks'[t].state = "Paused" /\ pc'[r] = "error"

LEMMA TxCellularStops ==
  ASSUME NEW t \in Task, NEW k \in TaskRecord, NEW n \in 1..ChunkBytes
  PROVE  \/ TxCellular(t, k, n).cellular_bytes_used = k.cellular_bytes_used
         \/ /\ TxCellular(t, k, n).cellular_bytes_used = k.cellular_bytes_used + n
            /\ CellularLimit[t] # NoLimit
                 /\ TxCellular(t, k, n).cellular_bytes_used >= CellularLimit[t] =>
                 TxCellular(t, k, n).state = "Paused"
<1> DEFINE moved == [k EXCEPT !.cellular_bytes_used = k.cellular_bytes_used + n]
<1>1. moved \in TaskRecord /\ moved.cellular_bytes_used = k.cellular_bytes_used + n
  BY DEF TaskRecord
<1>2. /\ TxNetworkPause(moved).cellular_bytes_used = k.cellular_bytes_used + n
      /\ TxNetworkPause(moved).state = "Paused"
  BY <1>1, TxFields, TxNotCompleted
<1>3. \/ TxCellular(t, k, n) = k
      \/ TxCellular(t, k, n) = TxNetworkPause(moved)
      \/ /\ TxCellular(t, k, n) = moved
         /\ ~(CellularLimit[t] # NoLimit /\ k.cellular_bytes_used + n >= CellularLimit[t])
  BY DEF TxCellular
<1>4. QED
  BY <1>1, <1>2, <1>3

LEMMA RunnerBytes ==
  ASSUME TypeInv, NEW r \in Runner, RunnerStep(r), NEW t \in Task
  PROVE  BytesWritten(r, t)
<1>1. CASE RunnerLock(r)
  BY <1>1 DEF BytesWritten, RunnerLock
<1>2. CASE RunnerWait(r)
  BY <1>2 DEF BytesWritten, RunnerWait
<1>3. CASE RunnerPick(r)
  BY <1>3 DEF BytesWritten, RunnerPick
<1>4. CASE RunnerNetwork(r)
  <2>1. PICK u \in Task : \/ tasks' = [tasks EXCEPT ![u] = TxNetworkPause(tasks[u])]
                          \/ tasks' = [tasks EXCEPT ![u] = TxNetworkResume(tasks[u])]
    BY <1>4 DEF RunnerNetwork, Stored, TypeInv, OtherType
  <2>2. QED
    BY <2>1, TxFields DEF TypeInv, StoreType, BytesWritten
<1>5. CASE RunnerNetworkDone(r)
  BY <1>5 DEF BytesWritten, RunnerNetworkDone
<1>6. CASE RunnerMarkCheck(r)
  BY <1>6 DEF BytesWritten, RunnerMarkCheck
<1>7. CASE RunnerMark(r)
  BY <1>7, TxFields
     DEF TypeInv, StoreType, RunnerType, TransferState, BytesWritten, RunnerMark, Stored
<1>8. CASE RunnerFetchWhole(r)
  BY <1>8 DEF BytesWritten, RunnerFetchWhole
<1>9. CASE RunnerFetchStream(r)
  BY <1>9 DEF BytesWritten, RunnerFetchStream
<1>10. CASE RunnerProgress(r)
  BY <1>10, TxFields
     DEF TypeInv, StoreType, RunnerType, TransferState, BytesWritten, RunnerProgress,
         Stored
<1>11. CASE RunnerChunk(r)
  BY <1>11 DEF BytesWritten, RunnerChunk
<1>12. CASE RunnerChunkError(r)
  BY <1>12 DEF BytesWritten, RunnerChunkError
<1>13. CASE RunnerWrite(r)
  BY <1>13 DEF BytesWritten, RunnerWrite
<1>14. CASE RunnerMeter(r)
  <2>1. job[r] \in Task /\ tasks[job[r]] \in TaskRecord /\ pc[r] = "meter"
    BY <1>14 DEF RunnerMeter, TypeInv, StoreType, RunnerType
  <2>2. CASE cfg.network = "cellular"
    <3>1. PICK n \in 1..ChunkBytes :
            LET k == TxCellular(job[r], tasks[job[r]], n)
            IN  tasks' = [tasks EXCEPT ![job[r]] = k] /\ (k.state = "Paused" => pc'[r] = "error")
      BY <1>14, <2>2 DEF RunnerMeter, Stored, Raise, Goto, TypeInv, RunnerType
    <3> DEFINE k == TxCellular(job[r], tasks[job[r]], n)
    <3>2. \/ k.cellular_bytes_used = tasks[job[r]].cellular_bytes_used
          \/ /\ k.cellular_bytes_used = tasks[job[r]].cellular_bytes_used + n
             /\ CellularLimit[job[r]] # NoLimit
                  /\ k.cellular_bytes_used >= CellularLimit[job[r]] => k.state = "Paused"
      BY <2>1, TxCellularStops
    <3>3. tasks' = [tasks EXCEPT ![job[r]] = k] /\ (k.state = "Paused" => pc'[r] = "error")
      BY <3>1
    <3> HIDE DEF k
    <3>4. QED
      BY <2>1, <3>2, <3>3 DEF TypeInv, StoreType, BytesWritten
  <2>3. CASE cfg.network # "cellular"
    BY <1>14, <2>1, <2>3 DEF RunnerMeter, Stored, TypeInv, StoreType, BytesWritten
  <2>4. QED
    BY <2>2, <2>3
<1>15. CASE RunnerStreamEnd(r)
  BY <1>15 DEF BytesWritten, RunnerStreamEnd
<1>16. CASE RunnerVerifyCheck(r)
  BY <1>16 DEF BytesWritten, RunnerVerifyCheck
<1>17. CASE RunnerVerify(r)
  BY <1>17, TxFields
     DEF TypeInv, StoreType, RunnerType, TransferState, BytesWritten, RunnerVerify,
         Stored
<1>18. CASE RunnerHash(r)
  BY <1>18, TxFields
     DEF TypeInv, StoreType, RunnerType, TransferState, BytesWritten, RunnerHash,
         Stored, Fail
<1>19. CASE RunnerPut(r)
  BY <1>19, TxFields
     DEF TypeInv, StoreType, RunnerType, TransferState, BytesWritten, RunnerPut, Stored,
         Fail
<1>20. CASE RunnerCommitCheck(r)
  BY <1>20 DEF BytesWritten, RunnerCommitCheck
<1>21. CASE RunnerCommit(r)
  BY <1>21, TxFields
     DEF TypeInv, StoreType, RunnerType, TransferState, BytesWritten, RunnerCommit,
         Stored
<1>22. CASE RunnerComplete(r)
  BY <1>22, TxFields
     DEF TypeInv, StoreType, RunnerType, TransferState, BytesWritten, RunnerComplete,
         Stored
<1>23. CASE RunnerDestination(r)
  BY <1>23 DEF BytesWritten, RunnerDestination
<1>24. CASE RunnerDestinationRename(r)
  BY <1>24 DEF BytesWritten, RunnerDestinationRename
<1>25. CASE RunnerErrorCheck(r)
  BY <1>25 DEF BytesWritten, RunnerErrorCheck
<1>26. CASE RunnerFail(r)
  BY <1>26, TxFields
     DEF TypeInv, StoreType, RunnerType, TransferState, BytesWritten, RunnerFail,
         Stored, Fail
<1>27. CASE RunnerNetworkFails(r)
  BY <1>27 DEF BytesWritten, RunnerNetworkFails
<1>28. CASE RunnerFill(r)
  BY <1>28 DEF BytesWritten, RunnerFill
<1>29. CASE RunnerFetchFails(r)
  BY <1>29 DEF BytesWritten, RunnerFetchFails
<1>30. CASE RunnerRecord(r)
  BY <1>30, TxFields
     DEF TypeInv, StoreType, RunnerType, TransferState, BytesWritten, RunnerRecord,
         Stored
<1>31. CASE RunnerDiscard(r)
  BY <1>31, TxFields
     DEF TypeInv, StoreType, RunnerType, TransferState, BytesWritten, RunnerDiscard,
         Fail, Stored
<1>32. CASE RunnerStoreFails(r)
  BY <1>32 DEF BytesWritten, RunnerStoreFails
<1>33. QED
  BY <1>1, <1>2, <1>3, <1>4, <1>5, <1>6, <1>7, <1>8, <1>9, <1>10, <1>11, <1>12,
     <1>13, <1>14, <1>15, <1>16, <1>17, <1>18, <1>19, <1>20, <1>21, <1>22, <1>23,
     <1>24, <1>25, <1>26, <1>27, <1>28, <1>29, <1>30, <1>31, <1>32
     DEF RunnerStep

LEMMA OutsideBytes ==
  ASSUME NetInv, OutsideStep, NEW t \in Task
  PROVE  tasks'[t].cellular_bytes_used = tasks[t].cellular_bytes_used
<1> DEFINE Same == tasks'[t].cellular_bytes_used = tasks[t].cellular_bytes_used
<1>1. /\ tasks \in [Task -> TaskRecord]
      /\ h.pc \in {"write", "unflag"} => h.task \in Task /\ tasks[h.task] \in TaskRecord
  BY DEF NetInv, TypeInv, StoreType, HandlerType
<1>2. CASE tasks' = tasks
  BY <1>2
<1>3. CASE HandlerWrite
  <2>1. h.task \in Task /\ tasks[h.task] \in TaskRecord /\ h.priority \in Priority
    BY <1>1, <1>3 DEF HandlerWrite, NetInv, TypeInv, HandlerType
  <2>2. \A s \in {"Paused", "Queued", "Cancelled"} :
          TxSet(tasks[h.task], s).cellular_bytes_used = tasks[h.task].cellular_bytes_used
    BY <2>1, TxFields DEF TransferState
  <2>3. /\ TxRetry(tasks[h.task]).cellular_bytes_used = tasks[h.task].cellular_bytes_used
        /\ TxPriority(tasks[h.task], h.priority).cellular_bytes_used
             = tasks[h.task].cellular_bytes_used
    BY <2>1, TxFields
  <2>4. QED
    BY <1>1, <1>3, <2>1, <2>2, <2>3 DEF HandlerWrite, Stored
<1>4. CASE HandlerUnflag
  <2>1. h.task \in Task /\ tasks[h.task] \in TaskRecord
    BY <1>1, <1>4 DEF HandlerUnflag
  <2>2. TxPausedByNetwork(tasks[h.task], FALSE).cellular_bytes_used
          = tasks[h.task].cellular_bytes_used
    BY <2>1, TxFields
  <2>3. QED
    BY <1>1, <1>4, <2>1, <2>2 DEF HandlerUnflag, Stored
<1>5. CASE HandlerApply
  <2>1. PICK u \in h.apply.pause : tasks' = [tasks EXCEPT ![u] = TxNetworkPause(tasks[u])]
    BY <1>5 DEF NetInv, HandlerApply, Stored
  <2>2. u \in Task
    BY DEF NetInv, TypeInv, HandlerType
  <2>3. QED
    BY <1>1, <2>1, <2>2, TxFields
<1>6. CASE HandlerStep
  BY <1>2, <1>3, <1>4, <1>5, <1>6
     DEF HandlerStep, HandlerSlots, HandlerList, HandlerApplied, HandlerSpawnResumed,
         HandlerGet, HandlerSpawn, HandlerStoreFails
<1>7. CASE ClientRequest
  <2>1. ASSUME NEW u \in Task, NEW p \in Priority,
               tasks' = [tasks EXCEPT ![u] = IF tasks[u].state = "Absent" THEN TxCreate(p)
                                             ELSE tasks[u]]
        PROVE  Same
    <3>1. TxCreate(p).cellular_bytes_used = 0
      BY DEF TxCreate, AbsentTask
    <3>2. tasks[u].state = "Absent" => tasks[u].cellular_bytes_used = 0
      BY DEF NetInv
    <3>3. QED
      BY <1>1, <2>1, <3>1, <3>2
  <2>2. QED
    BY <1>2, <1>7, <2>1, TaskAssumption
       DEF ClientRequest, CreateTransfer, AssistPin, ControlTransfer, SetNodeConfig, Stored
<1>8. QED
  BY <1>2, <1>6, <1>7 DEF OutsideStep, SweepJudge, SweepRemove, vars

\* What a step of a runner leaves of a task at its limit.
LEMMA RunnerLimitStep ==
  ASSUME LimitInv, NEW r \in Runner, RunnerStep(r),
         NEW t \in Task, CellularLimit[t] \notin {NoLimit, 0}
  PROVE  /\ tasks'[t].cellular_bytes_used < CellularLimit[t] + ChunkBytes
         /\ AtLimit(t)' => /\ tasks'[t].state \notin InFlight \cup {"Queued"}
                           /\ \A q \in Runner : job'[q] = t => ~Working(q)'
<1>1. TypeInv /\ net.resume = {} /\ Alone(r)
  BY RunnerAlone DEF LimitInv, OneInv, NetInv
<1>2. /\ BytesWritten(r, t) /\ StateWritten(r, t)
      /\ Working(r)' <=> pc'[r] \notin WithoutPermit
      /\ Working(r)' => Working(r) \/ tasks[job[r]].state = "Queued"
  BY <1>1, RunnerBytes, RunnerStates, RunnerWorks DEF LimitInv, OneInv
<1>3. /\ tasks[t].cellular_bytes_used \in Nat /\ CellularLimit[t] \in Nat
      /\ tasks[t].cellular_bytes_used < CellularLimit[t] + ChunkBytes
      /\ ChunkBytes \in Nat
  BY <1>1, TaskAssumption, SystemAssumption
     DEF LimitInv, CellularWithinOneChunk, TypeInv, StoreType, TaskRecord
<1>4. ASSUME NEW q \in Runner, q # r
      PROVE  job'[q] = job[q] /\ (Working(q)' <=> Working(q))
  BY <1>1, <1>4 DEF Alone, Working
<1>5. Working(r)' => job'[r] = job[r]
  BY <1>1, <1>2 DEF Alone, WithoutPermit
<1>6. CASE tasks'[t].cellular_bytes_used = tasks[t].cellular_bytes_used
  <2>1. ASSUME AtLimit(t)
        PROVE  /\ tasks'[t].state \notin InFlight \cup {"Queued"}
               /\ \A q \in Runner : job'[q] = t => ~Working(q)'
    <3>1. /\ tasks[t].state \notin InFlight \cup {"Queued"}
          /\ \A q \in Runner : job[q] = t => ~Working(q)
      BY <2>1 DEF LimitInv
    <3>2. ~(t = job[r] /\ pc[r] \in Acting)
      BY <3>1 DEF LimitInv, OneInv, Acting, WithoutPermit
    <3>3. QED
      BY <1>2, <1>4, <1>5, <3>1, <3>2 DEF StateWritten, InFlight
  <2>2. QED
    BY <1>3, <1>6, <2>1 DEF AtLimit
<1>7. CASE tasks'[t].cellular_bytes_used # tasks[t].cellular_bytes_used
  <2>1. /\ t = job[r] /\ pc[r] = "meter"
        /\ \E n \in 1..ChunkBytes :
             tasks'[t].cellular_bytes_used = tasks[t].cellular_bytes_used + n
        /\ tasks'[t].cellular_bytes_used >= CellularLimit[t] =>
             tasks'[t].state = "Paused" /\ pc'[r] = "error"
    BY <1>2, <1>7 DEF BytesWritten
  <2>2. Working(r)
    BY <2>1 DEF LimitInv, OneInv, WithoutPermit
  <2>3. tasks[t].cellular_bytes_used < CellularLimit[t]
    BY <1>3, <2>1, <2>2 DEF LimitInv, AtLimit
  <2>4. \A q \in Runner : q # r /\ job'[q] = t => ~Working(q)'
    BY <1>4, <2>1, <2>2 DEF LimitInv, OneInv, OneRunnerPerTask
  <2>5. AtLimit(t)' => tasks'[t].state = "Paused" /\ ~Working(r)'
    BY <1>2, <1>3, <2>1 DEF AtLimit, WithoutPermit
  <2>6. QED
    BY <1>3, <2>1, <2>3, <2>4, <2>5 DEF InFlight
<1>8. QED
  BY <1>6, <1>7

LEMMA LimitStep ==
  ASSUME SteadyNetwork, NoRequeue, LimitInv, [Next]_vars
  PROVE  LimitInv'
<1>1. OneInv' /\ TypeInv
  BY OneStep DEF LimitInv, OneInv, NetInv
<1>2. ASSUME NEW r \in Runner, RunnerStep(r) PROVE LimitInv'
  BY <1>1, <1>2, RunnerLimitStep DEF LimitInv, CellularWithinOneChunk, AtLimit
<1>3. CASE OutsideStep
  <2>1. ASSUME NEW t \in Task
        PROVE  tasks'[t].cellular_bytes_used = tasks[t].cellular_bytes_used /\ OutsideState(t)
    BY <1>3, OutsideBytes, OutsideStates DEF LimitInv, OneInv
  <2>2. ASSUME NEW t \in Task, AtLimit(t)
        PROVE  tasks'[t].state \notin InFlight \cup {"Queued"}
    <3>1. tasks[t].state # "Absent"
      BY <2>2, TaskAssumption DEF LimitInv, OneInv, NetInv, AtLimit
    <3>2. QED
      BY <2>1, <2>2, <3>1 DEF LimitInv, OutsideState, InFlight
  <2>3. \A q \in Runner : Working(q)' => Working(q) /\ job'[q] = job[q]
    BY <1>1, <1>3, OutsideRunners DEF LimitInv, OneInv, WithoutPermit
  <2>4. QED
    BY <1>1, <2>1, <2>2, <2>3 DEF LimitInv, CellularWithinOneChunk, AtLimit
<1>4. CASE Restart
  <2>1. ASSUME NEW t \in Task
        PROVE  /\ tasks'[t].cellular_bytes_used = tasks[t].cellular_bytes_used
               /\ tasks[t].state \notin InFlight => tasks'[t].state = tasks[t].state
    BY <1>1, <1>4, TxFields DEF Restart, TypeInv, StoreType, TxRecover
  <2>2. \A q \in Runner : ~Working(q)'
    BY <1>4 DEF Restart, Working
  <2>3. QED
    BY <1>1, <2>1, <2>2 DEF LimitInv, CellularWithinOneChunk, AtLimit
<1>5. QED
  BY <1>2, <1>3, <1>4, NextCases

LEMMA LimitInit ==
  ASSUME Init
  PROVE  LimitInv
<1>1. \A t \in Task : tasks[t].cellular_bytes_used = 0
  BY DEF Init, AbsentTask
<1>2. /\ \A t \in Task : CellularLimit[t] \notin {NoLimit, 0} =>
                          CellularLimit[t] \in Nat /\ 0 < CellularLimit[t]
      /\ ChunkBytes \in Nat
  BY TaskAssumption, SystemAssumption
<1>3. QED
  BY <1>1, <1>2, OneInit DEF LimitInv, CellularWithinOneChunk, AtLimit

\* DST-010: what a task streams over a cellular network exceeds its limit by less
\* than one chunk, for chunks of every size, across crashes, pauses, failures and
\* changes of max_concurrent_transfers.
THEOREM CellularLimited ==
  ASSUME SteadyNetwork, NoRequeue
  PROVE  Spec => []CellularWithinOneChunk
<1>1. Init => LimitInv
  BY LimitInit
<1>2. LimitInv /\ [Next]_vars => LimitInv'
  BY LimitStep
<1>3. LimitInv => CellularWithinOneChunk
  BY DEF LimitInv
<1>4. QED
  BY <1>1, <1>2, <1>3, PTL DEF Spec

-----------------------------------------------------------------------------
(* A terminal task stays what it is.  transition(), fail() and the network    *)
(* class overwrite whatever state a task has; what saves a terminal task is   *)
(* that its own runner was the only one that could still write it, and that   *)
(* a runner gives up only on a task nobody else works on.                     *)

\* Clients leave a task alone once they have created it; they may reorder the
\* queue and change max_concurrent_transfers.
NoInterference == Operation \subseteq {"create", "assist_pin", "priority", "config"}

\* The task store does not fail: when it fails under mark_resolving(), the runner looks
\* at its task for the error while another one works on it.  (That one needs a store that
\* works again, which the model allows and the code only after a restart.)
StoreWorks == "store" \notin Faults

\* A task with a limit of zero may be at work with nothing left to use (see AtLimit).
PositiveLimits == \A t \in Task : CellularLimit[t] # 0

Placing == {"dest", "dest_rename"}

TerminalInv ==
  /\ LimitInv
  /\ \A t \in Task : network_restricted(t, InitialConfig) =>
       /\ tasks[t].state \in {"Absent", "Queued", "Paused", "Failed"}
       /\ \A r \in Runner : job[r] = t => ~Engaged(r)
  /\ \A t \in Task : AtLimit(t) => ~is_terminal(tasks[t].state)
  /\ \A r \in Runner : Deciding(r) => tasks[job[r]].state = "Queued" \/ Barred(job[r])
  /\ \A r \in Runner : pc[r] \in {"mark", "mark_write"} =>
       ~network_restricted(job[r], InitialConfig)
  /\ \A r \in Runner : pc[r] \in {"error", "fail_write"} =>
       /\ tasks[job[r]].state # "Queued"
       /\ \A q \in Runner : job[q] = job[r] => ~Working(q)
  /\ \A r \in Runner : pc[r] = "fail_write" => ~is_terminal(tasks[job[r]].state)
  /\ \A r \in Runner : Engaged(r) /\ pc[r] \notin Placing => ~is_terminal(tasks[job[r]].state)

\* What leads a runner to the places the invariant speaks of.
RunnerMoves(r) ==
  /\ Deciding(r)' => \/ Deciding(r) /\ pc[r] # "mark_write"
                     \/ pc[r] = "sched" /\ tasks[job[r]].state = "Queued"
  /\ pc'[r] \in {"mark", "mark_write"} =>
       pc[r] = "mark" \/ ~network_restricted(job[r], cfg)
  /\ pc'[r] = "error" =>
       \/ Engaged(r)
       \/ pc[r] = "mark" /\ tasks[job[r]].state # "Queued"
       \/ pc[r] = "pick" /\ tasks[job[r]].state # "Queued"
  /\ pc'[r] = "fail_write" =>
       pc[r] = "error" /\ tasks[job[r]].state \in {"Resolving", "Transferring"}
  /\ Engaged(r)' /\ pc'[r] \notin Placing /\ is_terminal(tasks'[job[r]].state) =>
       Engaged(r) /\ pc[r] \notin Placing /\ is_terminal(tasks[job[r]].state)

LEMMA RunnerMovesStep ==
  ASSUME StoreWorks, TypeInv,
         NEW r \in Runner, Working(r) <=> pc[r] \notin WithoutPermit, RunnerStep(r)
  PROVE  RunnerMoves(r)
<1>1. CASE RunnerLock(r)
  BY <1>1
     DEF TypeInv, StoreType, RunnerType, RunnerMoves, Working, Engaged, Deciding,
         WithoutPermit, Placing, RunnerLock, Goto, ReleasePermit, Finish, Continue,
         files, outside
<1>2. CASE RunnerWait(r)
  BY <1>2
     DEF TypeInv, StoreType, RunnerType, RunnerMoves, Working, Engaged, Deciding,
         WithoutPermit, Placing, RunnerWait, Goto, ReleasePermit, Raise, Continue, files,
         outside
<1>3. CASE RunnerPick(r)
  BY <1>3
     DEF TypeInv, StoreType, RunnerType, RunnerMoves, Working, Engaged, Deciding,
         WithoutPermit, Placing, RunnerPick, Goto, files, outside, next_queued
<1>4. CASE RunnerNetwork(r)
  BY <1>4, TxNotCompleted
     DEF TypeInv, StoreType, RunnerType, RunnerMoves, Working, Engaged, Deciding,
         WithoutPermit, Placing, RunnerNetwork, Stored, files, outside, rvars
<1>5. CASE RunnerNetworkDone(r)
  BY <1>5
     DEF TypeInv, StoreType, RunnerType, RunnerMoves, Working, Engaged, Deciding,
         WithoutPermit, Placing, RunnerNetworkDone, Goto, ReleasePermit, Finish, files,
         outside, NoApply
<1>6. CASE RunnerMarkCheck(r)
  BY <1>6
     DEF TypeInv, StoreType, RunnerType, RunnerMoves, Working, Engaged, Deciding,
         WithoutPermit, Placing, RunnerMarkCheck, Goto, ReleasePermit, Raise, Continue,
         files, outside, transition_allowed
<1>7. CASE RunnerMark(r)
  BY <1>7, TxNotCompleted
     DEF TypeInv, StoreType, RunnerType, RunnerMoves, Working, Engaged, Deciding,
         WithoutPermit, Placing, RunnerMark, Goto, Stored, Continue, files, outside,
         TxSet, is_terminal
<1>8. CASE RunnerFetchWhole(r)
  BY <1>8
     DEF TypeInv, StoreType, RunnerType, RunnerMoves, Working, Engaged, Deciding,
         WithoutPermit, Placing, RunnerFetchWhole, Goto, outside
<1>9. CASE RunnerFetchStream(r)
  BY <1>9
     DEF TypeInv, StoreType, RunnerType, RunnerMoves, Working, Engaged, Deciding,
         WithoutPermit, Placing, RunnerFetchStream, Goto, ReleasePermit, Raise, Continue,
         outside
<1>10. CASE RunnerProgress(r)
  BY <1>10, TxNotCompleted
     DEF TypeInv, StoreType, RunnerType, RunnerMoves, Working, Engaged, Deciding,
         WithoutPermit, Placing, RunnerProgress, Goto, Stored, ReleasePermit, Raise,
         Continue, files, outside, is_terminal
<1>11. CASE RunnerChunk(r)
  BY <1>11
     DEF TypeInv, StoreType, RunnerType, RunnerMoves, Working, Engaged, Deciding,
         WithoutPermit, Placing, RunnerChunk, Goto, ReleasePermit, Raise, Continue,
         Close, files, outside
<1>12. CASE RunnerChunkError(r)
  BY <1>12
     DEF TypeInv, StoreType, RunnerType, RunnerMoves, Working, Engaged, Deciding,
         WithoutPermit, Placing, RunnerChunkError, Goto, ReleasePermit, Raise, Close,
         Remove, outside
<1>13. CASE RunnerWrite(r)
  BY <1>13, TxNotCompleted
     DEF TypeInv, StoreType, RunnerType, RunnerMoves, Working, Engaged, Deciding,
         WithoutPermit, Placing, RunnerWrite, Goto, outside, is_terminal
<1>14. CASE RunnerMeter(r)
  BY <1>14, TxNotCompleted
     DEF TypeInv, StoreType, RunnerType, RunnerMoves, Working, Engaged, Deciding,
         WithoutPermit, Placing, RunnerMeter, Goto, Stored, ReleasePermit, Raise,
         Continue, Close, files, outside, is_terminal
<1>15. CASE RunnerStreamEnd(r)
  BY <1>15, TxNotCompleted
     DEF TypeInv, StoreType, RunnerType, RunnerMoves, Working, Engaged, Deciding,
         WithoutPermit, Placing, RunnerStreamEnd, Goto, ReleasePermit, Continue, Close,
         Remove, outside, TransferState, Raise
<1>16. CASE RunnerVerifyCheck(r)
  BY <1>16
     DEF TypeInv, StoreType, RunnerType, RunnerMoves, Working, Engaged, Deciding,
         WithoutPermit, Placing, RunnerVerifyCheck, Goto, ReleasePermit, Raise, Continue,
         files, outside
<1>17. CASE RunnerVerify(r)
  BY <1>17, TxNotCompleted
     DEF TypeInv, StoreType, RunnerType, RunnerMoves, Working, Engaged, Deciding,
         WithoutPermit, Placing, RunnerVerify, Goto, Stored, Continue, files, outside,
         is_terminal, TransferState
<1>18. CASE RunnerHash(r)
  BY <1>18, TxNotCompleted
     DEF TypeInv, StoreType, RunnerType, RunnerMoves, Working, Engaged, Deciding,
         WithoutPermit, Placing, RunnerHash, Goto, Stored, ReleasePermit, Raise,
         Continue, files, outside, TransferState, Fail
<1>19. CASE RunnerPut(r)
  BY <1>19, TxNotCompleted
     DEF TypeInv, StoreType, RunnerType, RunnerMoves, Working, Engaged, Deciding,
         WithoutPermit, Placing, RunnerPut, Goto, Stored, ReleasePermit, Raise,
         Continue, outside, TransferState, Fail, PutObject
<1>20. CASE RunnerCommitCheck(r)
  BY <1>20
     DEF TypeInv, StoreType, RunnerType, RunnerMoves, Working, Engaged, Deciding,
         WithoutPermit, Placing, RunnerCommitCheck, Goto, ReleasePermit, Raise, Continue,
         files, outside
<1>21. CASE RunnerCommit(r)
  BY <1>21, TxNotCompleted
     DEF TypeInv, StoreType, RunnerType, RunnerMoves, Working, Engaged, Deciding,
         WithoutPermit, Placing, RunnerCommit, Goto, Stored, Continue, files, outside,
         is_terminal, TransferState
<1>22. CASE RunnerComplete(r)
  BY <1>22, TxNotCompleted
     DEF TypeInv, StoreType, RunnerType, RunnerMoves, Working, Engaged, Deciding,
         WithoutPermit, Placing, RunnerComplete, Goto, Stored, ReleasePermit, Finish,
         Continue, files, outside, TransferState
<1>23. CASE RunnerDestination(r)
  BY <1>23
     DEF TypeInv, StoreType, RunnerType, RunnerMoves, Working, Engaged, Deciding,
         WithoutPermit, Placing, RunnerDestination, Goto, ReleasePermit, Raise, Continue,
         outside
<1>24. CASE RunnerDestinationRename(r)
  BY <1>24
     DEF TypeInv, StoreType, RunnerType, RunnerMoves, Working, Engaged, Deciding,
         WithoutPermit, Placing, RunnerDestinationRename, Goto, ReleasePermit, Finish,
         outside
<1>25. CASE RunnerErrorCheck(r)
  BY <1>25
     DEF TypeInv, StoreType, RunnerType, RunnerMoves, Working, Engaged, Deciding,
         WithoutPermit, Placing, RunnerErrorCheck, Goto, ReleasePermit, Finish, Continue,
         files, outside
<1>26. CASE RunnerFail(r)
  BY <1>26, TxNotCompleted
     DEF TypeInv, StoreType, RunnerType, RunnerMoves, Working, Engaged, Deciding,
         WithoutPermit, Placing, RunnerFail, Goto, Stored, ReleasePermit, Finish, files,
         outside, TransferState, Fail
<1>27. CASE RunnerNetworkFails(r)
  BY <1>27 DEF StoreWorks, RunnerNetworkFails
<1>28. CASE RunnerFill(r)
  BY <1>28, TxNotCompleted
     DEF TypeInv, StoreType, RunnerType, RunnerMoves, Working, Engaged, Deciding,
         WithoutPermit, Placing, outside, TransferState, RunnerFill, Close, Continue,
         Goto
<1>29. CASE RunnerFetchFails(r)
  BY <1>29, TxNotCompleted
     DEF TypeInv, StoreType, RunnerType, RunnerMoves, Working, Engaged, Deciding,
         WithoutPermit, Placing, outside, TransferState, RunnerFetchFails, Raise, files,
         ReleasePermit, Goto
<1>30. CASE RunnerRecord(r)
  BY <1>30, TxNotCompleted
     DEF TypeInv, StoreType, RunnerType, RunnerMoves, Working, Engaged, Deciding,
         WithoutPermit, Placing, outside, TransferState, RunnerRecord, Stored, Raise,
         Close, Continue, files, ReleasePermit, Goto, is_terminal
<1>31. CASE RunnerDiscard(r)
  BY <1>31, TxNotCompleted
     DEF TypeInv, StoreType, RunnerType, RunnerMoves, Working, Engaged, Deciding,
         WithoutPermit, Placing, outside, TransferState, RunnerDiscard, Fail, Stored,
         Finish, files, ReleasePermit, Goto
<1>32. CASE RunnerStoreFails(r)
  BY <1>32 DEF StoreWorks, RunnerStoreFails
<1>33. QED
  BY <1>1, <1>2, <1>3, <1>4, <1>5, <1>6, <1>7, <1>8, <1>9, <1>10, <1>11, <1>12,
     <1>13, <1>14, <1>15, <1>16, <1>17, <1>18, <1>19, <1>20, <1>21, <1>22, <1>23,
     <1>24, <1>25, <1>26, <1>27, <1>28, <1>29, <1>30, <1>31, <1>32
     DEF RunnerStep

LEMMA BarredCases ==
  ASSUME PositiveLimits, LimitInv, NEW t \in Task, Barred(t)
  PROVE  network_restricted(t, InitialConfig) \/ AtLimit(t)
BY DEF Barred, cellular_quota_exceeded, AtLimit, PositiveLimits

LEMMA BarredNotTerminal ==
  ASSUME PositiveLimits, TerminalInv, NEW t \in Task, Barred(t)
  PROVE  ~is_terminal(tasks[t].state)
BY BarredCases DEF TerminalInv, is_terminal

\* A runner about to write its task's state writes one that is not terminal,
\* and one that the network does not bar.
LEMMA WritableTask ==
  ASSUME PositiveLimits, TerminalInv, NEW r \in Runner, pc[r] \in Acting
  PROVE  /\ job[r] \in Task /\ Working(r)
         /\ ~is_terminal(tasks[job[r]].state)
         /\ ~network_restricted(job[r], InitialConfig) /\ ~AtLimit(job[r])
         /\ pc[r] = "mark_write" => tasks[job[r]].state = "Queued"
<1>1. LimitInv /\ OneInv /\ NetInv /\ TypeInv
  BY DEF TerminalInv, LimitInv, OneInv, NetInv
<1>2. job[r] \in Task /\ Working(r)
  BY <1>1 DEF OneInv, TypeInv, RunnerType, Acting, WithoutPermit
<1>3. ~AtLimit(job[r])
  BY <1>1, <1>2 DEF LimitInv
<1>4. CASE pc[r] = "mark_write"
  <2>1. ~network_restricted(job[r], InitialConfig)
    BY <1>4 DEF TerminalInv
  <2>2. tasks[job[r]].state = "Queued"
    BY <1>1, <1>2, <1>3, <1>4, <2>1, BarredCases DEF TerminalInv, Deciding
  <2>3. QED
    BY <1>2, <1>3, <2>1, <2>2 DEF is_terminal
<1>5. CASE pc[r] # "mark_write"
  BY <1>2, <1>3, <1>5 DEF TerminalInv, Engaged, Deciding, Acting, Placing
<1>6. QED
  BY <1>4, <1>5

\* No step of a runner takes a task out of a terminal state, and only the task's
\* own runner takes it into one.
LEMMA RunnerTerminal ==
  ASSUME PositiveLimits, TerminalInv, NEW r \in Runner, RunnerStep(r), NEW t \in Task
  PROVE  /\ is_terminal(tasks[t].state) => tasks'[t].state = tasks[t].state
         /\ is_terminal(tasks'[t].state) =>
              is_terminal(tasks[t].state) \/ (t = job[r] /\ pc[r] \in Acting)
<1>1. StateWritten(r, t)
  BY RunnerStates DEF TerminalInv, LimitInv, OneInv, NetInv
<1>2. t = job[r] /\ pc[r] \in Acting => ~is_terminal(tasks[t].state)
  BY WritableTask
<1>3. t = job[r] /\ pc[r] = "fail_write" => ~is_terminal(tasks[t].state)
  BY DEF TerminalInv
<1>4. t \in net.pause => ~is_terminal(tasks[t].state)
  BY BarredNotTerminal DEF TerminalInv, LimitInv, OneInv, NetInv
<1>5. ~is_terminal("Failed") /\ ~is_terminal("Paused")
  BY DEF is_terminal
<1>6. QED
  BY <1>1, <1>2, <1>3, <1>4, <1>5 DEF StateWritten

LEMMA RunnerTerminalStep ==
  ASSUME SteadyNetwork, NoRequeue, PositiveLimits, StoreWorks, TerminalInv,
         NEW r \in Runner, RunnerStep(r)
  PROVE  TerminalInv'
<1>1. LimitInv /\ OneInv /\ NetInv /\ SchedulerInv /\ TypeInv
  BY DEF TerminalInv, LimitInv, OneInv, NetInv
<1>2. LimitInv' /\ TypeInv' /\ NetInv'
  BY LimitStep DEF TerminalInv, Next, LimitInv, OneInv, NetInv
<1>3. Alone(r) /\ RunnerMoves(r)
  BY <1>1, RunnerAlone, RunnerMovesStep DEF OneInv
<1>4. ASSUME NEW t \in Task
      PROVE  StateWritten(r, t) /\ BytesWritten(r, t) /\ (Barred(t) => Barred(t)')
  BY <1>1, <1>2, <1>4, RunnerStates, RunnerBytes, RunnerAges, BarredStays DEF NetInv
<1>5. ASSUME NEW q \in Runner, q # r
      PROVE  /\ pc'[q] = pc[q] /\ job'[q] = job[q]
             /\ (Working(q)' <=> Working(q)) /\ (Engaged(q)' <=> Engaged(q))
  BY <1>3, <1>5 DEF Alone, Working, Engaged, Deciding
<1>6. /\ Working(r)' <=> pc'[r] \notin WithoutPermit
      /\ Working(r)' => Working(r) \/ (pc[r] = "pick" /\ tasks[job[r]].state = "Queued")
      /\ Engaged(r)' => Engaged(r) \/ pc[r] = "mark_write"
      /\ pc'[r] # "idle" => job'[r] = job[r]
  BY <1>1, <1>3, RunnerWorks DEF OneInv, Alone
<1>7. \A q \in Runner : pc[q] # "idle" => job[q] \in Task
  BY <1>1 DEF TypeInv, RunnerType
<1>8. ASSUME NEW t \in Task, network_restricted(t, InitialConfig)
      PROVE  /\ tasks'[t].state \in {"Absent", "Queued", "Paused", "Failed"}
             /\ \A q \in Runner : job'[q] = t => ~Engaged(q)'
  <2>1. ~(t = job[r] /\ pc[r] \in Acting)
    BY <1>8, WritableTask
  <2>2. tasks'[t].state \in {"Absent", "Queued", "Paused", "Failed"}
    BY <1>4, <1>8, <2>1 DEF TerminalInv, StateWritten
  <2>3. ASSUME job'[r] = t PROVE ~Engaged(r)'
    BY <1>6, <1>8, <2>1, <2>3 DEF TerminalInv, Engaged, Acting, WithoutPermit
  <2>4. QED
    BY <1>5, <1>8, <2>2, <2>3 DEF TerminalInv
<1>9. ASSUME NEW t \in Task, AtLimit(t)' PROVE ~is_terminal(tasks'[t].state)
  <2>1. CASE tasks'[t].cellular_bytes_used = tasks[t].cellular_bytes_used
    <3>1. AtLimit(t)
      BY <1>9, <2>1 DEF AtLimit
    <3>2. QED
      BY <3>1, RunnerTerminal, WritableTask DEF TerminalInv
  <2>2. CASE tasks'[t].cellular_bytes_used # tasks[t].cellular_bytes_used
    <3>1. tasks'[t].cellular_bytes_used \in Nat
      BY <1>2 DEF TypeInv, StoreType, TaskRecord
    <3>2. tasks'[t].state = "Paused"
      BY <1>4, <1>9, <2>2, <3>1 DEF BytesWritten, AtLimit
    <3>3. QED
      BY <3>2 DEF is_terminal
  <2>3. QED
    BY <2>1, <2>2
<1>10. ASSUME NEW q \in Runner, Deciding(q)'
       PROVE  (tasks[job[q]].state = "Queued" \/ Barred(job[q]))'
  <2>0. job'[q] = job[q] /\ job[q] \in Task
    BY <1>3, <1>5, <1>6, <1>7, <1>10 DEF Deciding, RunnerMoves
  <2>1. PICK t \in Task : t = job[q] /\ t = job'[q]
    BY <2>0
  <2>2. CASE Barred(t)
    <3>1. Barred(t)'
      BY <1>4, <2>2
    <3>2. QED
      BY <2>1, <3>1 DEF Barred
  <2>3. CASE q = r /\ pc[r] = "sched"
    <3>1. tasks[t].state = "Queued"
      BY <1>3, <1>10, <2>1, <2>3 DEF RunnerMoves, Deciding
    <3>2. tasks'[t].state = tasks[t].state
      BY <1>4, <2>1, <2>3 DEF StateWritten, Acting
    <3>3. QED
      BY <2>1, <3>1, <3>2
  <2>4. CASE tasks[t].state = "Queued" /\ ~(q = r /\ pc[r] = "sched")
    <3>1. Deciding(q)
      BY <1>3, <1>5, <1>10, <2>4 DEF RunnerMoves, Deciding
    <3>2. t = job[r] => pc[r] \notin Acting \/ pc[r] = "mark_write"
      BY <1>1, <2>4, WritableTask DEF OneInv, Engaged, Deciding, Acting
    <3>3. pc[r] = "mark_write" => FALSE
      <4>1. pc[r] = "mark_write" => q = r
        BY <1>1, <3>1 DEF SchedulerInv, Deciding
      <4>2. q = r => pc[r] # "mark_write"
        BY <1>3, <1>10, <2>4 DEF RunnerMoves
      <4>3. QED
        BY <4>1, <4>2
    <3>4. t = job[r] => pc[r] # "fail_write"
      BY <2>4 DEF TerminalInv
    <3>5. t \in net.pause => Barred(t)
      BY <1>1, <2>1 DEF NetInv
    <3>6. QED
      BY <1>4, <2>1, <2>2, <2>4, <3>2, <3>3, <3>4, <3>5 DEF StateWritten
  <2>5. QED
    <3>1. \/ Deciding(q) /\ (tasks[t].state = "Queued" \/ Barred(t))
          \/ q = r /\ pc[r] = "sched"
      <4>1. Deciding(q) \/ (q = r /\ pc[r] = "sched")
        BY <1>3, <1>5, <1>10 DEF RunnerMoves, Deciding
      <4>2. Deciding(q) => tasks[job[q]].state = "Queued" \/ Barred(job[q])
        BY DEF TerminalInv
      <4>3. Barred(job[q]) => Barred(t)
        BY <2>1
      <4>4. QED
        BY <2>1, <4>1, <4>2, <4>3
    <3>2. QED
      BY <2>2, <2>3, <2>4, <3>1
<1>11. ASSUME NEW q \in Runner, pc'[q] \in {"mark", "mark_write"}
       PROVE  ~network_restricted(job'[q], InitialConfig)
  <2>1. job'[q] = job[q] /\ (q # r => pc'[q] = pc[q])
    BY <1>5, <1>6, <1>11
  <2>2. q = r => pc[r] = "mark" \/ ~network_restricted(job[r], cfg)
    BY <1>3, <1>11 DEF RunnerMoves
  <2>3. network_restricted(job[q], cfg) <=> network_restricted(job[q], InitialConfig)
    BY <1>1 DEF NetInv, network_restricted
  <2>4. QED
    BY <1>11, <2>1, <2>2, <2>3 DEF TerminalInv
<1>12. ASSUME NEW q \in Runner, pc'[q] \in {"error", "fail_write"}
       PROVE  /\ tasks'[job'[q]].state # "Queued"
              /\ \A p \in Runner : job'[p] = job'[q] => ~Working(p)'
  <2> DEFINE t == job[q]
  <2>1. job'[q] = t
    BY <1>5, <1>6, <1>12
  <2>2. t \in Task
    <3>1. CASE q = r
      BY <1>1, <1>3, <1>7, <1>12, <3>1 DEF RunnerMoves, Engaged, OneInv, WithoutPermit
    <3>2. CASE q # r
      BY <1>5, <1>7, <1>12, <3>2
    <3>3. QED
      BY <3>1, <3>2
  <2>3. /\ tasks[t].state # "Queued"
        /\ \A p \in Runner : p # q /\ job[p] = t => ~Working(p)
        /\ q # r => ~Working(q)
    <3>1. CASE q # r
      BY <1>1, <1>5, <1>12, <3>1 DEF TerminalInv, OneInv, WithoutPermit
    <3>2. CASE q = r /\ Engaged(r)
      BY <1>1, <3>2 DEF OneInv, OneRunnerPerTask, Engaged
    <3>3. CASE q = r /\ pc[r] = "error"
      BY <3>3 DEF TerminalInv
    <3>4. CASE q = r /\ pc[r] \in {"mark", "pick"} /\ tasks[t].state # "Queued"
      <4>1. Barred(t) /\ Deciding(r)
        BY <3>4 DEF TerminalInv, Deciding
      <4>2. \A p \in Runner : p # r /\ job[p] = t => ~Engaged(p)
        BY <1>1, <2>2, <4>1, BarredCases DEF TerminalInv, LimitInv, Engaged
      <4>3. \A p \in Runner : p # r => ~Deciding(p)
        BY <1>1, <4>1 DEF SchedulerInv
      <4>4. QED
        BY <3>4, <4>2, <4>3 DEF Engaged
    <3>5. QED
      BY <1>3, <1>12, <3>1, <3>2, <3>3, <3>4 DEF RunnerMoves
  <2>4. tasks'[t].state # "Queued"
    BY <1>4, <2>2, <2>3 DEF StateWritten
  <2>5. ~Working(q)'
    BY <1>2, <1>12 DEF LimitInv, OneInv, WithoutPermit
  <2>6. ASSUME NEW p \in Runner, p # q, job'[p] = t PROVE ~Working(p)'
    <3>1. CASE p # r
      BY <1>5, <2>3, <2>6, <3>1
    <3>2. CASE p = r
      BY <1>6, <2>3, <2>6, <3>2 DEF WithoutPermit
    <3>3. QED
      BY <3>1, <3>2
  <2>7. QED
    BY <2>1, <2>4, <2>5, <2>6
<1>13. ASSUME NEW q \in Runner, pc'[q] = "fail_write" PROVE ~is_terminal(tasks'[job'[q]].state)
  <2>1. job'[q] = job[q]
    BY <1>5, <1>6, <1>13
  <2>2. CASE q = r
    <3>1. pc[r] = "error" /\ tasks[job[r]].state \in {"Resolving", "Transferring"}
      BY <1>3, <1>13, <2>2 DEF RunnerMoves
    <3>2. job[r] \in Task
      BY <1>7, <3>1
    <3>3. QED
      BY <2>1, <2>2, <3>1, <3>2, RunnerTerminal DEF Acting, is_terminal
  <2>3. CASE q # r
    <3>1. pc[q] = "fail_write" /\ job[q] \in Task
      BY <1>5, <1>7, <1>13, <2>3
    <3>2. ~(job[q] = job[r] /\ pc[r] \in Acting)
      BY <3>1, WritableTask DEF TerminalInv
    <3>3. QED
      BY <2>1, <3>1, <3>2, RunnerTerminal DEF TerminalInv
  <2>4. QED
    BY <2>2, <2>3
<1>14. ASSUME NEW q \in Runner, Engaged(q)', pc'[q] \notin Placing
       PROVE  ~is_terminal(tasks'[job'[q]].state)
  <2>1. CASE q = r
    <3>1. job'[r] = job[r]
      BY <1>6, <1>14, <2>1 DEF Engaged, WithoutPermit
    <3>2. QED
      BY <1>3, <1>14, <2>1, <3>1 DEF RunnerMoves, TerminalInv
  <2>2. CASE q # r
    <3>1. Engaged(q) /\ pc[q] \notin Placing /\ job'[q] = job[q] /\ job[q] \in Task
      BY <1>1, <1>5, <1>7, <1>14, <2>2 DEF OneInv, Engaged, WithoutPermit
    <3>2. ~(job[q] = job[r] /\ pc[r] \in Acting)
      BY <1>1, <2>2, <3>1, WritableTask DEF OneInv, OneRunnerPerTask, Engaged
    <3>3. QED
      BY <3>1, <3>2, RunnerTerminal DEF TerminalInv
  <2>3. QED
    BY <2>1, <2>2
<1>15. QED
  BY <1>2, <1>8, <1>9, <1>10, <1>11, <1>12, <1>13, <1>14 DEF TerminalInv

LEMMA OutsideTerminalStep ==
  ASSUME SteadyNetwork, NoInterference, PositiveLimits, TerminalInv, OutsideStep, [Next]_vars
  PROVE  /\ TerminalInv'
         /\ \A t \in Task : is_terminal(tasks[t].state) => tasks'[t].state = tasks[t].state
<1>1. LimitInv /\ OneInv /\ NetInv /\ TypeInv
  BY DEF TerminalInv, LimitInv, OneInv, NetInv
<1>2. LimitInv' /\ NoRequeue
  BY LimitStep DEF TerminalInv, NoInterference, NoRequeue
<1>3. ASSUME NEW t \in Task
      PROVE  /\ tasks'[t].cellular_bytes_used = tasks[t].cellular_bytes_used
             /\ \/ tasks'[t].state = tasks[t].state
                \/ tasks[t].state = "Absent" /\ tasks'[t].state = "Queued"
                \/ tasks'[t].state = "Paused" /\ Barred(t)
  <2>1. OutsideState(t)
    BY <1>1, <1>2, OutsideStates DEF OneInv
  <2>2. t \in h.apply.pause => Barred(t)
    BY <1>1 DEF NetInv
  <2>3. "pause" \notin Operation /\ "cancel" \notin Operation
    BY DEF NoInterference
  <2>4. QED
    BY <1>1, <2>1, <2>2, <2>3, OutsideBytes DEF OutsideState
<1>4. ASSUME NEW t \in Task
      PROVE  /\ Barred(t)' <=> Barred(t)
             /\ AtLimit(t)' <=> AtLimit(t)
             /\ is_terminal(tasks[t].state) => tasks'[t].state = tasks[t].state
             /\ is_terminal(tasks'[t].state) => is_terminal(tasks[t].state)
  <2>1. ~is_terminal("Queued") /\ ~is_terminal("Paused") /\ ~is_terminal("Absent")
    BY DEF is_terminal
  <2>2. QED
    BY <1>3, <2>1, BarredNotTerminal DEF Barred, AtLimit, cellular_quota_exceeded
<1>5. ASSUME NEW q \in Runner
      PROVE  /\ pc'[q] = pc[q] \/ (pc[q] = "idle" /\ pc'[q] = "sched")
             /\ pc[q] # "idle" => job'[q] = job[q] /\ job[q] \in Task
             /\ Working(q)' <=> Working(q)
             /\ Working(q) => pc[q] # "idle"
             /\ Engaged(q)' <=> Engaged(q)
  BY <1>1, <1>2, OutsideRunners
     DEF OneInv, TypeInv, RunnerType, WithoutPermit, Engaged, Deciding
<1>6. ASSUME NEW t \in Task, network_restricted(t, InitialConfig)
      PROVE  /\ tasks'[t].state \in {"Absent", "Queued", "Paused", "Failed"}
             /\ \A q \in Runner : job'[q] = t => ~Engaged(q)'
  BY <1>3, <1>5, <1>6 DEF TerminalInv, Engaged
<1>7. ASSUME NEW q \in Runner, Deciding(q)'
      PROVE  (tasks[job[q]].state = "Queued" \/ Barred(job[q]))'
  <2>1. Deciding(q) /\ job'[q] = job[q] /\ job[q] \in Task
    BY <1>5, <1>7 DEF Deciding
  <2>2. PICK t \in Task : t = job[q] /\ t = job'[q]
    BY <2>1
  <2>3. tasks[t].state = "Queued" \/ Barred(t)
    BY <2>1, <2>2 DEF TerminalInv
  <2>4. tasks'[t].state = "Queued" \/ Barred(t)'
    BY <1>3, <1>4, <2>3
  <2>5. QED
    BY <2>2, <2>4 DEF Barred
<1>8. ASSUME NEW q \in Runner, pc'[q] \in {"mark", "mark_write"}
      PROVE  ~network_restricted(job'[q], InitialConfig)
  BY <1>5, <1>8 DEF TerminalInv
<1>9. ASSUME NEW q \in Runner, pc'[q] \in {"error", "fail_write"}
      PROVE  /\ tasks'[job'[q]].state # "Queued"
             /\ \A p \in Runner : job'[p] = job'[q] => ~Working(p)'
  <2>1. pc[q] = pc'[q] /\ job'[q] = job[q] /\ job[q] \in Task
    BY <1>5, <1>9
  <2>2. tasks[job[q]].state \notin {"Queued", "Absent"}
    BY <1>1, <1>9, <2>1 DEF TerminalInv, NetInv
  <2>3. QED
    BY <1>3, <1>5, <1>9, <2>1, <2>2 DEF TerminalInv
<1>10. ASSUME NEW q \in Runner, pc'[q] = "fail_write" PROVE ~is_terminal(tasks'[job'[q]].state)
  BY <1>4, <1>5, <1>10 DEF TerminalInv
<1>11. ASSUME NEW q \in Runner, Engaged(q)', pc'[q] \notin Placing
       PROVE  ~is_terminal(tasks'[job'[q]].state)
  <2>1. Engaged(q) /\ pc'[q] = pc[q] /\ job'[q] = job[q] /\ job[q] \in Task
    BY <1>5, <1>11 DEF Engaged
  <2>2. QED
    BY <1>4, <1>11, <2>1 DEF TerminalInv
<1>12. QED
  BY <1>2, <1>4, <1>6, <1>7, <1>8, <1>9, <1>10, <1>11 DEF TerminalInv

LEMMA RestartTerminalStep ==
  ASSUME SteadyNetwork, NoRequeue, PositiveLimits, TerminalInv, Restart
  PROVE  /\ TerminalInv'
         /\ \A t \in Task : is_terminal(tasks[t].state) => tasks'[t].state = tasks[t].state
<1>1. LimitInv' /\ TypeInv
  BY LimitStep DEF TerminalInv, Next, LimitInv, OneInv, NetInv
<1>2. ASSUME NEW t \in Task
      PROVE  /\ tasks'[t].cellular_bytes_used = tasks[t].cellular_bytes_used
             /\ tasks'[t].state = IF tasks[t].state \in InFlight THEN "Queued"
                                  ELSE tasks[t].state
  <2>1. tasks'[t] = TxRecover(tasks[t]) /\ tasks[t] \in TaskRecord
    BY <1>1 DEF Restart, TypeInv, StoreType
  <2>2. QED
    BY <2>1, TxFields, TxNotCompleted DEF TxRecover, TransferState
<1>3. \A t \in Task : is_terminal(tasks[t].state) => tasks'[t].state = tasks[t].state
  BY <1>2 DEF is_terminal, InFlight
<1>4. \A q \in Runner : /\ pc'[q] \in {"idle", "sched"}
                        /\ ~Working(q)' /\ ~Engaged(q)' /\ ~Deciding(q)'
  BY DEF Restart, Working, Engaged, Deciding
<1>5. \A t \in Task : network_restricted(t, InitialConfig) =>
        tasks'[t].state \in {"Absent", "Queued", "Paused", "Failed"}
  BY <1>2 DEF TerminalInv, InFlight
<1>6. ASSUME NEW t \in Task, AtLimit(t)' PROVE ~is_terminal(tasks'[t].state)
  BY <1>2, <1>6 DEF AtLimit, TerminalInv, is_terminal
<1>7. QED
  BY <1>1, <1>3, <1>4, <1>5, <1>6 DEF TerminalInv

LEMMA TerminalStep ==
  ASSUME SteadyNetwork, NoInterference, PositiveLimits, StoreWorks, TerminalInv, [Next]_vars
  PROVE  /\ TerminalInv'
         /\ \A t \in Task : is_terminal(tasks[t].state) => tasks'[t].state = tasks[t].state
<1>1. NoRequeue
  BY DEF NoInterference, NoRequeue
<1>2. QED
  BY <1>1, NextCases, RunnerTerminal, RunnerTerminalStep, OutsideTerminalStep,
     RestartTerminalStep

LEMMA TerminalInit ==
  ASSUME Init
  PROVE  TerminalInv
<1>1. LimitInv
  BY LimitInit
<1>2. \A t \in Task : tasks[t].state = "Absent"
  BY DEF Init, AbsentTask
<1>3. \A r \in Runner : pc[r] = "idle" /\ ~Working(r)
  BY DEF Init, Working
<1>4. QED
  BY <1>1, <1>2, <1>3 DEF TerminalInv, Engaged, Deciding, is_terminal

\* A completed, cancelled or refused task never changes its state again, although
\* most transactions write a state without looking at the one they replace.  A
\* pause or a cancel that arrives late breaks it, as do a change of network and a
\* task store that fails and then works again.
THEOREM TerminalForGood ==
  ASSUME SteadyNetwork, NoInterference, PositiveLimits, StoreWorks
  PROVE  Spec => TerminalStays
<1>1. Init => TerminalInv
  BY TerminalInit
<1>2. TerminalInv /\ [Next]_vars =>
        /\ TerminalInv'
        /\ [\A t \in Task : is_terminal(tasks[t].state) =>
              tasks'[t].state = tasks[t].state]_vars
  BY TerminalStep
<1>3. QED
  BY <1>1, <1>2, PTL DEF Spec, TerminalStays
=============================================================================
