---------------------------- MODULE TransferSystem ----------------------------
(***************************************************************************)
(* The transfer subsystem: the task store of TransferService, the runners  *)
(* that execute queued tasks (transfer_runner.rs), the HTTP handlers of    *)
(* /v1/transfers and /v1/node/config (api_v1.rs), the part files, the      *)
(* content repository as far as a transfer touches it, and process crashes.*)
(*                                                                         *)
(* Processes and grain.  Mutating HTTP requests hold the idempotency       *)
(* middleware's lock for the whole handler, so there is ONE handler, h.    *)
(* Every runner is a tokio task and interleaves with the handler and with  *)
(* the other runners between any two store transactions.  A step of the    *)
(* model is one store transaction, or one file operation, or one read      *)
(* whose result a later step acts on.                                      *)
(*                                                                         *)
(* Faults.  "disk" lets a file operation fail, "store" a transaction.  The *)
(* store's failure is not remembered: in the code a store that has failed  *)
(* refuses every transaction until the process starts again (AtomicStore), *)
(* here the next one may succeed, so there are more behaviours, not fewer. *)
(***************************************************************************)
EXTENDS TransferTasks, FiniteSets

CONSTANTS Runner,       \* identities for spawned runners; a bound on how many live
          Chunks,       \* chunks in the content of a task
          ChunkBytes,   \* what a chunk the gateway sends holds at most
          Operation,    \* the requests clients may send
          Config,       \* the node configurations a client may set
          InitialConfig,
          WithDestination, \* tasks with a destination path
          Provider,     \* what the network may do: subset of ProviderBehaviour
          Faults,       \* what may fail here: subset of {"disk", "store"}
          MaxRequests,  \* bound on HTTP requests
          MaxCrashes,   \* bound on crashes
          Sweeping,     \* whether stream requests sweep the part files
          None          \* no task, no runner

Operations == {"create", "assist_pin", "pause", "resume", "cancel", "retry",
               "priority", "config"}
ProviderBehaviour == {"good", "bad", "error", "toobig", "quota", "codec"}

ASSUME SystemAssumption ==
  /\ IsFiniteSet(Runner)
  /\ Chunks \in Nat \ {0} /\ ChunkBytes \in Nat \ {0}
  /\ Operation \subseteq Operations
  /\ Config \subseteq [network : {"wifi", "cellular"}, metered : BOOLEAN, max : Nat \ {0}]
  /\ InitialConfig \in [network : {"wifi", "cellular"}, metered : BOOLEAN, max : Nat \ {0}]
  /\ WithDestination \subseteq Task
  /\ Provider \subseteq ProviderBehaviour /\ Faults \subseteq {"disk", "store"}
  /\ MaxRequests \in Nat /\ MaxCrashes \in Nat
  /\ Sweeping \in BOOLEAN
  /\ None \notin Task \cup Runner

VARIABLES
  tasks,      \* the durable task store
  object,     \* the content of each task's CID in the repository
  part,       \* the file <task>.part, as what each chunk of it holds
  dest,       \* the destination file of each task
  doomed,     \* the part files a sweep has judged orphans and not yet removed
  cfg,        \* the durable node configuration
  scheduler,  \* the runner that holds transfer_scheduler, or None
  slotFree,   \* free permits of the current transfer_slots semaphore
  pc, job, permit, pos, hash, source, open,   \* the runners
  net,        \* apply_network_class of the runner that holds the scheduler
  h,          \* the HTTP handler
  requests, crashes

rvars == <<pc, job, permit, pos, hash, source, open>>
files == <<object, part, dest, doomed>>
vars  == <<tasks, files, cfg, scheduler, slotFree, rvars, net, h, requests, crashes>>

NoFile == <<>>                            \* there is no file
Empty == [i \in 1..Chunks |-> "hole"]     \* File::create truncates
Full  == [i \in 1..Chunks |-> "good"]     \* the bytes whose hash is the CID
PartFile == {NoFile} \cup [1..Chunks -> {"hole", "good", "bad"}]

RunnerPc == {"idle", "sched", "pick", "net", "mark", "mark_write", "fetch",
             "fill", "progress", "chunk", "write", "record", "meter", "discard",
             "verify", "verify_write", "hash", "put", "commit", "commit_write",
             "complete", "dest", "dest_rename", "error", "fail_write"}

HandlerPc == {"idle", "check", "write", "unflag", "set_config", "slots", "list",
              "apply", "spawn_resumed", "get", "spawn"}

NoApply == [pause |-> {}, resume |-> {}]
IdleHandler == [pc |-> "idle", op |-> "none", task |-> None, priority |-> 0,
                apply |-> NoApply, resumed |-> {}]

TypeOK ==
  /\ tasks \in [Task -> TaskRecord]
  /\ object \in [Task -> {"absent", "intact", "corrupt"}]
  /\ part \in [Task -> PartFile]
  /\ dest \in [Task -> {"none", "temporary", "intact", "corrupt"}]
  /\ doomed \subseteq Task
  /\ cfg \in Config \cup {InitialConfig}
  /\ scheduler \in Runner \cup {None}
  /\ slotFree \in Nat
  /\ pc \in [Runner -> RunnerPc]
  /\ job \in [Runner -> Task \cup {None}]
  /\ permit \in [Runner -> {"none", "current", "replaced"}]
  /\ pos \in [Runner -> 0..Chunks]
  /\ hash \in [Runner -> {"good", "bad"}]
  /\ source \in [Runner -> {"memory", "file"}]
  /\ open \in [Runner -> BOOLEAN]
  /\ net \in [pause : SUBSET Task, resume : SUBSET Task]
  /\ h \in [pc : HandlerPc, op : Operations \cup {"none"}, task : Task \cup {None},
            priority : Priority,
            apply : [pause : SUBSET Task, resume : SUBSET Task],
            resumed : SUBSET Task]
  /\ requests \in 0..MaxRequests
  /\ crashes \in 0..MaxCrashes

Init ==
  /\ tasks = [t \in Task |-> AbsentTask]
  /\ object \in [Task -> {"absent", "intact"}]
  /\ part = [t \in Task |-> NoFile]
  /\ dest = [t \in Task |-> "none"]
  /\ doomed = {}
  /\ cfg = InitialConfig
  /\ scheduler = None
  /\ slotFree = InitialConfig.max
  /\ pc = [r \in Runner |-> "idle"]
  /\ job = [r \in Runner |-> None]
  /\ permit = [r \in Runner |-> "none"]
  /\ pos = [r \in Runner |-> 0]
  /\ hash = [r \in Runner |-> "good"]
  /\ source = [r \in Runner |-> "file"]
  /\ open = [r \in Runner |-> FALSE]
  /\ net = NoApply
  /\ h = IdleHandler
  /\ requests = 0
  /\ crashes = 0

-----------------------------------------------------------------------------
(* Runners: what several steps share. *)

Goto(r, label) == pc' = [pc EXCEPT ![r] = label]

Stored(t, k) == tasks' = [tasks EXCEPT ![t] = k]

\* Dropping the OwnedSemaphorePermit.  A permit of a semaphore that
\* set_node_config has replaced goes back to the replaced one.
ReleasePermit(r) ==
  /\ permit' = [permit EXCEPT ![r] = "none"]
  /\ slotFree' = slotFree + (IF permit[r] = "current" THEN 1 ELSE 0)

Finish(r) ==
  /\ Goto(r, "idle")
  /\ ReleasePermit(r)
  /\ job' = [job EXCEPT ![r] = None]
  /\ pos' = [pos EXCEPT ![r] = 0]
  /\ hash' = [hash EXCEPT ![r] = "good"]
  /\ source' = [source EXCEPT ![r] = "file"]

\* run() returns Err: its locals, the permit among them, are dropped before
\* spawn() looks at the task.
Raise(r) ==
  /\ Goto(r, "error")
  /\ ReleasePermit(r)
  /\ UNCHANGED <<job, pos, hash, source>>

Continue(r, label) ==
  /\ Goto(r, label)
  /\ UNCHANGED <<job, permit, slotFree, pos, hash, source>>

Close(r) == open' = [open EXCEPT ![r] = FALSE]

\* Removing a path detaches the handles that are open on it.
Remove(t) ==
  /\ part' = [part EXCEPT ![t] = NoFile]
  /\ open' = [r \in Runner |-> open[r] /\ job[r] # t]

\* let _ = fail(..): the task fails, or its store does and nobody notices.
Fail(t, s) ==
  \/ Stored(t, TxSet(tasks[t], s))
  \/ "store" \in Faults /\ UNCHANGED tasks

Spawn(r, t) ==
  /\ pc[r] = "idle"
  /\ Goto(r, "sched")
  /\ job' = [job EXCEPT ![r] = t]
  /\ UNCHANGED <<permit, slotFree, pos, hash, source, open>>

outside == <<cfg, h, requests, crashes>>  \* what no runner changes

-----------------------------------------------------------------------------
(* A runner waits for its turn (run(), the loop under the scheduler lock).  *)

\* Mutant: the scheduler lock excludes nobody.
RunnerLockUnlocked(r) ==
  /\ pc[r] = "sched"
  /\ IF tasks[job[r]].state = "Queued"
     THEN scheduler' = r /\ Continue(r, "pick")
     ELSE Finish(r) /\ UNCHANGED scheduler
  /\ UNCHANGED <<tasks, files, open, net, outside>>

\* Takes the scheduler lock; a task that is no longer queued needs no runner.
RunnerLock(r) ==
  /\ pc[r] = "sched" /\ scheduler = None
  /\ IF tasks[job[r]].state = "Queued"
     THEN scheduler' = r /\ Continue(r, "pick")
     ELSE Finish(r) /\ UNCHANGED scheduler
  /\ UNCHANGED <<tasks, files, open, net, outside>>

\* Mutant: the runner sleeps without dropping the lock.
RunnerWaitKeepsLock(r) ==
  /\ pc[r] = "pick"
  /\ ~next_queued(tasks, job[r]) \/ slotFree = 0
  /\ UNCHANGED scheduler
  /\ IF \E t \in Task : tasks[t].state = "Queued"
     THEN Continue(r, "sched") ELSE Raise(r)
  /\ UNCHANGED <<tasks, files, open, net, outside>>

\* next_queued() names another task, or there is no permit: sleep and retry.
\* When the queue became empty meanwhile, run() returns an error.
RunnerWait(r) ==
  /\ pc[r] = "pick"
  /\ ~next_queued(tasks, job[r]) \/ slotFree = 0
  /\ scheduler' = None
  /\ IF \E t \in Task : tasks[t].state = "Queued"
     THEN Continue(r, "sched") ELSE Raise(r)
  /\ UNCHANGED <<tasks, files, open, net, outside>>

\* Takes a permit and asks whether the current network allows the task.
RunnerPick(r) ==
  /\ pc[r] = "pick"
  /\ next_queued(tasks, job[r]) /\ slotFree > 0
  /\ permit' = [permit EXCEPT ![r] = "current"]
  /\ slotFree' = slotFree - 1
  /\ IF network_restricted(job[r], cfg)
     THEN /\ Goto(r, "net")
          /\ net' = [pause  |-> {t \in Task : ToPause(t, tasks[t], cfg)},
                     resume |-> {t \in Task : ToResume(t, tasks[t], cfg)}]
     ELSE Goto(r, "mark") /\ UNCHANGED net
  /\ UNCHANGED <<tasks, files, scheduler, job, pos, hash, source, open, outside>>

\* apply_network_class() from the runner: one transaction per task of the
\* list it took, whatever has become of the task since.  The tasks it
\* resumes are in an effect that run() drops.
RunnerNetwork(r) ==
  /\ pc[r] = "net"
  /\ \/ \E t \in net.pause :
          /\ Stored(t, TxNetworkPause(tasks[t]))
          /\ net' = [net EXCEPT !.pause = @ \ {t}]
     \/ \E t \in net.resume :
          /\ Stored(t, TxNetworkResume(tasks[t]))
          /\ net' = [net EXCEPT !.resume = @ \ {t}]
  /\ UNCHANGED <<files, scheduler, slotFree, rvars, outside>>

\* A transaction of apply_network_class() fails: run() ends all the same.
RunnerNetworkFails(r) ==
  /\ pc[r] = "net" /\ net # NoApply /\ "store" \in Faults
  /\ net' = NoApply
  /\ scheduler' = None
  /\ Finish(r)
  /\ UNCHANGED <<tasks, files, open, outside>>

RunnerNetworkDone(r) ==
  /\ pc[r] = "net" /\ net = NoApply
  /\ scheduler' = None
  /\ Finish(r)
  /\ UNCHANGED <<tasks, files, open, net, outside>>

\* mark_resolving(): transition() checks a snapshot ...
RunnerMarkCheck(r) ==
  /\ pc[r] = "mark"
  /\ IF transition_allowed(tasks[job[r]].state, "Resolving")
     THEN Continue(r, "mark_write") /\ UNCHANGED scheduler
     ELSE Raise(r) /\ scheduler' = None
  /\ UNCHANGED <<tasks, files, open, net, outside>>

\* ... and then writes, whatever the state is by now.
RunnerMark(r) ==
  /\ pc[r] = "mark_write"
  /\ Stored(job[r], TxSet(tasks[job[r]], "Resolving"))
  /\ scheduler' = None
  /\ Continue(r, "fetch")
  /\ UNCHANGED <<files, open, net, outside>>

-----------------------------------------------------------------------------
(* A runner fetches the content.                                           *)

\* node.cat(): a local object may still fail to be read.
Local(r)    == object[job[r]] = "intact"
NotLocal(r) == object[job[r]] # "intact" \/ "disk" \in Faults

\* The object is in the local repository, or a peer has the block: the bytes
\* are in memory and match the CID.  write_stream_part() creates the part file
\* for them; its errors are ignored.
RunnerFetchWhole(r) ==
  /\ pc[r] = "fetch"
  /\ Local(r) \/ "good" \in Provider
  /\ source' = [source EXCEPT ![r] = "memory"]
  /\ \/ /\ part' = [part EXCEPT ![job[r]] = Empty]
        /\ open' = [open EXCEPT ![r] = TRUE]
        /\ Goto(r, "fill")
     \/ /\ "disk" \in Faults
        /\ Goto(r, "progress")
        /\ UNCHANGED <<part, open>>
  /\ UNCHANGED <<tasks, object, dest, doomed, scheduler, slotFree, job, permit, pos, hash,
                 net, outside>>

\* ... and fills it.
RunnerFill(r) ==
  /\ pc[r] = "fill"
  /\ \/ part' = IF open[r] /\ part[job[r]] # NoFile
                THEN [part EXCEPT ![job[r]] = Full] ELSE part
     \/ "disk" \in Faults /\ UNCHANGED part
  /\ Close(r)
  /\ Continue(r, "progress")
  /\ UNCHANGED <<tasks, object, dest, doomed, scheduler, net, outside>>

\* Otherwise it streams: File::create truncates the part file, then the
\* gateway is asked for the content.
RunnerFetchStream(r) ==
  /\ pc[r] = "fetch" /\ NotLocal(r)
  /\ part' = [part EXCEPT ![job[r]] = Empty]
  /\ \/ /\ open' = [open EXCEPT ![r] = TRUE]
        /\ Continue(r, "chunk")
     \/ /\ "error" \in Provider
        /\ Raise(r)
        /\ UNCHANGED open
  /\ UNCHANGED <<tasks, object, dest, doomed, scheduler, net, outside>>

\* A peer's block exceeds storage_limit_bytes, or there is no part file to
\* stream into.
RunnerFetchFails(r) ==
  /\ pc[r] = "fetch" /\ NotLocal(r)
  /\ "toobig" \in Provider \/ "disk" \in Faults
  /\ Raise(r)
  /\ UNCHANGED <<tasks, files, scheduler, open, net, outside>>

\* record_progress() for content that arrived whole, whose CID may then turn
\* out to have a codec nobody supports.
RunnerProgress(r) ==
  /\ pc[r] = "progress"
  /\ Stored(job[r], TxProgress(tasks[job[r]]))
  /\ \/ ~is_terminal(tasks[job[r]].state) /\ Continue(r, "verify")
     \/ /\ is_terminal(tasks[job[r]].state) \/ "codec" \in Provider
        /\ Raise(r)
  /\ UNCHANGED <<files, scheduler, open, net, outside>>

\* Mutant: reads on after the last chunk.
RunnerChunkPastEnd(r) ==
  /\ pc[r] = "chunk"
  /\ tasks[job[r]].state # "Paused"
  /\ IF tasks[job[r]].state \in {"Cancelled", "Queued"}
     THEN Raise(r) /\ Close(r)
     ELSE Continue(r, "write") /\ UNCHANGED open
  /\ UNCHANGED <<tasks, files, scheduler, net, outside>>

\* wait_if_paused() before a chunk is used: a paused runner sleeps, with its
\* permit; a cancelled or re-queued one gives up.
RunnerChunk(r) ==
  /\ pc[r] = "chunk" /\ pos[r] < Chunks
  /\ tasks[job[r]].state # "Paused"
  /\ IF tasks[job[r]].state \in {"Cancelled", "Queued"}
     THEN Raise(r) /\ Close(r)
     ELSE Continue(r, "write") /\ UNCHANGED open
  /\ UNCHANGED <<tasks, files, scheduler, net, outside>>

\* The stream or the disk fails, or the content exceeds storage_limit_bytes.
RunnerChunkError(r) ==
  /\ pc[r] = "write"
  /\ \/ ("error" \in Provider \/ "disk" \in Faults) /\ Close(r) /\ UNCHANGED part
     \/ "toobig" \in Provider /\ Remove(job[r])
  /\ Raise(r)
  /\ UNCHANGED <<tasks, object, dest, doomed, scheduler, net, outside>>

\* Writes the chunk at its offset and hashes it ...
RunnerWrite(r) ==
  /\ pc[r] = "write"
  /\ \E q \in Provider \cap {"good", "bad"} :
       /\ part' = IF open[r] /\ part[job[r]] # NoFile
                  THEN [part EXCEPT ![job[r]][pos[r] + 1] = q] ELSE part
       /\ hash' = [hash EXCEPT ![r] = IF q = "bad" THEN "bad" ELSE @]
  /\ pos' = [pos EXCEPT ![r] = @ + 1]
  /\ Goto(r, "record")
  /\ UNCHANGED <<tasks, object, dest, doomed, scheduler, slotFree, job, permit, source,
                 open, net, outside>>

\* ... and records the progress, which makes any task that is not terminal a
\* transferring one.
RunnerRecord(r) ==
  /\ pc[r] = "record"
  /\ Stored(job[r], TxProgress(tasks[job[r]]))
  /\ IF is_terminal(tasks[job[r]].state)
     THEN Raise(r) /\ Close(r)
     ELSE Continue(r, "meter") /\ UNCHANGED open
  /\ UNCHANGED <<files, scheduler, net, outside>>

\* On a cellular network the bytes of the chunk count against the task's limit;
\* a task found paused after that is left.  Content that arrived whole is
\* never counted.
RunnerMeter(r) ==
  /\ pc[r] = "meter"
  /\ \E n \in 1..ChunkBytes :
       LET k == IF cfg.network = "cellular" THEN TxCellular(job[r], tasks[job[r]], n)
                ELSE tasks[job[r]]
       IN /\ Stored(job[r], k)
          /\ IF cfg.network = "cellular" /\ k.state = "Paused"
             THEN Raise(r) /\ Close(r)
             ELSE Continue(r, "chunk") /\ UNCHANGED open
  /\ UNCHANGED <<files, scheduler, net, outside>>

\* The stream ends; what is left is written back.  When the digest of the bytes
\* received is not the CID's, the part file goes ...
RunnerStreamEnd(r) ==
  /\ pc[r] = "chunk" /\ pos[r] = Chunks
  /\ \/ hash[r] = "good" /\ Continue(r, "verify") /\ Close(r) /\ UNCHANGED part
     \/ hash[r] = "bad" /\ Continue(r, "discard") /\ Remove(job[r])
     \/ "disk" \in Faults /\ Raise(r) /\ Close(r) /\ UNCHANGED part
     \/ /\ "disk" \in Faults /\ hash[r] = "bad"
        /\ Continue(r, "discard") /\ Close(r) /\ UNCHANGED part
  /\ UNCHANGED <<tasks, object, dest, doomed, scheduler, net, outside>>

\* ... and the task fails for good, whatever its state.
RunnerDiscard(r) ==
  /\ pc[r] = "discard"
  /\ Fail(job[r], "IntegrityFailed")
  /\ Finish(r)
  /\ UNCHANGED <<files, scheduler, open, net, outside>>

-----------------------------------------------------------------------------
(* A runner verifies and commits (verify_and_commit, verify_and_commit_file,*)
(* put_verified, put_verified_file, commit_destination).                    *)

RunnerVerifyCheck(r) ==
  /\ pc[r] = "verify"
  /\ IF transition_allowed(tasks[job[r]].state, "Verifying")
     THEN Continue(r, "verify_write") ELSE Raise(r)
  /\ UNCHANGED <<tasks, files, scheduler, open, net, outside>>

RunnerVerify(r) ==
  /\ pc[r] = "verify_write"
  /\ Stored(job[r], TxSet(tasks[job[r]], "Verifying"))
  /\ Continue(r, "hash")
  /\ UNCHANGED <<files, scheduler, open, net, outside>>

\* The repository hashes the bytes in memory, or reads the part file through.
RunnerHash(r) ==
  /\ pc[r] = "hash"
  /\ IF source[r] = "memory" \/ part[job[r]] = Full
     THEN Continue(r, "put") /\ UNCHANGED tasks
     ELSE /\ Fail(job[r], IF part[job[r]] = NoFile THEN "Failed" ELSE "IntegrityFailed")
          /\ Raise(r)
  /\ UNCHANGED <<files, scheduler, open, net, outside>>

\* What put_verified() or put_verified_file() leaves under the CID.
PutObject(r) ==
  /\ source[r] = "memory" \/ part[job[r]] # NoFile
  /\ object' = [object EXCEPT ![job[r]] =
                  IF source[r] = "memory" \/ part[job[r]] = Full
                  THEN "intact" ELSE "corrupt"]

\* Mutant: a refused object is taken for stored.
RunnerPutIgnoresRefusal(r) ==
  /\ pc[r] = "put"
  /\ \/ PutObject(r)
     \/ /\ "quota" \in Provider \/ (source[r] = "file" /\ part[job[r]] = NoFile)
        /\ UNCHANGED object
  /\ Continue(r, "commit")
  /\ UNCHANGED <<tasks, part, dest, doomed, scheduler, open, net, outside>>

\* ... and then stores the bytes in memory, or copies the part file as it is
\* by now.  The quota may refuse the object, and a file call or the eviction
\* that follows may fail, before the object is there or after.
RunnerPut(r) ==
  /\ pc[r] = "put"
  /\ \/ PutObject(r) /\ Continue(r, "commit") /\ UNCHANGED tasks
     \/ /\ \/ /\ \/ "quota" \in Provider \/ "disk" \in Faults
                 \/ source[r] = "file" /\ part[job[r]] = NoFile
              /\ UNCHANGED object
           \/ "disk" \in Faults /\ PutObject(r)
        /\ Fail(job[r], "Failed")
        /\ Raise(r)
  /\ UNCHANGED <<part, dest, doomed, scheduler, open, net, outside>>

RunnerCommitCheck(r) ==
  /\ pc[r] = "commit"
  /\ IF transition_allowed(tasks[job[r]].state, "Committing")
     THEN Continue(r, "commit_write") ELSE Raise(r)
  /\ UNCHANGED <<tasks, files, scheduler, open, net, outside>>

RunnerCommit(r) ==
  /\ pc[r] = "commit_write"
  /\ Stored(job[r], TxSet(tasks[job[r]], "Committing"))
  /\ Continue(r, "complete")
  /\ UNCHANGED <<files, scheduler, open, net, outside>>

RunnerComplete(r) ==
  /\ pc[r] = "complete"
  /\ Stored(job[r], TxSet(tasks[job[r]], "Completed"))
  /\ IF job[r] \in WithDestination THEN Continue(r, "dest") ELSE Finish(r)
  /\ UNCHANGED <<files, scheduler, open, net, outside>>

\* commit_destination() refuses an existing target, a missing source and a
\* temporary file some earlier copy left behind.
RunnerDestination(r) ==
  /\ pc[r] = "dest"
  /\ IF dest[job[r]] = "none" /\ (source[r] = "memory" \/ part[job[r]] # NoFile)
     THEN dest' = [dest EXCEPT ![job[r]] = "temporary"] /\ Continue(r, "dest_rename")
     ELSE Raise(r) /\ UNCHANGED dest
  /\ UNCHANGED <<tasks, object, part, doomed, scheduler, open, net, outside>>

RunnerDestinationRename(r) ==
  /\ pc[r] = "dest_rename"
  /\ dest' = [dest EXCEPT ![job[r]] =
                IF source[r] = "memory" \/ part[job[r]] \in {Full, NoFile}
                THEN "intact" ELSE "corrupt"]
  /\ Finish(r)
  /\ UNCHANGED <<tasks, object, part, doomed, scheduler, open, net, outside>>

\* spawn(): an error of run() fails the task only when it is still resolving
\* or transferring; the check and the write are two steps.
RunnerErrorCheck(r) ==
  /\ pc[r] = "error"
  /\ IF tasks[job[r]].state \in {"Resolving", "Transferring"}
     THEN Continue(r, "fail_write") ELSE Finish(r)
  /\ UNCHANGED <<tasks, files, scheduler, open, net, outside>>

RunnerFail(r) ==
  /\ pc[r] = "fail_write"
  /\ Fail(job[r], "Failed")
  /\ Finish(r)
  /\ UNCHANGED <<files, scheduler, open, net, outside>>

\* The task store refuses a transaction whose error run() returns.
RunnerStoreFails(r) ==
  /\ "store" \in Faults
  /\ pc[r] \in {"mark_write", "progress", "record", "meter", "verify_write",
                "commit_write", "complete"}
  /\ scheduler' = IF pc[r] = "mark_write" THEN None ELSE scheduler
  /\ Raise(r)
  /\ Close(r)
  /\ UNCHANGED <<tasks, files, net, outside>>

RunnerStep(r) ==
  \/ RunnerLock(r) \/ RunnerWait(r) \/ RunnerPick(r) \/ RunnerNetwork(r)
  \/ RunnerNetworkDone(r) \/ RunnerMarkCheck(r) \/ RunnerMark(r)
  \/ RunnerFetchWhole(r) \/ RunnerFetchStream(r) \/ RunnerProgress(r)
  \/ RunnerChunk(r) \/ RunnerChunkError(r) \/ RunnerWrite(r) \/ RunnerMeter(r)
  \/ RunnerStreamEnd(r) \/ RunnerVerifyCheck(r) \/ RunnerVerify(r) \/ RunnerHash(r)
  \/ RunnerPut(r) \/ RunnerCommitCheck(r) \/ RunnerCommit(r) \/ RunnerComplete(r)
  \/ RunnerDestination(r) \/ RunnerDestinationRename(r)
  \/ RunnerErrorCheck(r) \/ RunnerFail(r)
  \/ RunnerNetworkFails(r) \/ RunnerFill(r) \/ RunnerFetchFails(r) \/ RunnerRecord(r)
  \/ RunnerDiscard(r) \/ RunnerStoreFails(r)

-----------------------------------------------------------------------------
(* The HTTP handler.  A request that is refused changes nothing and is left *)
(* out.                                                                     *)

runners == <<scheduler, slotFree, rvars, net>>  \* what most handler steps keep

Request(op, t) ==
  /\ h.pc = "idle" /\ op \in Operation
  /\ requests < MaxRequests
  /\ requests' = requests + 1
  /\ UNCHANGED <<files, runners, crashes>>

HandlerAt(label) == h' = [h EXCEPT !.pc = label]
HandlerDone      == h' = IdleHandler

\* Mutant: a known request_id creates the task anew.
CreateTransferTwice(t, p) ==
  /\ Request("create", t)
  /\ Stored(t, TxCreate(p))
  /\ h' = [h EXCEPT !.pc = "list", !.op = "create", !.task = t]
  /\ UNCHANGED cfg

\* create_transfer(): a request_id that is known returns the existing task.
CreateTransfer(t, p) ==
  /\ Request("create", t)
  /\ Stored(t, IF tasks[t].state = "Absent" THEN TxCreate(p) ELSE tasks[t])
  /\ h' = [h EXCEPT !.pc = "list", !.op = "create", !.task = t]
  /\ UNCHANGED cfg

\* set_favorite() and replicate_publication() create pin transfers and spawn
\* their runners without applying the network class.
AssistPin(t) ==
  /\ Request("assist_pin", t)
  /\ t \notin WifiOnly \cup WithDestination /\ CellularLimit[t] = NoLimit
  /\ LET k == IF tasks[t].state = "Absent" THEN TxCreate(0) ELSE tasks[t]
     IN /\ Stored(t, k)
        /\ k.state = "Queued"
        /\ h' = [h EXCEPT !.pc = "spawn", !.op = "assist_pin", !.task = t]
  /\ UNCHANGED cfg

\* pause, resume, cancel, retry and priority start from a snapshot.
Allowed(op, s) ==
  CASE op = "pause"    -> transition_allowed(s, "Paused")
    [] op = "resume"   -> transition_allowed(s, "Queued")
    [] op = "cancel"   -> transition_allowed(s, "Cancelled")
    [] op = "retry"    -> s = "Failed"
    [] op = "priority" -> s \in {"Queued", "Paused"}

ControlTransfer(op, t, p) ==
  /\ Request(op, t)
  /\ Allowed(op, tasks[t].state)
  /\ p = 0 \/ op = "priority"
  /\ h' = [h EXCEPT !.pc = "write", !.op = op, !.task = t, !.priority = p]
  /\ UNCHANGED <<tasks, cfg>>

\* ... and write without looking again.
HandlerWrite ==
  /\ h.pc = "write"
  /\ LET k == tasks[h.task]
     IN \/ h.op = "pause"    /\ Stored(h.task, TxSet(k, "Paused")) /\ HandlerAt("unflag")
        \/ h.op = "resume"   /\ Stored(h.task, TxSet(k, "Queued")) /\ HandlerAt("unflag")
        \/ h.op = "cancel"   /\ Stored(h.task, TxSet(k, "Cancelled")) /\ HandlerDone
        \/ h.op = "retry"    /\ Stored(h.task, TxRetry(k)) /\ HandlerAt("list")
        \/ h.op = "priority" /\ Stored(h.task, TxPriority(k, h.priority)) /\ HandlerDone
  /\ UNCHANGED <<files, cfg, runners, requests, crashes>>

\* pause() and resume() end by clearing the network flag.
HandlerUnflag ==
  /\ h.pc = "unflag"
  /\ Stored(h.task, TxPausedByNetwork(tasks[h.task], FALSE))
  /\ IF h.op = "pause" THEN HandlerDone ELSE HandlerAt("list")
  /\ UNCHANGED <<files, cfg, runners, requests, crashes>>

\* set_node_config(): the configuration first ...
SetNodeConfig(c) ==
  /\ Request("config", None)
  /\ cfg' = c
  /\ h' = [h EXCEPT !.pc = "slots", !.op = "config"]
  /\ UNCHANGED tasks

\* Mutant: a new semaphore whose permits the old runners return.
HandlerSlotsMixed ==
  /\ h.pc = "slots"
  /\ slotFree' = cfg.max
  /\ permit' = [r \in Runner |-> permit[r]]
  /\ HandlerAt("list")
  /\ UNCHANGED <<tasks, files, cfg, scheduler, pc, job, pos, hash, source, open,
                 net, requests, crashes>>

\* ... then a new semaphore: permits in use belong to the old one ...
HandlerSlots ==
  /\ h.pc = "slots"
  /\ slotFree' = cfg.max
  /\ permit' = [r \in Runner |-> IF permit[r] = "current" THEN "replaced" ELSE permit[r]]
  /\ HandlerAt("list")
  /\ UNCHANGED <<tasks, files, cfg, scheduler, pc, job, pos, hash, source, open,
                 net, requests, crashes>>

\* ... then the network class: a list of the tasks, and a transaction for
\* each of those it wants to pause or resume.
HandlerList ==
  /\ h.pc = "list"
  /\ h' = [h EXCEPT !.pc = "apply",
             !.apply = [pause  |-> {t \in Task : ToPause(t, tasks[t], cfg)},
                        resume |-> {t \in Task : ToResume(t, tasks[t], cfg)}]]
  /\ UNCHANGED <<tasks, files, cfg, runners, requests, crashes>>

HandlerApply ==
  /\ h.pc = "apply"
  /\ \/ \E t \in h.apply.pause :
          /\ Stored(t, TxNetworkPause(tasks[t]))
          /\ h' = [h EXCEPT !.apply.pause = @ \ {t}]
     \/ \E t \in h.apply.resume :
          /\ Stored(t, TxNetworkResume(tasks[t]))
          /\ h' = [h EXCEPT !.apply.resume = @ \ {t}, !.resumed = @ \cup {t}]
  /\ UNCHANGED <<files, cfg, runners, requests, crashes>>

HandlerApplied ==
  /\ h.pc = "apply" /\ h.apply = NoApply
  /\ HandlerAt("spawn_resumed")
  /\ UNCHANGED <<tasks, files, cfg, runners, requests, crashes>>

\* Mutant: the resumed tasks are forgotten, as in the runner.
HandlerSpawnResumedDropped ==
  /\ h.pc = "spawn_resumed"
  /\ IF TRUE
     THEN /\ IF h.op = "config" THEN HandlerDone ELSE HandlerAt("get")
          /\ UNCHANGED <<slotFree, rvars>>
     ELSE \E t \in h.resumed, r \in Runner :
            Spawn(r, t) /\ h' = [h EXCEPT !.resumed = @ \ {t}]
  /\ UNCHANGED <<tasks, files, cfg, scheduler, net, requests, crashes>>

HandlerSpawnResumed ==
  /\ h.pc = "spawn_resumed"
  /\ IF h.resumed = {}
     THEN /\ IF h.op = "config" THEN HandlerDone ELSE HandlerAt("get")
          /\ UNCHANGED <<slotFree, rvars>>
     ELSE \E t \in h.resumed, r \in Runner :
            Spawn(r, t) /\ h' = [h EXCEPT !.resumed = @ \ {t}]
  /\ UNCHANGED <<tasks, files, cfg, scheduler, net, requests, crashes>>

\* create, resume and retry spawn a runner when the task is still queued.
HandlerGet ==
  /\ h.pc = "get"
  /\ IF tasks[h.task].state = "Queued" THEN HandlerAt("spawn") ELSE HandlerDone
  /\ UNCHANGED <<tasks, files, cfg, runners, requests, crashes>>

HandlerSpawn ==
  /\ h.pc = "spawn"
  /\ \E r \in Runner : Spawn(r, h.task)
  /\ HandlerDone
  /\ UNCHANGED <<tasks, files, cfg, scheduler, net, requests, crashes>>

\* The task store refuses a transaction: the request fails where it is, and
\* spawns nobody.
HandlerStoreFails ==
  /\ "store" \in Faults
  /\ h.pc \in {"write", "unflag"} \/ (h.pc = "apply" /\ h.apply # NoApply)
  /\ HandlerDone
  /\ UNCHANGED <<tasks, files, cfg, runners, requests, crashes>>

HandlerStep ==
  \/ HandlerWrite \/ HandlerUnflag \/ HandlerSlots \/ HandlerList \/ HandlerApply
  \/ HandlerApplied \/ HandlerSpawnResumed \/ HandlerGet \/ HandlerSpawn
  \/ HandlerStoreFails

ClientRequest ==
  \/ \E t \in Task, p \in Priority : CreateTransfer(t, p)
  \/ \E t \in Task : AssistPin(t)
  \/ \E op \in Operations \ {"create", "assist_pin", "config"}, t \in Task, p \in Priority :
       ControlTransfer(op, t, p)
  \/ \E c \in Config : SetNodeConfig(c)

-----------------------------------------------------------------------------
(* The environment. *)

Swept(t) == tasks[t].state \in {"Absent", "Completed", "Failed", "Cancelled",
                                "IntegrityFailed"}

\* sweep_transfer_parts(), which a stream request of another task runs without
\* the idempotency lock: it looks at the task and then removes the file.
SweepJudge(t) ==
  /\ Sweeping
  /\ Swept(t) /\ part[t] # NoFile
  /\ doomed' = doomed \cup {t}
  /\ UNCHANGED <<tasks, object, part, dest, cfg, runners, h, requests,
                 crashes>>

SweepRemove(t) ==
  /\ t \in doomed
  /\ doomed' = doomed \ {t}
  /\ Remove(t)
  /\ UNCHANGED <<tasks, object, dest, cfg, scheduler, slotFree, pc, job, permit, pos,
                 hash, source, net, h, requests, crashes>>

\* The process dies and starts again: open() puts the tasks in flight back
\* into the queue, new() sweeps the part files, build_router() spawns a runner
\* for each queued task.
Restart ==
  /\ crashes < MaxCrashes
  /\ crashes' = crashes + 1
  /\ tasks' = [t \in Task |-> TxRecover(tasks[t])]
  /\ part' = [t \in Task |-> IF Swept(t) THEN NoFile ELSE part[t]]
  /\ doomed' = {}
  /\ scheduler' = None
  /\ slotFree' = cfg.max
  /\ \E f \in [{t \in Task : tasks'[t].state = "Queued"} -> Runner] :
       /\ \A t, u \in DOMAIN f : t # u => f[t] # f[u]
       /\ job' = [r \in Runner |-> IF \E t \in DOMAIN f : f[t] = r
                                   THEN CHOOSE t \in DOMAIN f : f[t] = r ELSE None]
  /\ pc' = [r \in Runner |-> IF job'[r] = None THEN "idle" ELSE "sched"]
  /\ permit' = [r \in Runner |-> "none"]
  /\ pos' = [r \in Runner |-> 0]
  /\ hash' = [r \in Runner |-> "good"]
  /\ source' = [r \in Runner |-> "file"]
  /\ open' = [r \in Runner |-> FALSE]
  /\ net' = NoApply
  /\ h' = IdleHandler
  /\ UNCHANGED <<object, dest, cfg, requests>>

Next ==
  \/ \E r \in Runner : RunnerStep(r)
  \/ HandlerStep
  \/ ClientRequest
  \/ \E t \in Task : SweepJudge(t) \/ SweepRemove(t)
  \/ Restart

Spec == Init /\ [][Next]_vars

\* The runtime polls every task and wakes a sleeping one, the scheduler's lock
\* queues its waiters (tokio's Mutex is fair), and a handler that has begun
\* runs to its end.  Clients, the environment and crashes owe nothing.
Fairness ==
  /\ \A r \in Runner : SF_vars(RunnerLock(r)) /\ WF_vars(RunnerStep(r))
  /\ WF_vars(HandlerStep)

FairSpec == Spec /\ Fairness

-----------------------------------------------------------------------------
(* Properties. *)

\* DST-008: a task reads completed only after its content passed the CID check
\* and was stored; whichever runner is about to complete it has stored it.
CompletedIsStored ==
  \A t \in Task : tasks[t].state = "Completed" => object[t] # "absent"

\* DST-008: what a completed task left in the repository is its content.
CompletedIsIntact ==
  \A t \in Task : tasks[t].state = "Completed" => object[t] = "intact"

\* A runner on its way to start its task, or to pause it for the network.
WillStart(r) ==
  \/ pc[r] \in {"sched", "pick", "mark", "mark_write"}
  \/ pc[r] = "net" /\ job[r] \in net.pause

\* A handler on its way to spawn a runner.
WillSpawn(t) ==
  \/ t \in h.resumed
  \/ h.task = t /\ h.op \in {"create", "assist_pin", "resume", "retry"}

\* A queued task nobody will start blocks every task behind it.
Stranded ==
  {t \in Task : /\ tasks[t].state = "Queued"
                /\ ~WillSpawn(t) /\ \A r \in Runner : job[r] = t => ~WillStart(r)}

\* Every interleaving of runners, requests and changes of the network class,
\* and every restart, leaves a queued task with somebody who will start it.  A
\* task is stranded in two ways only: a runner re-queues it for the network and
\* drops the effect, or a transaction of the task store fails under the runner
\* or the request that had it in hand.
StrandedHasCause ==
  [][\A t \in Stranded' \ Stranded :
       \/ HandlerStoreFails /\ WillSpawn(t)
       \/ \E r \in Runner :
            \/ RunnerNetwork(r) /\ t \in net.resume
            \/ RunnerNetworkFails(r) /\ t = job[r]
            \/ RunnerStoreFails(r) /\ t = job[r]]_vars

\* Nothing is queued and forgotten.  No run checks it: it is false of the code.
QueuedIsServed == Stranded = {}

Working(r) == permit[r] # "none"

\* Between taking transfer_scheduler and marking the task resolving.
Deciding(r) == pc[r] \in {"pick", "net", "mark", "mark_write"}

\* Two runners never decide at once, so that a task is picked and marked by one
\* runner, however many were spawned for it.
SchedulerExclusive == \A r, q \in Runner : Deciding(r) /\ Deciding(q) => r = q

\* No path through run(), its error paths included, loses a permit or returns
\* one twice, and set_node_config never mixes the permits of two semaphores.
SlotsConserved ==
  h.pc # "slots" =>
    slotFree + Cardinality({r \in Runner : permit[r] = "current"}) = cfg.max

\* The permits in use never exceed max_concurrent_transfers.
ConcurrencyBound == Cardinality({r \in Runner : Working(r)}) <= cfg.max

\* Only one runner works on a task: the one a resume spawns takes over.
OneRunnerPerTask ==
  \A r, q \in Runner : r # q /\ Working(r) /\ Working(q) => job[r] # job[q]

\* NOD-006: once a change of configuration has been answered, no task that
\* requires Wi-Fi is at work over a cellular network.
WifiOnlyObeyed ==
  h.pc = "idle" /\ cfg.network = "cellular" =>
    \A t \in WifiOnly : tasks[t].state \notin InFlight

\* DST-010: what a task streams over the cellular network exceeds its limit by
\* less than one chunk: the chunk that reaches the limit pauses the task, and
\* neither a crash nor another runner of the task receives a further one.
CellularWithinOneChunk ==
  \A t \in Task : CellularLimit[t] \notin {NoLimit, 0} =>
    tasks[t].cellular_bytes_used < CellularLimit[t] + ChunkBytes

\* A terminal task never leaves its state.
TerminalStays ==
  [][\A t \in Task : is_terminal(tasks[t].state) => tasks'[t].state = tasks[t].state]_vars

\* A completed task with a destination has the file there once its runner is done.
CompletedIsDelivered ==
  \A t \in WithDestination :
    tasks[t].state = "Completed" /\ (\A r \in Runner : job[r] # t) => dest[t] = "intact"

\* A task that waits in the queue does not wait forever, across restarts too,
\* as long as nobody pauses the tasks that hold the slots.
QueueMoves ==
  \A t \in Task : tasks[t].state = "Queued" ~> tasks[t].state # "Queued"

\* What was started ends: no task is left in the middle of its work.
WorkEnds ==
  \A t \in Task : tasks[t].state \in InFlight ~>
    tasks[t].state \in {"Completed", "Failed", "Cancelled", "IntegrityFailed"}
=============================================================================
