---------------------------- MODULE TransferTasks ----------------------------
(***************************************************************************)
(* The persistent transfer task and the transactions TransferService runs  *)
(* on it (src/backend/app-core/src/transfer_service.rs).  Every operator   *)
(* whose name starts with Tx is the body of one store.transact closure: it *)
(* maps a task to the task the closure leaves behind, so one application   *)
(* is one atomic, durable step.  What happens BETWEEN the snapshot an      *)
(* operation checks and the transaction it then runs is modelled by the    *)
(* modules that use these operators.                                       *)
(*                                                                         *)
(* Content is counted in chunks, and in bytes where the cellular limit of  *)
(* a task is concerned.  Progress, speed, providers, timestamps, retry     *)
(* counts and error envelopes are left out: no decision of the code reads  *)
(* them.                                                                   *)
(***************************************************************************)
EXTENDS Naturals

CONSTANTS Task,       \* identifiers of tasks; a number stands for the order
                      \* (created_at, task_id) in which list() sorts equals
          Priority,   \* the priorities a request may ask for
          WifiOnly,   \* the tasks whose network_policy.wifi_only is set
          CellularLimit, \* cellular_limit_bytes of a task
          NoLimit     \* cellular_limit_bytes: None

ASSUME TaskAssumption ==
  /\ Task \subseteq Nat
  /\ Priority \subseteq Nat /\ 0 \in Priority
  /\ WifiOnly \subseteq Task
  /\ NoLimit \notin Nat
  /\ CellularLimit \in [Task -> Nat \cup {NoLimit}]

TransferState == {"Queued", "Resolving", "Transferring", "Paused", "Verifying",
                  "Committing", "Completed", "Failed", "Cancelled",
                  "IntegrityFailed"}

\* A task that was never created has the state "Absent".
TaskRecord == [state : TransferState \cup {"Absent"},
               priority : Priority,
               paused_by_network : BOOLEAN,
               cellular_bytes_used : Nat]

AbsentTask == [state |-> "Absent", priority |-> 0,
               paused_by_network |-> FALSE, cellular_bytes_used |-> 0]

is_terminal(s) == s \in {"Completed", "Cancelled", "IntegrityFailed"}

InFlight == {"Resolving", "Transferring", "Verifying", "Committing"}

transition_allowed(from, to) ==
  \/ from = "Queued"       /\ to \in {"Resolving", "Paused", "Cancelled"}
  \/ from = "Resolving"    /\ to \in {"Transferring", "Paused", "Cancelled"}
  \/ from = "Transferring" /\ to \in {"Transferring", "Paused", "Cancelled",
                                      "Verifying"}
  \/ from = "Paused"       /\ to \in {"Queued", "Cancelled"}
  \/ from = "Failed"       /\ to = "Queued"
  \/ from = "Verifying"    /\ to \in {"Committing", "Failed", "IntegrityFailed"}
  \/ from = "Committing"   /\ to \in {"Completed", "Failed"}

-----------------------------------------------------------------------------
(* The transactions. *)

TxCreate(p) == [AbsentTask EXCEPT !.state = "Queued", !.priority = p]

\* transition(), cancel(), mark_resolving(), fail() and the last step of
\* verify_and_commit() all overwrite the state without looking at it again.
TxSet(k, s) == [k EXCEPT !.state = s]

TxPausedByNetwork(k, b) == [k EXCEPT !.paused_by_network = b]

TxRetry(k) == [k EXCEPT !.state = "Queued", !.paused_by_network = FALSE]

TxPriority(k, p) == [k EXCEPT !.priority = p]

TxNetworkPause(k) == [k EXCEPT !.state = "Paused", !.paused_by_network = TRUE]

TxNetworkResume(k) == [k EXCEPT !.state = "Queued", !.paused_by_network = FALSE]

\* record_progress: the closure itself refuses a terminal task.
TxProgress(k) == IF is_terminal(k.state) THEN k ELSE TxSet(k, "Transferring")

\* Mutant: the limit itself is still allowed.
TxCellularOffByOne(t, k, n) ==
  IF is_terminal(k.state) \/ k.state = "Paused" THEN k
  ELSE LET used  == k.cellular_bytes_used + n
           over  == CellularLimit[t] # NoLimit /\ used > CellularLimit[t]
           moved == [k EXCEPT !.cellular_bytes_used = used]
       IN IF over THEN TxNetworkPause(moved) ELSE moved

\* add_cellular_bytes: n bytes more over the cellular network, compared with
\* the limit only after they are counted.
TxCellular(t, k, n) ==
  IF is_terminal(k.state) \/ k.state = "Paused" THEN k
  ELSE LET used  == k.cellular_bytes_used + n
           over  == CellularLimit[t] # NoLimit /\ used >= CellularLimit[t]
           moved == [k EXCEPT !.cellular_bytes_used = used]
       IN IF over THEN TxNetworkPause(moved) ELSE moved

\* Mutant: a verifying task stays one.
TxRecoverForgetsVerifying(k) == IF k.state \in InFlight \ {"Verifying"} THEN TxSet(k, "Queued") ELSE k

\* open(): a task caught in flight by a crash goes back to the queue.
TxRecover(k) == IF k.state \in InFlight THEN TxSet(k, "Queued") ELSE k

-----------------------------------------------------------------------------
(* Network policy and scheduling order. *)

\* network_restricted(): what the runner asks before it starts a task.
network_restricted(t, cfg) ==
  cfg.network = "cellular" /\ (~cfg.metered \/ t \in WifiOnly)

cellular_quota_exceeded(t, k, cfg) ==
  /\ cfg.network = "cellular"
  /\ CellularLimit[t] # NoLimit
  /\ k.cellular_bytes_used >= CellularLimit[t]

\* apply_network_class(): what it decides for task t from the snapshot k.
ToPause(t, k, cfg) ==
  /\ k.state \notin {"Absent", "Completed", "Cancelled", "IntegrityFailed", "Paused"}
  /\ network_restricted(t, cfg) \/ cellular_quota_exceeded(t, k, cfg)

ToResume(t, k, cfg) ==
  /\ k.state = "Paused" /\ k.paused_by_network
  /\ ~network_restricted(t, cfg) /\ ~cellular_quota_exceeded(t, k, cfg)

\* list(): highest priority first, then oldest, then smallest id.
Before(tasks, a, b) ==
  \/ tasks[a].priority > tasks[b].priority
  \/ tasks[a].priority = tasks[b].priority /\ a < b

next_queued(tasks, t) ==
  /\ tasks[t].state = "Queued"
  /\ \A u \in Task \ {t} : tasks[u].state = "Queued" => Before(tasks, t, u)
=============================================================================
