---------------------------- MODULE NodeRepository ----------------------------
(***************************************************************************)
(* The local content-addressed repository, NodeService                     *)
(* (src/backend/app-core/src/node_service.rs): object files, the durable   *)
(* record of each object, the storage and cache quotas.                    *)
(*                                                                         *)
(* Threads.  Mutating HTTP requests run one at a time and are the thread   *)
(* Handler; transfer runners and readers that fetch a DAG object are the   *)
(* other threads.  write_lock covers a put and an enforcement of the cache *)
(* quota, and NOT pin, unpin, cat or set_config: a step is one             *)
(* transaction of the store, one file operation, or one read that a later  *)
(* step acts on.                                                           *)
(*                                                                         *)
(* Faults says which calls may fail: a file operation, a transaction of    *)
(* the store (which then changes nothing: AtomicStore), or the look for a  *)
(* file (path.exists() takes an error for an absent file).  The error ends *)
(* the operation where it is and drops its lock.  The next transaction may *)
(* succeed: in the code it is refused until the process starts again, so   *)
(* there are more behaviours here, not fewer.                              *)
(*                                                                         *)
(* Objects are counted instead of their bytes, the record that is least    *)
(* recently used is any evictable one (the clock of last_accessed_at       *)
(* ticks once a second), and the bytes a put writes are those it hashed    *)
(* (TransferSystem models the case in which they are not).                 *)
(***************************************************************************)
EXTENDS Naturals, FiniteSets

CONSTANTS Cid,
          Thread,
          Handler,     \* the thread that serves mutating requests
          Cached,      \* the objects that are ever fetched without being kept
          Controlled,  \* the objects that clients pin and unpin
          Config,      \* the limits a client may set
          InitialConfig,
          Faults,      \* what may fail: "file", "store", "stat"
          MaxRequests, \* bound on operations begun
          MaxCrashes,  \* bound on crashes
          None

Limits == [storage : Nat \ {0}, cache : Nat]

\* validate_config()
Valid(c) == c.cache <= c.storage

ASSUME RepositoryAssumption ==
  /\ IsFiniteSet(Cid)
  /\ Handler \in Thread
  /\ Cached \subseteq Cid /\ Controlled \subseteq Cid
  /\ Config \subseteq Limits /\ InitialConfig \in Limits
  /\ \A c \in Config \cup {InitialConfig} : Valid(c)
  /\ Faults \subseteq {"file", "store", "stat"}
  /\ MaxRequests \in Nat /\ MaxCrashes \in Nat
  /\ None \notin Thread \cup Cid

VARIABLES
  objects,     \* the durable record of each object
  file,        \* the objects whose file exists
  cfg,
  write_lock,  \* the thread that holds it, or None
  pc, cid, want,   \* the operation of each thread: where it is, on what, and
                   \* the flags it gives the object
  poisoned,    \* a panic inside a transaction has poisoned the store
  requests, crashes

threads == <<pc, cid, want>>
vars == <<objects, file, cfg, write_lock, threads, poisoned, requests, crashes>>

Absent  == [present |-> FALSE, pinned |-> FALSE, persistent |-> FALSE]
Cache   == [present |-> TRUE, pinned |-> FALSE, persistent |-> FALSE]
Durable == [present |-> TRUE, pinned |-> FALSE, persistent |-> TRUE]
Pinned  == [present |-> TRUE, pinned |-> TRUE, persistent |-> TRUE]
Unpinned(k) == [present |-> k.present, pinned |-> FALSE, persistent |-> k.persistent]

Pc == {"idle", "cat", "put", "rename", "insert", "enforce", "unlink", "forget",
       "missed", "pin", "unpin"}

TypeOK ==
  /\ objects \in [Cid -> {Absent, Cache, Durable, Pinned}]
  /\ file \subseteq Cid
  /\ cfg \in Config \cup {InitialConfig}
  /\ write_lock \in Thread \cup {None}
  /\ pc \in [Thread -> Pc]
  /\ cid \in [Thread -> Cid \cup {None}]
  /\ want \in [Thread -> {Cache, Durable, Pinned}]
  /\ poisoned \in BOOLEAN
  /\ requests \in 0..MaxRequests
  /\ crashes \in 0..MaxCrashes

Recorded  == {c \in Cid : objects[c].present}
Evictable == {c \in Recorded : ~objects[c].pinned /\ ~objects[c].persistent}
Kept      == Recorded \ Evictable

\* The repository starts with what was published or pinned before.
Init ==
  /\ \E S \in SUBSET (Cid \ Cached) :
       /\ Cardinality(S) <= InitialConfig.storage
       /\ file = S
       /\ objects = [c \in Cid |-> IF c \in S THEN Pinned ELSE Absent]
  /\ cfg = InitialConfig
  /\ write_lock = None
  /\ pc = [t \in Thread |-> "idle"]
  /\ cid = [t \in Thread |-> None]
  /\ want = [t \in Thread |-> Cache]
  /\ poisoned = FALSE
  /\ requests = 0
  /\ crashes = 0

-----------------------------------------------------------------------------
Goto(t, label) == pc' = [pc EXCEPT ![t] = label]

\* Every step of an operation uses the store, which a poisoned lock forbids.
At(t, label) == pc[t] = label /\ ~poisoned

Begin(t, c, f, label) ==
  /\ At(t, "idle") /\ requests < MaxRequests
  /\ requests' = requests + 1
  /\ cid' = [cid EXCEPT ![t] = c]
  /\ want' = [want EXCEPT ![t] = f]
  /\ Goto(t, label)
  /\ UNCHANGED <<objects, file, write_lock, poisoned, crashes>>

Continue(t, label) == Goto(t, label) /\ UNCHANGED <<cid, want>>

Finish(t) ==
  /\ Goto(t, "idle")
  /\ cid' = [cid EXCEPT ![t] = None]
  /\ want' = [want EXCEPT ![t] = Cache]

outside == <<cfg, requests, crashes>>

\* fetch_dag_object(): reads the object, or fetches and caches it.
FetchDagObject(t, c) == c \in Cached /\ Begin(t, c, Cache, "cat") /\ UNCHANGED cfg

\* verify_and_commit() of a stream, of a download, and of a pin or publish
\* transfer; add_dag_cbor() of a publication.
PutVerified(t, c, f) ==
  /\ f = Cache => c \in Cached
  /\ Begin(t, c, f, "put")
  /\ UNCHANGED cfg

\* pin() and unpin() begin with contains_key on a snapshot.
PinRequest(c) ==
  /\ c \in Controlled \cap Recorded
  /\ Begin(Handler, c, Pinned, "pin")
  /\ UNCHANGED cfg

UnpinRequest(c) ==
  /\ c \in Controlled \cap Recorded
  /\ Begin(Handler, c, Durable, "unpin")
  /\ UNCHANGED cfg

\* Mutant: the cache is left as it is.
SetConfigOnly(c) ==
  /\ cfg' = c
  /\ Begin(Handler, None, Cache, "idle")

\* set_config(): the configuration, then the quota.
SetConfig(c) ==
  /\ cfg' = c
  /\ Begin(Handler, None, Cache, "enforce")

Request ==
  \/ \E t \in Thread, c \in Cid : FetchDagObject(t, c)
  \/ \E t \in Thread, c \in Cid, f \in {Cache, Durable, Pinned} : PutVerified(t, c, f)
  \/ \E c \in Cid : PinRequest(c) \/ UnpinRequest(c)
  \/ \E c \in Config : SetConfig(c)

-----------------------------------------------------------------------------
(* The steps of an operation. *)

\* cat(): needs the record and the file.
Cat(t) ==
  /\ At(t, "cat")
  /\ IF cid[t] \in Recorded \cap file THEN Finish(t) ELSE Continue(t, "put")
  /\ UNCHANGED <<objects, file, write_lock, poisoned, outside>>

\* An object that cannot be read is fetched again.
CatFails(t) ==
  /\ At(t, "cat") /\ Faults \cap {"file", "store"} # {}
  /\ Continue(t, "put")
  /\ UNCHANGED <<objects, file, write_lock, poisoned, outside>>

\* Mutant: the quota is checked before the lock is taken.
PutCheckUnlocked(t) ==
  /\ At(t, "put")
  /\ IF Cardinality(Recorded \cup {cid[t]}) > cfg.storage
     THEN Finish(t) /\ UNCHANGED write_lock
     ELSE Continue(t, "rename") /\ write_lock' = t
  /\ UNCHANGED <<objects, file, poisoned, outside>>

\* Mutant: the record comes before the file.
PutCheckRecords(t) ==
  /\ At(t, "put") /\ write_lock = None
  /\ IF Cardinality(Recorded \cup {cid[t]}) > cfg.storage
     THEN Finish(t) /\ UNCHANGED <<objects, write_lock>>
     ELSE /\ Continue(t, "rename") /\ write_lock' = t
          /\ objects' = [objects EXCEPT ![cid[t]] = want[t]]
  /\ UNCHANGED <<file, poisoned, outside>>

\* put_verified(): takes write_lock and refuses an object beyond the quota.
PutCheck(t) ==
  /\ At(t, "put") /\ write_lock = None
  /\ IF Cardinality(Recorded \cup {cid[t]}) > cfg.storage
     THEN Finish(t) /\ UNCHANGED write_lock
     ELSE Continue(t, "rename") /\ write_lock' = t
  /\ UNCHANGED <<objects, file, poisoned, outside>>

\* ... writes a temporary file and renames it ...
PutRename(t) ==
  /\ At(t, "rename")
  /\ file' = file \cup {cid[t]}
  /\ Continue(t, "insert")
  /\ UNCHANGED <<objects, write_lock, poisoned, outside>>

\* ... and records the object with the flags of THIS request.
PutInsert(t) ==
  /\ At(t, "insert")
  /\ objects' = [objects EXCEPT ![cid[t]] = want[t]]
  /\ write_lock' = None
  /\ Continue(t, "enforce")
  /\ UNCHANGED <<file, poisoned, outside>>

\* The temporary file or its renaming fails, or the record does: the file that
\* was renamed stays, nothing is recorded, and no quota is enforced.
PutFails(t) ==
  /\ \/ At(t, "rename") /\ "file" \in Faults
     \/ At(t, "insert") /\ "store" \in Faults
  /\ write_lock' = None
  /\ Finish(t)
  /\ UNCHANGED <<objects, file, poisoned, outside>>

\* Mutant: the victim may be any object.
EnforceScanAnyVictim(t) ==
  /\ At(t, "enforce") /\ write_lock \in {None, t}
  /\ \/ /\ Cardinality(Evictable) <= cfg.cache
        /\ write_lock' = None
        /\ Finish(t)
     \/ /\ Cardinality(Evictable) > cfg.cache
        /\ write_lock' = t
        /\ \E c \in Recorded : cid' = [cid EXCEPT ![t] = c]
        /\ Goto(t, "unlink")
        /\ UNCHANGED want
  /\ UNCHANGED <<objects, file, poisoned, outside>>

\* Mutant: puts go on while objects are evicted.
EnforceScanUnlocked(t) ==
  /\ At(t, "enforce")
  /\ \/ /\ Cardinality(Evictable) <= cfg.cache
        /\ Finish(t)
     \/ /\ Cardinality(Evictable) > cfg.cache
        /\ \E c \in Evictable : cid' = [cid EXCEPT ![t] = c]
        /\ Goto(t, "unlink")
        /\ UNCHANGED want
  /\ UNCHANGED <<objects, file, write_lock, poisoned, outside>>

\* enforce_cache_quota(): takes write_lock for the whole loop; each round
\* looks at a snapshot and chooses a victim.
EnforceScan(t) ==
  /\ At(t, "enforce") /\ write_lock \in {None, t}
  /\ \/ /\ Cardinality(Evictable) <= cfg.cache
        /\ write_lock' = None
        /\ Finish(t)
     \/ /\ Cardinality(Evictable) > cfg.cache
        /\ write_lock' = t
        /\ \E c \in Evictable : cid' = [cid EXCEPT ![t] = c]
        /\ Goto(t, "unlink")
        /\ UNCHANGED want
  /\ UNCHANGED <<objects, file, poisoned, outside>>

EnforceUnlink(t) ==
  /\ At(t, "unlink")
  /\ file' = file \ {cid[t]}
  /\ Continue(t, "forget")
  /\ UNCHANGED <<objects, write_lock, poisoned, outside>>

\* The file is there, and exists() says it is not.
EnforceMisses(t) ==
  /\ At(t, "unlink") /\ "stat" \in Faults
  /\ Continue(t, "missed")
  /\ UNCHANGED <<objects, file, write_lock, poisoned, outside>>

EnforceForget(t) ==
  /\ At(t, "forget") \/ At(t, "missed")
  /\ objects' = [objects EXCEPT ![cid[t]] = Absent]
  /\ Continue(t, "enforce")
  /\ UNCHANGED <<file, write_lock, poisoned, outside>>

\* The victim's file cannot be removed, or its record cannot: the enforcement
\* ends there, with the cache as it is.
EnforceFails(t) ==
  /\ \/ At(t, "unlink") /\ "file" \in Faults
     \/ (At(t, "forget") \/ At(t, "missed")) /\ "store" \in Faults
  /\ write_lock' = None
  /\ Finish(t)
  /\ UNCHANGED <<objects, file, poisoned, outside>>

\* The transaction of pin() expects the record it has checked; without it the
\* panic poisons the lock of the store.
PinWrite(t) ==
  /\ At(t, "pin")
  /\ IF cid[t] \in Recorded
     THEN /\ objects' = [objects EXCEPT ![cid[t]] = Pinned]
          /\ UNCHANGED poisoned
     ELSE poisoned' = TRUE /\ UNCHANGED objects
  /\ Finish(t)
  /\ UNCHANGED <<file, write_lock, outside>>

\* Mutant: the wrong flag is cleared.
UnpinOtherFlag(t) ==
  /\ At(t, "unpin")
  /\ IF cid[t] \in Recorded
     THEN /\ objects' = [objects EXCEPT ![cid[t]].persistent = FALSE]
          /\ UNCHANGED poisoned
     ELSE poisoned' = TRUE /\ UNCHANGED objects
  /\ Finish(t)
  /\ UNCHANGED <<file, write_lock, outside>>

\* unpin() clears one flag: the object stays persistent.
UnpinWrite(t) ==
  /\ At(t, "unpin")
  /\ IF cid[t] \in Recorded
     THEN /\ objects' = [objects EXCEPT ![cid[t]] = Unpinned(@)]
          /\ UNCHANGED poisoned
     ELSE poisoned' = TRUE /\ UNCHANGED objects
  /\ Finish(t)
  /\ UNCHANGED <<file, write_lock, outside>>

\* pin() or unpin() cannot write the record.
ControlFails(t) ==
  /\ At(t, "pin") \/ At(t, "unpin")
  /\ "store" \in Faults
  /\ Finish(t)
  /\ UNCHANGED <<objects, file, write_lock, poisoned, outside>>

Step(t) ==
  \/ Cat(t) \/ PutCheck(t) \/ PutRename(t) \/ PutInsert(t)
  \/ EnforceScan(t) \/ EnforceUnlink(t) \/ EnforceMisses(t) \/ EnforceForget(t)
  \/ PinWrite(t) \/ UnpinWrite(t)
  \/ CatFails(t) \/ PutFails(t) \/ EnforceFails(t) \/ ControlFails(t)

\* The process dies; open() reads the records back and looks at no file.
Restart ==
  /\ crashes < MaxCrashes
  /\ crashes' = crashes + 1
  /\ write_lock' = None
  /\ pc' = [t \in Thread |-> "idle"]
  /\ poisoned' = FALSE
  /\ cid' = [t \in Thread |-> None]
  /\ want' = [t \in Thread |-> Cache]
  /\ UNCHANGED <<objects, file, cfg, requests>>

Next == Request \/ (\E t \in Thread : Step(t)) \/ Restart

Spec == Init /\ [][Next]_vars

-----------------------------------------------------------------------------
(* Properties. *)

\* NOD-006: what is recorded never exceeds the storage limit, although the
\* check, the file and the record are three steps (the limit staying the same).
StorageWithinLimit == Cardinality(Recorded) <= cfg.storage

Enforcing == {t \in Thread : pc[t] \in {"enforce", "unlink", "forget", "missed"}}

\* The cache is beyond its limit and nobody is about to bring it back.
Overrun == Enforcing = {} /\ Cardinality(Evictable) > cfg.cache

\* NOD-006: whatever is fetched, pinned, published or configured at the same
\* time, the cache is left beyond its limit only by an eviction that failed or
\* by a crash; every other put, and every change of the limit, has somebody who
\* brings it back.
OverrunHasCause ==
  [][Overrun' => Overrun \/ Restart \/ \E t \in Thread : EnforceFails(t)]_vars

\* Files no record knows and no put is about to record: outside the quota.
Orphans == (file \ Recorded) \ {cid[t] : t \in {u \in Thread : pc[u] = "insert"}}

\* A file is orphaned only by a put that failed after its renaming, by a look
\* that missed it, or by a crash; never by an eviction that crosses a put of
\* the same object.
OrphanHasCause ==
  [][\/ Orphans' \subseteq Orphans
     \/ Restart
     \/ \E t \in Thread : PutFails(t) \/ (pc[t] = "missed" /\ EnforceForget(t))]_vars

\* NOD-005: an object that is kept can be read, whenever the process dies.
KeptHasFile == Kept \subseteq file

\* The quota never evicts an object that is pinned or persistent.
EvictionSparesKept ==
  [][\A c \in Kept : c \in Recorded']_vars

\* "checked above": pin() and unpin() find the record they have checked.  No
\* run checks it: it needs what it says, that clients pin nothing cached.
NeverPoisoned == ~poisoned

\* What may be read, and how well it is kept: the refinement mapping.
LevelOf(k) ==
  IF ~k.present THEN "absent"
  ELSE IF k.pinned THEN "pinned"
  ELSE IF k.persistent THEN "durable" ELSE "cached"

level == [c \in Cid |-> IF c \in file THEN LevelOf(objects[c]) ELSE "absent"]

Store == INSTANCE ContentStore WITH level <- level

\* The steps of the repository look atomic to whoever reads it.
ImplementsStore == Store!Spec
=============================================================================
