----------------------------- MODULE AtomicStore -----------------------------
(***************************************************************************)
(* AtomicJsonStore (src/backend/app-core/src/storage.rs), the store of     *)
(* every service: a document in memory behind a mutex, and the file it is  *)
(* read from when the process starts.  transact() changes a copy, writes   *)
(* it to a temporary file, syncs that, keeps the old file as a backup,     *)
(* renames the temporary file into place and syncs the directory.  The     *)
(* other modules take all of this as one step.                             *)
(*                                                                         *)
(* A step here is one call of the file system.  Each may fail ("stat" is   *)
(* path.exists(), which takes a failure for a missing file), the process   *)
(* may be killed between two of them, and the power may fail: then what    *)
(* was written and not synced is torn, and a rename whose directory was    *)
(* not synced may be undone.  A file is Absent, Torn (it does not parse),  *)
(* or a document.                                                          *)
(***************************************************************************)
EXTENDS Naturals

CONSTANTS Thread,
          Doc,             \* the documents
          Default,         \* the document of a store that has no file
          Absent, Torn,
          Faults,          \* the calls of the file system that may fail
          MaxTransactions, \* bound on the transactions begun
          MaxCrashes,      \* bound on crashes
          None

Calls == {"create", "write", "sync", "copy", "rename", "sync_dir"}

ASSUME StoreAssumption ==
  /\ Default \in Doc
  /\ Absent \notin Doc /\ Torn \notin Doc /\ Absent # Torn
  /\ None \notin Thread
  /\ Faults \subseteq Calls \cup {"stat"}
  /\ MaxTransactions \in Nat /\ MaxCrashes \in Nat

VARIABLES
  main, temporary, backup,  \* the files, as the operating system shows them
  synced,      \* the bytes of the temporary file are on the disk
  onDisk,      \* what a loss of power may leave in place of main
  up,          \* the process runs and has opened the store
  value,       \* the document in memory
  read_only,   \* a commit has failed
  poisoned,    \* a panic inside a transaction has poisoned the mutex
  holder,      \* who holds the mutex for a transaction, or None
  pc,          \* the call of write_json_atomic() that comes next
  candidate,   \* the document the transaction wants to store
  known,       \* what each caller was last told is stored
  since,       \* history: what the file has been since the last answer of success
  transactions, crashes

files  == <<main, temporary, backup, synced, onDisk>>
memory == <<up, value, read_only, poisoned>>
vars   == <<files, memory, holder, pc, candidate, known, since, transactions, crashes>>

Content == Doc \cup {Absent, Torn}

TypeOK ==
  /\ main \in Content /\ temporary \in Content /\ backup \in Content
  /\ onDisk \subseteq Content /\ since \subseteq Content
  /\ synced \in BOOLEAN /\ up \in BOOLEAN
  /\ read_only \in BOOLEAN /\ poisoned \in BOOLEAN
  /\ value \in Doc /\ candidate \in Doc
  /\ holder \in Thread \cup {None}
  /\ pc \in Calls \cup {"idle", "copying", "publish"}
  /\ known \in [Thread -> Doc]
  /\ transactions \in 0..MaxTransactions
  /\ crashes \in 0..MaxCrashes

\* What a start of the process takes from the file.
Stored(c) == IF c = Absent THEN Default ELSE c

Init ==
  /\ main = Absent /\ temporary = Absent /\ backup = Absent
  /\ synced = FALSE
  /\ onDisk = {Absent} /\ since = {Absent}
  /\ up = FALSE /\ value = Default
  /\ read_only = FALSE /\ poisoned = FALSE
  /\ holder = None /\ pc = "idle" /\ candidate = Default
  /\ known = [t \in Thread |-> Default]
  /\ transactions = 0 /\ crashes = 0

-----------------------------------------------------------------------------
(* Callers. *)

\* open(): a file that does not parse is an error, and nothing is opened; one
\* that cannot be looked at is taken for missing.
Open ==
  /\ ~up
  /\ up' = TRUE
  /\ \/ main # Torn /\ value' = Stored(main)
     \/ "stat" \in Faults /\ value' = Default
  /\ UNCHANGED <<files, read_only, poisoned, holder, pc, candidate, known,
                 since, transactions, crashes>>

Free == up /\ ~poisoned /\ holder = None

\* Mutant: a snapshot does not wait for the mutex.
SnapshotUnlocked(t) ==
  /\ up /\ ~poisoned
  /\ known' = [known EXCEPT ![t] = value]
  /\ UNCHANGED <<files, memory, holder, pc, candidate, since, transactions, crashes>>

Snapshot(t) ==
  /\ Free
  /\ known' = [known EXCEPT ![t] = value]
  /\ UNCHANGED <<files, memory, holder, pc, candidate, since, transactions, crashes>>

Request ==
  /\ Free /\ ~read_only /\ transactions < MaxTransactions
  /\ transactions' = transactions + 1
  /\ UNCHANGED <<files, known, since, crashes>>

\* Mutant: the document in memory is changed in place.
TransactInPlace(t, d) ==
  /\ Request
  /\ holder' = t /\ candidate' = d /\ pc' = "create"
  /\ value' = d
  /\ UNCHANGED <<up, read_only, poisoned>>

\* transact(): the closure has made d of a copy.  (A closure that returns an
\* error changes nothing.)
Transact(t, d) ==
  /\ Request
  /\ holder' = t /\ candidate' = d /\ pc' = "create"
  /\ UNCHANGED memory

\* The closure panics while the mutex is held.
Panic ==
  /\ Request
  /\ poisoned' = TRUE
  /\ UNCHANGED <<up, value, read_only, holder, pc, candidate>>

-----------------------------------------------------------------------------
(* write_json_atomic(). *)

Goto(label) == pc' = label /\ UNCHANGED <<memory, holder, known>>

Continue(from, to) ==
  /\ pc = from
  /\ Goto(to)
  /\ UNCHANGED <<candidate, transactions, crashes>>

CreateTemporary ==
  /\ Continue("create", "write")
  /\ temporary' = Torn /\ synced' = FALSE
  /\ UNCHANGED <<main, backup, onDisk, since>>

WriteTemporary ==
  /\ Continue("write", "sync")
  /\ temporary' = candidate
  /\ UNCHANGED <<main, backup, synced, onDisk, since>>

\* Mutant: no sync_all().
SyncNothing == Continue("sync", "copy") /\ UNCHANGED <<files, since>>

SyncTemporary ==
  /\ Continue("sync", "copy")
  /\ synced' = TRUE
  /\ UNCHANGED <<main, temporary, backup, onDisk, since>>

\* copy() empties the old backup before it fills it.
CopyBegins ==
  /\ main # Absent
  /\ Continue("copy", "copying")
  /\ backup' = Torn
  /\ UNCHANGED <<main, temporary, synced, onDisk, since>>

CopyEnds ==
  /\ Continue("copying", "rename")
  /\ backup' = main
  /\ UNCHANGED <<main, temporary, synced, onDisk, since>>

NothingToCopy ==
  /\ main = Absent \/ "stat" \in Faults
  /\ Continue("copy", "rename")
  /\ UNCHANGED <<files, since>>

\* The commit point.
Rename ==
  /\ Continue("rename", "sync_dir")
  /\ main' = temporary /\ temporary' = Absent
  /\ since' = since \cup {temporary}
  /\ onDisk' = onDisk \cup {temporary} \cup (IF synced THEN {} ELSE {Torn})
  /\ UNCHANGED <<backup, synced>>

\* Mutant: the directory is not synced.
SyncNoDirectory == Continue("sync_dir", "publish") /\ UNCHANGED <<files, since>>

\* An error of this call, or a directory that cannot be opened, is ignored.
SyncDirectory ==
  /\ Continue("sync_dir", "publish")
  /\ onDisk' \in {{main}} \cup (IF "sync_dir" \in Faults THEN {onDisk} ELSE {})
  /\ UNCHANGED <<main, temporary, backup, synced, since>>

\* Only now does the document in memory change, and transact() returns.
Publish ==
  /\ pc = "publish"
  /\ value' = candidate
  /\ known' = [known EXCEPT ![holder] = candidate]
  /\ since' = {main}
  /\ holder' = None /\ pc' = "idle"
  /\ UNCHANGED <<files, up, read_only, poisoned, candidate, transactions, crashes>>

\* Mutant: the store goes on after a failed commit with what it could not write.
RefuseAfterTheFact ==
  /\ pc \in Faults \/ (pc = "copying" /\ "copy" \in Faults)
  /\ pc # "sync_dir" /\ (pc = "copy" => main # Absent)
  /\ value' = candidate
  /\ read_only' = TRUE
  /\ holder' = None /\ pc' = "idle"
  /\ UNCHANGED <<files, up, poisoned, candidate, known, since, transactions, crashes>>

\* Any other call that fails ends the transaction and makes the store read-only.
Refuse ==
  /\ pc \in Faults \/ (pc = "copying" /\ "copy" \in Faults)
  /\ pc # "sync_dir" /\ (pc = "copy" => main # Absent)
  /\ read_only' = TRUE
  /\ holder' = None /\ pc' = "idle"
  /\ UNCHANGED <<files, up, value, poisoned, candidate, known, since, transactions, crashes>>

-----------------------------------------------------------------------------
(* Crashes. *)

Crash ==
  /\ crashes < MaxCrashes
  /\ crashes' = crashes + 1
  /\ up' = FALSE /\ read_only' = FALSE /\ poisoned' = FALSE
  /\ holder' = None /\ pc' = "idle"
  /\ UNCHANGED <<value, candidate, known, since, transactions>>

Kill == Crash /\ UNCHANGED files

\* The temporary file and the backup are left whole, torn or not at all; a
\* rename that is undone gives the temporary file its name back.
PowerLoss ==
  /\ Crash
  /\ main' \in onDisk
  /\ onDisk' = {main'}
  /\ temporary' \in {temporary, main, Torn, Absent}
  /\ backup' \in {backup, Torn, Absent}
  /\ UNCHANGED synced

Next ==
  \/ Open
  \/ \E t \in Thread : Snapshot(t)
  \/ \E t \in Thread, d \in Doc : Transact(t, d)
  \/ Panic
  \/ CreateTemporary \/ WriteTemporary \/ SyncTemporary
  \/ CopyBegins \/ CopyEnds \/ NothingToCopy
  \/ Rename \/ SyncDirectory \/ Publish
  \/ Refuse
  \/ Kill \/ PowerLoss

Spec == Init /\ [][Next]_vars

-----------------------------------------------------------------------------
(* Properties. *)

\* The process can always start: neither the file nor what a loss of power may
\* leave of it is torn, whatever call failed and wherever the process was cut.
NeverTorn == Torn \notin onDisk \cup {main}

\* Between transactions the document in memory is the one in the file: a
\* transaction that failed has changed neither, one that returned has changed both.
\* (As long as open() can see whether there is a file.)
MemoryIsStored == up /\ holder = None => value = Stored(main)

\* What transact() has answered with success is not taken back: a loss of power
\* leaves what was stored then or later.
NothingUndone == onDisk \subseteq since

\* Whatever replaces the file, its old content is in the backup.  (As long as
\* write_json_atomic() can see whether there is a file.)
OldIsKept ==
  [][Rename => main = Absent \/ backup' = main]_vars

\* The store implements the document that is replaced in one step.
Document == INSTANCE DurableDocument
  WITH stored <- Stored(main), returning <- {Stored(c) : c \in onDisk}

ImplementsDocument == Document!Spec
=============================================================================
