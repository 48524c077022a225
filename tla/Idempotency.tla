----------------------------- MODULE Idempotency -----------------------------
(***************************************************************************)
(* How a repeated request has one effect: the middleware of every mutating *)
(* request (require_idempotency in src/backend/plugin-manager/src/api.rs)  *)
(* and the store of answers (idempotency.rs).                              *)
(*                                                                         *)
(* The middleware holds one lock from the look-up of the key until the     *)
(* answer is stored.  Some handlers are Guarded by a second layer,         *)
(* execute(), with a lock and entries of its own in the same store; of     *)
(* those, Background ones work on a blocking thread (the library scan) and *)
(* Following ones go on after execute(), if they had not done so before    *)
(* (a follow imports what the publisher has published).  The two layers    *)
(* name and compare requests in their own ways: the middleware by method,  *)
(* path and the id in the header, and by all bytes; execute() by its scope *)
(* and the id in the body, and by the fields it has parsed.                *)
(*                                                                         *)
(* What a request does may be several transactions of other stores, each   *)
(* for good: a library scan sets the directory, imports track by track and *)
(* then looks for missing sources.                                         *)
(*                                                                         *)
(* A call is one HTTP request.  When its client goes away the future is    *)
(* dropped where it awaits, which frees the lock; a blocking thread goes   *)
(* on.  Clients repeat a request as they like.  A transaction of the store *)
(* is one step (AtomicStore).  The answer to a request is represented by   *)
(* the number of the execution it reports.                                 *)
(***************************************************************************)
EXTENDS Naturals, FiniteSets

CONSTANTS Key,          \* scope and request_id as the middleware has them
          Name,         \* scope and request_id as execute() has them
          Fingerprint,  \* the fingerprints either layer compares
          Guarded, Background, Following,   \* the keys whose handlers are such
          Operation,    \* what a guarded request is for execute()
          Transactions, \* the most transactions what is asked for may take
          Call,         \* the HTTP requests there are at a time
          Rank,         \* the order of the entries in the BTreeMap
          Capacity,     \* 20_000 in the code
          Faults,       \* which of "handler", "store", "disconnect" happen
          MaxRequests, MaxCrashes,   \* bounds
          None

\* The names of the entries, "http\0scope\0id" and "scope\0id".
Entry == (Key \X {"http"}) \cup (Name \X {"operation"})

ASSUME KeysAssumption ==
  /\ IsFiniteSet(Key) /\ IsFiniteSet(Name) /\ Key # {} /\ Fingerprint # {}
  /\ Background \subseteq Guarded /\ Following \subseteq Guarded /\ Guarded \subseteq Key
  /\ Background \cap Following = {}
  /\ Operation \in [Guarded \X Fingerprint -> [name : Name, fingerprint : Fingerprint]]
  /\ Transactions \in [Key -> Nat \ {0}]
  /\ Rank \in [Entry -> Nat]
  /\ \A e, f \in Entry : Rank[e] = Rank[f] => e = f
  /\ Capacity \in Nat \ {0}
  /\ MaxRequests \in Nat /\ MaxCrashes \in Nat
  /\ None \notin Call

VARIABLES
  entries,     \* what is stored for each name: NoEntry, or fingerprint and answer
  read_only,   \* the store has failed
  http_operation_lock, operation_lock,   \* the call that holds it, or None
  pc, key, fingerprint, answer,                \* the calls
  done,        \* the transactions a call has committed so far
  replayed,    \* execute() has found its entry
  effects,     \* how many transactions were committed for what each entry records
  executed,    \* history: the operations that have run to their end
  followed,    \* the operations that were followed up
  answers,     \* history: the answers of success that clients have received
  requests, crashes

calls == <<http_operation_lock, operation_lock, pc, key, fingerprint, answer, done, replayed>>
store == <<entries, read_only>>
world == <<effects, executed, followed, answers, requests, crashes>>
vars  == <<calls, store, world>>

Answer  == [fingerprint : Fingerprint, number : Nat \ {0}]
NoEntry == [number |-> 0]

\* What an idle call has in its variables does not matter.
AnyKey         == CHOOSE k \in Key : TRUE
AnyFingerprint == CHOOSE p \in Fingerprint : TRUE

Pc == {"idle", "wait", "lookup", "handle", "check", "run", "record", "after",
       "store", "reply"}

TypeOK ==
  /\ entries \in [Entry -> Answer \cup {NoEntry}]
  /\ read_only \in BOOLEAN
  /\ http_operation_lock \in Call \cup {None} /\ operation_lock \in Call \cup {None}
  /\ pc \in [Call -> Pc] /\ key \in [Call -> Key] /\ fingerprint \in [Call -> Fingerprint]
  /\ answer \in [Call -> Nat] /\ done \in [Call -> Nat] /\ replayed \in [Call -> BOOLEAN]
  /\ effects \in [Entry -> Nat]
  /\ executed \subseteq Name /\ followed \subseteq Name
  /\ answers \in [Key -> SUBSET Answer]
  /\ requests \in 0..MaxRequests /\ crashes \in 0..MaxCrashes

Init ==
  /\ entries = [e \in Entry |-> NoEntry] /\ read_only = FALSE
  /\ http_operation_lock = None /\ operation_lock = None
  /\ pc = [c \in Call |-> "idle"]
  /\ key = [c \in Call |-> AnyKey] /\ fingerprint = [c \in Call |-> AnyFingerprint]
  /\ answer = [c \in Call |-> 0] /\ done = [c \in Call |-> 0]
  /\ replayed = [c \in Call |-> FALSE]
  /\ effects = [e \in Entry |-> 0] /\ executed = {}
  /\ followed = {} /\ answers = [k \in Key |-> {}]
  /\ requests = 0 /\ crashes = 0

-----------------------------------------------------------------------------
(* The store. *)

\* What a call is for the middleware and for execute().
Given(c) == [fingerprint |-> fingerprint[c], number |-> answer[c]]

Operated(c) == Operation[key[c], fingerprint[c]]

Result(c) == [fingerprint |-> Operated(c).fingerprint, number |-> answer[c]]

\* The entry that records, in the end, what a request does.
Work(k, p) == IF k \in Guarded THEN <<Operation[k, p].name, "operation">> ELSE <<k, "http">>

Present(stored) == {e \in Entry : stored[e] # NoEntry}

\* trim_entries(): what exceeds the capacity goes, smallest name first.
Trimmed(stored) ==
  [e \in Entry |->
     IF Cardinality({f \in Present(stored) : Rank[f] > Rank[e]}) < Capacity
     THEN stored[e] ELSE NoEntry]

\* There is room for one more entry.
Room == Cardinality(Present(entries)) < Capacity

Insert(e, a) ==
  /\ ~read_only
  /\ entries' = Trimmed([entries EXCEPT ![e] = a])
  /\ UNCHANGED read_only

InsertFails ==
  /\ read_only \/ "store" \in Faults
  /\ read_only' = TRUE
  /\ UNCHANGED entries

-----------------------------------------------------------------------------
(* The middleware. *)

Goto(c, label) == pc' = [pc EXCEPT ![c] = label]

\* A lock is freed when its guard is dropped.
Release(c) ==
  /\ http_operation_lock' = IF http_operation_lock = c THEN None ELSE http_operation_lock
  /\ operation_lock' = IF operation_lock = c THEN None ELSE operation_lock

Forget(c) ==
  /\ Goto(c, "idle")
  /\ key' = [key EXCEPT ![c] = AnyKey]
  /\ fingerprint' = [fingerprint EXCEPT ![c] = AnyFingerprint]
  /\ answer' = [answer EXCEPT ![c] = 0] /\ done' = [done EXCEPT ![c] = 0]
  /\ replayed' = [replayed EXCEPT ![c] = FALSE]

Leave(c) == Forget(c) /\ Release(c)

Receive(c, k, p) ==
  /\ pc[c] = "idle" /\ requests < MaxRequests
  /\ requests' = requests + 1
  /\ key' = [key EXCEPT ![c] = k] /\ fingerprint' = [fingerprint EXCEPT ![c] = p]
  /\ Goto(c, "wait")
  /\ UNCHANGED <<http_operation_lock, operation_lock, answer, done, replayed, store,
                 effects, executed, followed, answers, crashes>>

LockHttp(c) ==
  /\ pc[c] = "wait" /\ http_operation_lock = None
  /\ http_operation_lock' = c
  /\ Goto(c, "lookup")
  /\ UNCHANGED <<operation_lock, key, fingerprint, answer, done, replayed, store, world>>

\* Mutant: the fingerprint is not compared.
LookupAnyFingerprint(c) ==
  /\ pc[c] = "lookup"
  /\ LET found == entries[<<key[c], "http">>]
     IN \/ /\ found = NoEntry
           /\ Goto(c, "handle")
           /\ UNCHANGED <<http_operation_lock, operation_lock, key, fingerprint, answer, done, replayed>>
        \/ /\ found # NoEntry
           /\ answer' = [answer EXCEPT ![c] = found.number]
           /\ Goto(c, "reply") /\ Release(c)
           /\ UNCHANGED <<key, fingerprint, done, replayed>>
  /\ UNCHANGED <<store, world>>

\* lookup_http(): handle what is new, replay what is known, refuse what is
\* another request under the same key.
Lookup(c) ==
  /\ pc[c] = "lookup"
  /\ LET found == entries[<<key[c], "http">>]
     IN \/ /\ found = NoEntry
           /\ Goto(c, "handle")
           /\ UNCHANGED <<http_operation_lock, operation_lock, key, fingerprint, answer, done, replayed>>
        \/ /\ found # NoEntry /\ found.fingerprint = fingerprint[c]
           /\ answer' = [answer EXCEPT ![c] = found.number]
           /\ Goto(c, "reply") /\ Release(c)
           /\ UNCHANGED <<key, fingerprint, done, replayed>>
        \/ /\ found # NoEntry /\ found.fingerprint # fingerprint[c]
           /\ Leave(c)
  /\ UNCHANGED <<store, world>>

-----------------------------------------------------------------------------
(* Handlers. *)

\* One transaction of what the request asks for.
Commit(c) ==
  /\ LET work == Work(key[c], fingerprint[c])
     IN /\ effects' = [effects EXCEPT ![work] = @ + 1]
        /\ answer' = [answer EXCEPT ![c] = effects[work] + 1]
  /\ UNCHANGED <<http_operation_lock, operation_lock, key, fingerprint, replayed, store,
                 followed, answers, requests, crashes>>

\* There may be more transactions to come.
GoesOn(c) ==
  /\ done[c] + 1 < Transactions[key[c]]
  /\ done' = [done EXCEPT ![c] = @ + 1]
  /\ UNCHANGED <<pc, executed>>

Ends(c, label) ==
  /\ done' = [done EXCEPT ![c] = 0]
  /\ Goto(c, label)

\* A handler without execute().
HandlePlain(c) ==
  /\ pc[c] = "handle" /\ key[c] \notin Guarded
  /\ Commit(c)
  /\ \/ GoesOn(c)
     \/ Ends(c, "after") /\ UNCHANGED executed

\* Mutant: execute() takes no lock.
LockNothing(c) ==
  /\ pc[c] = "handle" /\ key[c] \in Guarded
  /\ Goto(c, "check")
  /\ UNCHANGED <<http_operation_lock, operation_lock, key, fingerprint, answer, done, replayed, store, world>>

LockOperation(c) ==
  /\ pc[c] = "handle" /\ key[c] \in Guarded /\ operation_lock = None
  /\ operation_lock' = c
  /\ Goto(c, "check")
  /\ UNCHANGED <<http_operation_lock, key, fingerprint, answer, done, replayed, store, world>>

\* execute() returns to a handler that is still there, or ends its thread.
Return(c, number, found) ==
  /\ operation_lock' = None
  /\ UNCHANGED http_operation_lock
  /\ \/ /\ http_operation_lock # c
        /\ Forget(c)
     \/ /\ http_operation_lock = c
        /\ Goto(c, "after")
        /\ answer' = [answer EXCEPT ![c] = number]
        /\ replayed' = [replayed EXCEPT ![c] = found]
        /\ UNCHANGED <<key, fingerprint, done>>

CheckOperation(c) ==
  /\ pc[c] = "check"
  /\ LET found == entries[<<Operated(c).name, "operation">>]
     IN \/ /\ found = NoEntry
           /\ Goto(c, "run")
           /\ UNCHANGED <<http_operation_lock, operation_lock, key, fingerprint, answer, done, replayed>>
        \/ /\ found # NoEntry /\ found.fingerprint = Operated(c).fingerprint
           /\ Return(c, found.number, TRUE)
        \/ /\ found # NoEntry /\ found.fingerprint # Operated(c).fingerprint
           /\ Leave(c)
  /\ UNCHANGED <<store, world>>

\* The closure commits its transactions one after the other.
RunOperation(c) ==
  /\ pc[c] = "run"
  /\ Commit(c)
  /\ \/ GoesOn(c)
     \/ Ends(c, "record") /\ executed' = executed \cup {Operated(c).name}

RecordOperation(c) ==
  /\ pc[c] = "record"
  /\ Insert(<<Operated(c).name, "operation">>, Result(c))
  /\ Return(c, answer[c], FALSE)
  /\ UNCHANGED world

RecordFails(c) ==
  /\ pc[c] = "record"
  /\ InsertFails
  /\ Leave(c)
  /\ UNCHANGED world

\* The follow-up of an operation that was executed just now.
HandlerEnds(c) ==
  /\ pc[c] = "after"
  /\ followed' = followed \cup (IF key[c] \in Following /\ ~replayed[c]
                                THEN {Operated(c).name} ELSE {})
  /\ Goto(c, "store")
  /\ UNCHANGED <<http_operation_lock, operation_lock, key, fingerprint, answer, done, replayed, store,
                 effects, executed, answers, requests, crashes>>

\* A handler fails before its first transaction, between two of them or after the
\* last; what was committed stays.  Answers other than success are not stored.
HandlerFails(c) ==
  /\ "handler" \in Faults
  /\ \/ pc[c] = "handle" /\ http_operation_lock = c /\ key[c] \notin Background
     \/ pc[c] \in {"run", "after"}
  /\ Leave(c)
  /\ UNCHANGED <<store, world>>

-----------------------------------------------------------------------------
(* The answer. *)

StoreAnswer(c) ==
  /\ pc[c] = "store"
  /\ Insert(<<key[c], "http">>, Given(c))
  /\ Goto(c, "reply") /\ Release(c)
  /\ UNCHANGED <<key, fingerprint, answer, done, replayed, world>>

\* Mutant: an answer that could not be stored is given all the same.
StoreFailsUnnoticed(c) ==
  /\ pc[c] = "store"
  /\ InsertFails
  /\ answers' = [answers EXCEPT ![key[c]] = @ \cup {Given(c)}]
  /\ Leave(c)
  /\ UNCHANGED <<effects, executed, followed, requests, crashes>>

StoreFails(c) ==
  /\ pc[c] = "store"
  /\ InsertFails
  /\ Leave(c)
  /\ UNCHANGED world

Reply(c) ==
  /\ pc[c] = "reply"
  /\ answers' = [answers EXCEPT ![key[c]] = @ \cup {Given(c)}]
  /\ Leave(c)
  /\ UNCHANGED <<store, effects, executed, followed, requests, crashes>>

-----------------------------------------------------------------------------
(* Clients and processes that go away. *)

Disconnect(c) ==
  /\ "disconnect" \in Faults
  /\ pc[c] \in {"wait", "after", "reply"} \/ (pc[c] = "handle" /\ key[c] \notin Background)
  /\ Leave(c)
  /\ UNCHANGED <<store, world>>

\* The blocking thread goes on without the lock of the middleware.
Detach(c) ==
  /\ "disconnect" \in Faults
  /\ http_operation_lock = c /\ key[c] \in Background
  /\ pc[c] \in {"handle", "check", "run", "record"}
  /\ http_operation_lock' = None
  /\ UNCHANGED <<operation_lock, pc, key, fingerprint, answer, done, replayed, store, world>>

Crash ==
  /\ crashes < MaxCrashes
  /\ crashes' = crashes + 1
  /\ http_operation_lock' = None /\ operation_lock' = None
  /\ pc' = [c \in Call |-> "idle"]
  /\ key' = [c \in Call |-> AnyKey] /\ fingerprint' = [c \in Call |-> AnyFingerprint]
  /\ answer' = [c \in Call |-> 0] /\ done' = [c \in Call |-> 0]
  /\ replayed' = [c \in Call |-> FALSE]
  /\ read_only' = FALSE
  /\ UNCHANGED <<entries, effects, executed, followed, answers, requests>>

Step(c) ==
  \/ LockHttp(c) \/ Lookup(c)
  \/ HandlePlain(c)
  \/ LockOperation(c) \/ CheckOperation(c) \/ RunOperation(c)
  \/ RecordOperation(c) \/ RecordFails(c)
  \/ HandlerEnds(c) \/ HandlerFails(c)
  \/ StoreAnswer(c) \/ StoreFails(c) \/ Reply(c)
  \/ Disconnect(c) \/ Detach(c)

Next ==
  \/ \E c \in Call, k \in Key, p \in Fingerprint : Receive(c, k, p)
  \/ \E c \in Call : Step(c)
  \/ Crash

Spec == Init /\ [][Next]_vars

-----------------------------------------------------------------------------
(* Properties. *)

\* API-003: once a client has been answered with success, no transaction of what
\* it asked for is committed again: not by a retry, nor by another request that
\* execute() takes for the same, nor by a thread whose client has gone, nor after
\* a crash.
AcknowledgedOnce ==
  [][\A k \in Key : \A a \in answers[k] :
       effects'[Work(k, a.fingerprint)] = effects[Work(k, a.fingerprint)]]_vars

\* All answers of success to a key are the same answer, to the same request.
OneAnswer == \A k \in Key : \A a, b \in answers[k] : a = b

\* What execute() guards is not begun again once it has run to its end, answered or
\* not, whoever disconnects and retries, as long as neither the process nor the
\* store of answers fails.  What fails halfway may be repeated from the start.
GuardedOnce ==
  [][crashes = 0 /\ ~read_only =>
       \A n \in executed : effects'[<<n, "operation">>] = effects[<<n, "operation">>]]_vars

\* No part of what execute() guards is done twice: this is more than the code does,
\* which begins an operation again when it has failed halfway.
RunOnce ==
  crashes = 0 /\ ~read_only =>
    \A k \in Guarded, p \in Fingerprint : effects[Work(k, p)] <= Transactions[k]

\* COM-003: a follow that was answered with success has been followed up.
FollowedUp ==
  \A k \in Following : \A a \in answers[k] : Operation[k, a.fingerprint].name \in followed
=============================================================================
