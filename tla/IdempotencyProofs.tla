-------------------------- MODULE IdempotencyProofs --------------------------
(***************************************************************************)
(* Theorems about Idempotency, for every set of keys, names, handlers,     *)
(* calls and faults, every length of an operation and every order of the   *)
(* entries.                                                                *)
(***************************************************************************)
EXTENDS Idempotency, FiniteSetTheorems, TLAPS

Http(k) == entries[<<k, "http">>]
Op(n)   == entries[<<n, "operation">>]

LEMMA EntryNames ==
  /\ \A k \in Key : <<k, "http">> \in Entry
  /\ \A n \in Name : <<n, "operation">> \in Entry
BY DEF Entry

LEMMA OperationType ==
  ASSUME NEW k \in Guarded, NEW p \in Fingerprint
  PROVE  Operation[k, p].name \in Name /\ Operation[k, p].fingerprint \in Fingerprint
<1>1. Operation[<<k, p>>] \in [name : Name, fingerprint : Fingerprint]
  BY KeysAssumption
<1>2. QED
  BY <1>1

LEMMA WorkType ==
  ASSUME NEW k \in Key, NEW p \in Fingerprint PROVE Work(k, p) \in Entry
BY OperationType, EntryNames DEF Work

LEMMA AnyTypes == AnyKey \in Key /\ AnyFingerprint \in Fingerprint
BY KeysAssumption DEF AnyKey, AnyFingerprint

LEMMA AnswerIsEntry ==
  \A a \in Answer : a # NoEntry /\ a.number \in Nat \ {0} /\ a.fingerprint \in Fingerprint
BY DEF Answer, NoEntry

LEMMA GivenIsAnswer ==
  ASSUME TypeOK, NEW c \in Call, answer[c] # 0 PROVE Given(c) \in Answer
BY DEF TypeOK, Given, Answer

LEMMA ResultIsAnswer ==
  ASSUME TypeOK, NEW c \in Call, answer[c] # 0, key[c] \in Guarded
  PROVE  Result(c) \in Answer /\ Operated(c).name \in Name
<1>1. Operation[key[c], fingerprint[c]].name \in Name
      /\ Operation[key[c], fingerprint[c]].fingerprint \in Fingerprint
  BY OperationType DEF TypeOK
<1>2. QED
  BY <1>1 DEF TypeOK, Result, Operated, Answer

-----------------------------------------------------------------------------
(* Types. *)

\* Who has an answer has it from an execution, and only guarded requests come to
\* execute().
Numbered ==
  \A c \in Call :
    /\ pc[c] \in {"record", "after", "store", "reply"} => answer[c] # 0
    /\ pc[c] \in {"check", "run", "record"} => key[c] \in Guarded

Types == TypeOK /\ Numbered

LEMMA InsertType ==
  ASSUME TypeOK, NEW e, NEW a \in Answer, Insert(e, a)
  PROVE  entries' \in [Entry -> Answer \cup {NoEntry}]
<1> DEFINE stored == [entries EXCEPT ![e] = a]
<1>1. stored \in [Entry -> Answer \cup {NoEntry}]
  BY DEF TypeOK
<1>2. entries' = Trimmed(stored)
  BY DEF Insert
<1> HIDE DEF stored
<1>3. QED
  BY <1>1, <1>2 DEF Trimmed

\* The variables of the calls.
CallTypes ==
  /\ pc \in [Call -> Pc] /\ key \in [Call -> Key] /\ fingerprint \in [Call -> Fingerprint]
  /\ answer \in [Call -> Nat] /\ done \in [Call -> Nat] /\ replayed \in [Call -> BOOLEAN]
  /\ Numbered

LEMMA ForgetType ==
  ASSUME Types, NEW c \in Call, Forget(c) PROVE CallTypes'
BY AnyTypes DEF Types, TypeOK, Numbered, CallTypes, Forget, Goto, Pc

LEMMA ReleaseType ==
  ASSUME TypeOK, NEW c, Release(c)
  PROVE  http_operation_lock' \in Call \cup {None} /\ operation_lock' \in Call \cup {None}
BY DEF TypeOK, Release

LEMMA ReturnType ==
  ASSUME Types, NEW c \in Call, NEW n \in Nat \ {0}, NEW b \in BOOLEAN, Return(c, n, b)
  PROVE  /\ CallTypes'
         /\ http_operation_lock' \in Call \cup {None} /\ operation_lock' \in Call \cup {None}
<1>1. CASE Forget(c)
  BY <1>1, ForgetType DEF Return, Types, TypeOK
<1>2. CASE ~Forget(c)
  BY <1>2 DEF Return, Goto, Types, TypeOK, CallTypes, Numbered, Pc
<1>3. QED
  BY <1>1, <1>2

LEMMA CommitType ==
  ASSUME Types, NEW c \in Call, Commit(c)
  PROVE  /\ effects' \in [Entry -> Nat]
         /\ answer' \in [Call -> Nat] /\ answer'[c] # 0
         /\ \A d \in Call : d # c => answer'[d] = answer[d]
<1> DEFINE work == Work(key[c], fingerprint[c])
<1>1. effects[work] \in Nat /\ effects \in [Entry -> Nat] /\ answer \in [Call -> Nat]
  BY WorkType DEF Types, TypeOK
<1>2. /\ effects' = [effects EXCEPT ![work] = @ + 1]
      /\ answer' = [answer EXCEPT ![c] = effects[work] + 1]
  BY DEF Commit
<1> HIDE DEF work
<1>3. effects[work] + 1 \in Nat /\ effects[work] + 1 # 0
  BY <1>1
<1>4. QED
  BY <1>1, <1>2, <1>3

LEMMA InitTypes == Init => Types
<1> SUFFICES ASSUME Init PROVE Types
  OBVIOUS
<1>1. /\ entries \in [Entry -> Answer \cup {NoEntry}] /\ read_only \in BOOLEAN
      /\ pc \in [Call -> Pc] /\ key \in [Call -> Key] /\ fingerprint \in [Call -> Fingerprint]
      /\ answers \in [Key -> SUBSET Answer] /\ followed \subseteq Name /\ executed \subseteq Name
  BY AnyTypes DEF Init, Pc
<1>2. /\ requests \in 0..MaxRequests /\ crashes \in 0..MaxCrashes
      /\ answer \in [Call -> Nat] /\ done \in [Call -> Nat] /\ effects \in [Entry -> Nat]
  BY KeysAssumption DEF Init
<1>3. replayed \in [Call -> BOOLEAN]
  BY DEF Init
<1>4. Numbered
  BY DEF Init, Numbered
<1>5. QED
  BY <1>1, <1>2, <1>3, <1>4 DEF Types, TypeOK, Init

LEMMA TypeStep == Types /\ [Next]_vars => Types'
<1> SUFFICES ASSUME Types, [Next]_vars PROVE Types'
  OBVIOUS
<1>a. TypeOK /\ Numbered
  BY DEF Types
<1> USE <1>a
<1>b. ASSUME CallTypes', UNCHANGED <<store, world>>,
             http_operation_lock' \in Call \cup {None}, operation_lock' \in Call \cup {None}
      PROVE  Types'
  BY <1>b DEF CallTypes, Types, TypeOK, store, world
<1>c. ASSUME NEW c \in Call, Leave(c), UNCHANGED <<store, world>> PROVE Types'
  BY <1>c, <1>b, ForgetType, ReleaseType DEF Leave
<1>1. ASSUME NEW c \in Call, NEW k \in Key, NEW p \in Fingerprint, Receive(c, k, p)
      PROVE  Types'
  BY <1>1, KeysAssumption DEF Receive, Goto, store, Types, TypeOK, Numbered, Pc
<1>2. ASSUME NEW c \in Call, LockHttp(c) PROVE Types'
  BY <1>2 DEF LockHttp, Goto, store, world, Types, TypeOK, Numbered, Pc
<1>3. ASSUME NEW c \in Call, Lookup(c) PROVE Types'
  <2> DEFINE found == entries[<<key[c], "http">>]
  <2>1. found \in Answer \cup {NoEntry}
    BY EntryNames DEF TypeOK
  <2>2. CASE found = NoEntry /\ Goto(c, "handle")
           /\ UNCHANGED <<http_operation_lock, operation_lock, key, fingerprint, answer, done, replayed>>
    BY <2>2, <1>3 DEF Lookup, Goto, store, world, Types, TypeOK, Numbered, Pc
  <2>3. CASE /\ found # NoEntry
             /\ answer' = [answer EXCEPT ![c] = found.number]
             /\ Goto(c, "reply") /\ Release(c)
             /\ UNCHANGED <<key, fingerprint, done, replayed>>
    <3>1. found.number \in Nat /\ found.number # 0
      BY <2>1, <2>3, AnswerIsEntry
    <3> HIDE DEF found
    <3>2. QED
      BY <3>1, <2>3, <1>3, ReleaseType
         DEF Lookup, Goto, store, world, Types, TypeOK, Numbered, Pc
  <2>4. CASE Leave(c)
    BY <2>4, <1>3, <1>c DEF Lookup
  <2>5. QED
    BY <1>3, <2>2, <2>3, <2>4 DEF Lookup
<1>4. ASSUME NEW c \in Call, HandlePlain(c) PROVE Types'
  <2>1. /\ effects' \in [Entry -> Nat] /\ answer' \in [Call -> Nat] /\ answer'[c] # 0
        /\ \A d \in Call : d # c => answer'[d] = answer[d]
    BY <1>4, CommitType DEF HandlePlain
  <2>2. CASE GoesOn(c)
    BY <1>4, <2>1, <2>2
       DEF HandlePlain, Commit, GoesOn, store, Types, TypeOK, Numbered, Pc
  <2>3. CASE Ends(c, "after") /\ UNCHANGED executed
    BY <1>4, <2>1, <2>3
       DEF HandlePlain, Commit, Ends, Goto, store, Types, TypeOK, Numbered, Pc
  <2>4. QED
    BY <1>4, <2>2, <2>3 DEF HandlePlain
<1>5. ASSUME NEW c \in Call, LockOperation(c) PROVE Types'
  BY <1>5 DEF LockOperation, Goto, store, world, Types, TypeOK, Numbered, Pc
<1>6. ASSUME NEW c \in Call, CheckOperation(c) PROVE Types'
  <2> DEFINE found == entries[<<Operated(c).name, "operation">>]
  <2>1. found \in Answer \cup {NoEntry}
    BY <1>6, OperationType, EntryNames DEF CheckOperation, Numbered, Operated, TypeOK
  <2>2. CASE found = NoEntry /\ Goto(c, "run")
           /\ UNCHANGED <<http_operation_lock, operation_lock, key, fingerprint, answer, done, replayed>>
    BY <2>2, <1>6 DEF CheckOperation, Goto, store, world, Types, TypeOK, Numbered, Pc
  <2>3. CASE found # NoEntry /\ Return(c, found.number, TRUE)
    <3>1. found.number \in Nat \ {0}
      BY <2>1, <2>3, AnswerIsEntry
    <3>2. QED
      BY <3>1, <2>3, <1>6, <1>b, ReturnType DEF CheckOperation
  <2>4. CASE Leave(c)
    BY <2>4, <1>6, <1>c DEF CheckOperation
  <2>5. QED
    BY <1>6, <2>2, <2>3, <2>4 DEF CheckOperation
<1>7. ASSUME NEW c \in Call, RunOperation(c) PROVE Types'
  <2>1. /\ effects' \in [Entry -> Nat] /\ answer' \in [Call -> Nat] /\ answer'[c] # 0
        /\ \A d \in Call : d # c => answer'[d] = answer[d]
    BY <1>7, CommitType DEF RunOperation
  <2>2. CASE GoesOn(c)
    BY <1>7, <2>1, <2>2
       DEF RunOperation, Commit, GoesOn, store, Types, TypeOK, Numbered, Pc
  <2>3. CASE Ends(c, "record") /\ executed' = executed \cup {Operated(c).name}
    <3>1. key[c] \in Guarded /\ Operated(c).name \in Name
      BY <1>7, OperationType DEF RunOperation, Numbered, Operated, TypeOK
    <3>2. QED
      BY <1>7, <2>1, <2>3, <3>1
         DEF RunOperation, Commit, Ends, Goto, store, Types, TypeOK, Numbered, Pc
  <2>4. QED
    BY <1>7, <2>2, <2>3 DEF RunOperation
<1>8. ASSUME NEW c \in Call, RecordOperation(c) PROVE Types'
  <2>1. entries' \in [Entry -> Answer \cup {NoEntry}] /\ read_only' = read_only
    BY <1>8, InsertType, ResultIsAnswer DEF RecordOperation, Insert, Numbered
  <2>2. answer[c] \in Nat \ {0}
    BY <1>8 DEF RecordOperation, Numbered, TypeOK
  <2>3. /\ CallTypes'
        /\ http_operation_lock' \in Call \cup {None} /\ operation_lock' \in Call \cup {None}
    BY <1>8, <2>2, ReturnType DEF RecordOperation
  <2>4. QED
    BY <1>8, <2>1, <2>3 DEF RecordOperation, CallTypes, Types, TypeOK, world
<1>9. ASSUME NEW c \in Call, RecordFails(c) \/ StoreFails(c) PROVE Types'
  <2>1. Leave(c) /\ entries' = entries /\ read_only' \in BOOLEAN /\ UNCHANGED world
    BY <1>9 DEF RecordFails, StoreFails, InsertFails
  <2>2. QED
    BY <2>1, ForgetType, ReleaseType DEF Leave, CallTypes, Types, TypeOK, world
<1>10. ASSUME NEW c \in Call, HandlerEnds(c) PROVE Types'
  <2>1. key[c] \in Following => Operated(c).name \in Name
    BY OperationType, KeysAssumption DEF Operated, TypeOK
  <2>2. followed' \subseteq Name
    BY <1>10, <2>1 DEF HandlerEnds, TypeOK
  <2>3. QED
    BY <1>10, <2>2 DEF HandlerEnds, Goto, store, Types, TypeOK, Numbered, Pc
<1>11. ASSUME NEW c \in Call, HandlerFails(c) \/ Disconnect(c) PROVE Types'
  BY <1>11, <1>c DEF HandlerFails, Disconnect
<1>12. ASSUME NEW c \in Call, StoreAnswer(c) PROVE Types'
  <2>1. entries' \in [Entry -> Answer \cup {NoEntry}] /\ read_only' = read_only
    BY <1>12, InsertType, GivenIsAnswer DEF StoreAnswer, Insert, Numbered
  <2>2. QED
    BY <1>12, <2>1, ReleaseType DEF StoreAnswer, Goto, world, Types, TypeOK, Numbered, Pc
<1>13. ASSUME NEW c \in Call, Reply(c) PROVE Types'
  <2>1. Given(c) \in Answer
    BY <1>13, GivenIsAnswer DEF Reply, Numbered
  <2>2. answers' \in [Key -> SUBSET Answer]
    BY <1>13, <2>1 DEF Reply, TypeOK
  <2>3. QED
    BY <1>13, <2>2, ForgetType, ReleaseType DEF Reply, Leave, store, CallTypes, Types, TypeOK
<1>14. ASSUME NEW c \in Call, Detach(c) PROVE Types'
  BY <1>14 DEF Detach, store, world, Types, TypeOK, Numbered
<1>15. CASE Crash
  <2>1. crashes' \in 0..MaxCrashes
    BY <1>15, KeysAssumption DEF Crash, TypeOK
  <2>2. QED
    BY <1>15, <2>1, AnyTypes DEF Crash, Types, TypeOK, Numbered, Pc
<1>16. CASE UNCHANGED vars
  BY <1>16 DEF vars, calls, store, world, Types, TypeOK, Numbered
<1>17. QED
  BY <1>1, <1>2, <1>3, <1>4, <1>5, <1>6, <1>7, <1>8, <1>9, <1>10, <1>11, <1>12, <1>13,
     <1>14, <1>15, <1>16 DEF Next, Step

\* Every variable keeps its type, and nothing is stored or answered that does not
\* report an execution, whatever is trimmed or fails.
THEOREM TypeCorrect == Spec => []TypeOK
<1>1. Types => TypeOK
  BY DEF Types
<1>2. QED
  BY <1>1, InitTypes, TypeStep, PTL DEF Spec

-----------------------------------------------------------------------------
(* Room. *)

\* trim_entries() drops nothing while there is no more than the capacity.
LEMMA TrimmedKeeps ==
  ASSUME NEW stored \in [Entry -> Answer \cup {NoEntry}],
         IsFiniteSet(Present(stored)), Cardinality(Present(stored)) <= Capacity
  PROVE  Trimmed(stored) = stored
<1>1. ASSUME NEW e \in Entry, stored[e] # NoEntry
      PROVE  Cardinality({f \in Present(stored) : Rank[f] > Rank[e]}) < Capacity
  <2> DEFINE above == {f \in Present(stored) : Rank[f] > Rank[e]}
  <2>1. e \in Present(stored)
    BY <1>1 DEF Present
  <2>2. e \notin above
    BY KeysAssumption
  <2>3. above \subseteq Present(stored) \ {e}
    BY <2>2
  <2>4. /\ IsFiniteSet(Present(stored) \ {e})
        /\ Cardinality(Present(stored) \ {e}) = Cardinality(Present(stored)) - 1
    BY <2>1, FS_RemoveElement
  <2>5. Cardinality(above) <= Cardinality(Present(stored) \ {e})
    BY <2>3, <2>4, FS_Subset
  <2>6. /\ Cardinality(Present(stored)) \in Nat
        /\ Cardinality(above) \in Nat
    BY <2>3, <2>4, FS_Subset, FS_CardinalityType
  <2>7. QED
    BY <2>4, <2>5, <2>6, KeysAssumption
<1>2. QED
  BY <1>1 DEF Trimmed

\* With room for one more, what is stored is added to what there is.
LEMMA InsertAdds ==
  ASSUME TypeOK, Room, NEW e, NEW a \in Answer, Insert(e, a)
  PROVE  entries' = [entries EXCEPT ![e] = a]
<1> DEFINE stored == [entries EXCEPT ![e] = a]
<1>1. stored \in [Entry -> Answer \cup {NoEntry}]
  BY DEF TypeOK
<1>2. IsFiniteSet(Entry)
  <2>1. IsFiniteSet(Key \X {"http"}) /\ IsFiniteSet(Name \X {"operation"})
    BY KeysAssumption, FS_Singleton, FS_Product
  <2>2. QED
    BY <2>1, FS_Union DEF Entry
<1>3. IsFiniteSet(Present(entries))
  BY <1>2, FS_Subset DEF Present
<1>4. Present(stored) \subseteq Present(entries) \cup {e}
  BY DEF Present, TypeOK
<1>5. /\ IsFiniteSet(Present(entries) \cup {e})
      /\ Cardinality(Present(entries) \cup {e}) <= Cardinality(Present(entries)) + 1
  <2>1. Cardinality(Present(entries)) \in Nat
    BY <1>3, FS_CardinalityType
  <2>2. /\ IsFiniteSet(Present(entries) \cup {e})
        /\ \/ Cardinality(Present(entries) \cup {e}) = Cardinality(Present(entries))
           \/ Cardinality(Present(entries) \cup {e}) = Cardinality(Present(entries)) + 1
    BY <1>3, FS_AddElement, Zenon
  <2>3. QED
    BY <2>1, <2>2
<1>6. /\ IsFiniteSet(Present(stored))
      /\ Cardinality(Present(stored)) <= Cardinality(Present(entries) \cup {e})
  BY <1>4, <1>5, FS_Subset
<1>7. Cardinality(Present(stored)) <= Capacity
  BY <1>3, <1>5, <1>6, FS_CardinalityType, KeysAssumption DEF Room
<1>8. entries' = Trimmed(stored)
  BY DEF Insert
<1> HIDE DEF stored
<1>9. QED
  BY <1>1, <1>6, <1>7, <1>8, TrimmedKeeps DEF stored

-----------------------------------------------------------------------------
(* The inductive invariant. *)

Inside == {"handle", "check", "run", "record"}

\* Past the look-up a call holds the lock of the middleware, unless it is a thread
\* whose client has gone; in execute() it holds the lock of execute().
Locked ==
  \A c \in Call :
    /\ pc[c] \in Inside \cup {"lookup", "after", "store"} =>
         \/ http_operation_lock = c
         \/ pc[c] \in Inside /\ key[c] \in Background
    /\ pc[c] \in {"check", "run", "record"} => operation_lock = c /\ key[c] \in Guarded

\* What clients were told is what is stored, and nothing else.
AnswersStored == \A k \in Key : answers[k] # {} => Http(k) # NoEntry /\ answers[k] = {Http(k)}

\* The answer of a guarded handler is stored after what it guards.
GuardedRecorded ==
  \A k \in Guarded : Http(k) # NoEntry => Op(Operation[k, Http(k).fingerprint].name) # NoEntry

\* Whoever holds a lock works on a request that has not been stored under it, and
\* who has passed execute() or the store leaves an entry there.
CallKnown(c) ==
  /\ http_operation_lock = c /\ pc[c] \in Inside \cup {"after", "store"}
       => Http(key[c]) = NoEntry
  /\ pc[c] \in {"run", "record"} => Op(Operated(c).name) = NoEntry
  /\ pc[c] \in {"after", "store"} /\ key[c] \in Guarded => Op(Operated(c).name) # NoEntry
  /\ pc[c] = "reply" => Http(key[c]) = Given(c)

Known == AnswersStored /\ GuardedRecorded /\ \A c \in Call : CallKnown(c)

LEMMA InitLocked == Init => Locked
BY DEF Init, Locked, Inside

LEMMA LockedStep == TypeOK /\ Locked /\ [Next]_vars => Locked'
<1> SUFFICES ASSUME TypeOK, Locked, [Next]_vars PROVE Locked'
  OBVIOUS
<1> USE KeysAssumption DEF Locked, Inside, TypeOK
<1>0. ASSUME NEW c \in Call, Leave(c) PROVE Locked'
  BY <1>0 DEF Leave, Forget, Goto, Release
<1>1. ASSUME NEW c \in Call, NEW k \in Key, NEW p \in Fingerprint, Receive(c, k, p)
      PROVE  Locked'
  BY <1>1 DEF Receive, Goto
<1>2. ASSUME NEW c \in Call, LockHttp(c) PROVE Locked'
  BY <1>2 DEF LockHttp, Goto
<1>3. ASSUME NEW c \in Call, Lookup(c) PROVE Locked'
  BY <1>3, <1>0 DEF Lookup, Goto, Release
<1>4. ASSUME NEW c \in Call, HandlePlain(c) PROVE Locked'
  BY <1>4 DEF HandlePlain, Commit, GoesOn, Ends, Goto
<1>5. ASSUME NEW c \in Call, LockOperation(c) PROVE Locked'
  BY <1>5 DEF LockOperation, Goto
<1>6. ASSUME NEW c \in Call, pc[c] \in {"check", "record"}, \E n, b : Return(c, n, b)
      PROVE  Locked'
  BY <1>6 DEF Return, Forget, Goto
<1>7. ASSUME NEW c \in Call, CheckOperation(c) PROVE Locked'
  <2>1. CASE /\ pc[c] = "check" /\ Goto(c, "run")
             /\ UNCHANGED <<http_operation_lock, operation_lock, key>>
    BY <2>1 DEF Goto
  <2>2. CASE pc[c] = "check" /\ \E n, b : Return(c, n, b)
    BY <2>2, <1>6
  <2>3. CASE Leave(c)
    BY <2>3, <1>0
  <2>4. QED
    BY ONLY <1>7, <2>1, <2>2, <2>3 DEF CheckOperation
<1>8. ASSUME NEW c \in Call, RunOperation(c) PROVE Locked'
  BY <1>8 DEF RunOperation, Commit, GoesOn, Ends, Goto
<1>9. ASSUME NEW c \in Call, RecordOperation(c) PROVE Locked'
  <2>1. pc[c] = "record" /\ \E n, b : Return(c, n, b)
    BY ONLY <1>9 DEF RecordOperation
  <2>2. QED
    BY <2>1, <1>6
<1>10. ASSUME NEW c \in Call, RecordFails(c) \/ HandlerFails(c) \/ StoreFails(c) \/ Reply(c)
                               \/ Disconnect(c)
      PROVE  Locked'
  BY <1>10, <1>0 DEF RecordFails, HandlerFails, StoreFails, Reply, Disconnect
<1>11. ASSUME NEW c \in Call, HandlerEnds(c) PROVE Locked'
  BY <1>11 DEF HandlerEnds, Goto
<1>12. ASSUME NEW c \in Call, StoreAnswer(c) PROVE Locked'
  BY <1>12 DEF StoreAnswer, Goto, Release
<1>13. ASSUME NEW c \in Call, Detach(c) PROVE Locked'
  BY <1>13 DEF Detach
<1>14. CASE Crash
  BY <1>14 DEF Crash
<1>15. CASE UNCHANGED vars
  BY <1>15 DEF vars, calls
<1>16. QED
  BY <1>1, <1>2, <1>3, <1>4, <1>5, <1>7, <1>8, <1>9, <1>10, <1>11, <1>12, <1>13, <1>14, <1>15
     DEF Next, Step

LEMMA InitKnown == Init => Known
<1> SUFFICES ASSUME Init PROVE Known
  OBVIOUS
<1>1. \A k \in Key : Http(k) = NoEntry /\ answers[k] = {}
  BY EntryNames DEF Init, Http
<1>2. QED
  BY <1>1, KeysAssumption DEF Init, Known, AnswersStored, GuardedRecorded, CallKnown

\* A step of one call leaves the others where they are, and takes no lock from them.
Alone(c) ==
  \A d \in Call : d # c =>
    /\ pc'[d] = pc[d] /\ key'[d] = key[d] /\ fingerprint'[d] = fingerprint[d]
    /\ answer'[d] = answer[d]
    /\ http_operation_lock' = d => http_operation_lock = d

LEMMA StepAlone ==
  ASSUME TypeOK, NEW c \in Call, Step(c) \/ \E k \in Key, p \in Fingerprint : Receive(c, k, p)
  PROVE  Alone(c)
<1> USE KeysAssumption DEF TypeOK, Alone
<1>1. ASSUME Forget(c) PROVE \A d \in Call : d # c =>
         pc'[d] = pc[d] /\ key'[d] = key[d] /\ fingerprint'[d] = fingerprint[d]
                        /\ answer'[d] = answer[d]
  BY <1>1 DEF Forget, Goto
<1>2. ASSUME Leave(c) PROVE Alone(c)
  BY <1>1, <1>2 DEF Leave, Release
<1>3. ASSUME NEW n, NEW b, Return(c, n, b) PROVE Alone(c)
  BY <1>1, <1>3 DEF Return, Goto
<1>4. CASE \E k \in Key, p \in Fingerprint : Receive(c, k, p)
  BY <1>4 DEF Receive, Goto
<1>5. CASE LockHttp(c) \/ LockOperation(c) \/ HandlerEnds(c) \/ StoreAnswer(c) \/ Detach(c)
  BY <1>5 DEF LockHttp, LockOperation, HandlerEnds, StoreAnswer, Detach, Goto, Release
<1>6. CASE HandlePlain(c) \/ RunOperation(c)
  BY <1>6 DEF HandlePlain, RunOperation, Commit, GoesOn, Ends, Goto
<1>7. CASE Lookup(c)
  BY <1>2, <1>7 DEF Lookup, Goto, Release
<1>8. CASE CheckOperation(c)
  BY <1>2, <1>3, <1>8 DEF CheckOperation, Goto
<1>9. CASE RecordOperation(c)
  BY <1>3, <1>9 DEF RecordOperation
<1>10. CASE RecordFails(c) \/ HandlerFails(c) \/ StoreFails(c) \/ Reply(c) \/ Disconnect(c)
  BY <1>2, <1>10 DEF RecordFails, HandlerFails, StoreFails, Reply, Disconnect
<1>11. QED
  BY <1>4, <1>5, <1>6, <1>7, <1>8, <1>9, <1>10 DEF Step

\* A step that stores nothing and tells nothing.
LEMMA KnownAlone ==
  ASSUME Known, NEW c \in Call, Alone(c), UNCHANGED <<entries, answers>>, CallKnown(c)'
  PROVE  Known'
<1>1. AnswersStored' /\ GuardedRecorded'
  BY DEF Known, AnswersStored, GuardedRecorded, Http, Op
<1>2. ASSUME NEW d \in Call, d # c PROVE CallKnown(d)'
  BY <1>2 DEF Known, Alone, CallKnown, Http, Op, Operated, Given
<1>3. QED
  BY <1>1, <1>2 DEF Known

LEMMA KnownStep ==
  ASSUME Types, Locked, Known, Room, [Next]_vars PROVE Known'
<1> USE KeysAssumption
<1>a. TypeOK /\ Numbered
  BY DEF Types
<1> USE <1>a
<1>b. ASSUME NEW c \in Call, Step(c), UNCHANGED <<entries, answers>>, CallKnown(c)'
      PROVE  Known'
  BY <1>b, StepAlone, KnownAlone
<1>c. ASSUME NEW c \in Call, Leave(c) PROVE CallKnown(c)'
  BY <1>c DEF Leave, Forget, Goto, CallKnown, TypeOK, Inside
<1>1. ASSUME NEW c \in Call, NEW k \in Key, NEW p \in Fingerprint, Receive(c, k, p)
      PROVE  Known'
  <2>1. CallKnown(c)' /\ UNCHANGED <<entries, answers>>
    BY <1>1 DEF Receive, Goto, store, CallKnown, TypeOK, Inside
  <2>2. QED
    BY <1>1, <2>1, StepAlone, KnownAlone
<1>2. ASSUME NEW c \in Call, LockHttp(c) PROVE Known'
  <2>1. CallKnown(c)' /\ UNCHANGED <<entries, answers>>
    BY <1>2 DEF LockHttp, Goto, store, world, CallKnown, TypeOK, Inside
  <2>2. QED
    BY <1>2, <2>1, <1>b DEF Step
<1>3. ASSUME NEW c \in Call, Lookup(c) PROVE Known'
  <2>1. CASE Http(key[c]) = NoEntry /\ Goto(c, "handle") /\ UNCHANGED <<key, entries>>
    BY <2>1 , <1>b, <1>3 DEF Lookup, Step, store, world, CallKnown, Goto, Http, TypeOK, Inside
  <2>2. CASE Http(key[c]) # NoEntry /\ Http(key[c]).fingerprint = fingerprint[c]
    <3>1. Http(key[c]) \in Answer
      BY <2>2, EntryNames DEF Http, TypeOK
    <3>2. Http(key[c]) = [fingerprint |-> fingerprint[c], number |-> Http(key[c]).number]
      BY <3>1, <2>2 DEF Answer
    <3>3. /\ answer' = [answer EXCEPT ![c] = Http(key[c]).number]
          /\ pc' = [pc EXCEPT ![c] = "reply"]
          /\ UNCHANGED <<key, fingerprint, entries, answers>>
      BY <2>2, <1>3 DEF Lookup, Http, Goto, store, world
    <3>4. CallKnown(c)'
      BY <3>2, <3>3 DEF CallKnown, Given, Http, TypeOK, Inside
    <3>5. QED
      BY <3>3, <3>4, <1>3, <1>b DEF Step
  <2>3. CASE Leave(c)
    BY <2>3, <1>3, <1>b, <1>c DEF Lookup, Step, store, world
  <2>4. QED
    BY <1>3, <2>1, <2>2, <2>3 DEF Lookup, Http, store
<1>4. ASSUME NEW c \in Call, HandlePlain(c) PROVE Known'
  <2>1. /\ pc[c] = "handle" /\ key[c] \notin Guarded /\ http_operation_lock = c
        /\ pc'[c] \in {"handle", "after"}
        /\ UNCHANGED <<key, fingerprint, http_operation_lock, entries, answers>>
    BY <1>4 DEF HandlePlain, Commit, GoesOn, Ends, Goto, store, Locked, Inside, TypeOK
  <2>2. CallKnown(c)'
    BY <2>1 DEF Known, CallKnown, Http, Inside
  <2>3. QED
    BY <1>4, <2>1, <2>2, <1>b DEF Step
<1>5. ASSUME NEW c \in Call, LockOperation(c) PROVE Known'
  <2>1. CallKnown(c)' /\ UNCHANGED <<entries, answers>>
    BY <1>5 DEF LockOperation, Goto, store, world, Known, CallKnown, Http, TypeOK, Inside
  <2>2. QED
    BY <1>5, <2>1, <1>b DEF Step
<1>6. ASSUME NEW c \in Call, CheckOperation(c) PROVE Known'
  <2> DEFINE n == Operated(c).name
  <2>1. pc[c] = "check" /\ UNCHANGED <<entries, answers>>
    BY <1>6 DEF CheckOperation, store, world
  <2>2. CASE Op(n) = NoEntry /\ Goto(c, "run")
             /\ UNCHANGED <<http_operation_lock, key, fingerprint>>
    BY <1>6, <2>1, <2>2, <1>b
       DEF Step, Goto, Known, CallKnown, Http, Op, Operated, TypeOK, Inside
  <2>3. CASE /\ Op(n) # NoEntry /\ http_operation_lock = c /\ Goto(c, "after")
             /\ UNCHANGED <<http_operation_lock, key, fingerprint>>
    BY <1>6, <2>1, <2>3, <1>b
       DEF Step, Goto, Known, CallKnown, Http, Op, Operated, TypeOK, Inside
  <2>4. CASE Forget(c)
    <3>1. CallKnown(c)'
      BY <2>4 DEF Forget, Goto, CallKnown, TypeOK, Inside
    <3>2. QED
      BY <1>6, <2>1, <3>1, <1>b DEF Step
  <2>5. QED
    BY <1>6, <2>2, <2>3, <2>4 DEF CheckOperation, Return, Leave, Op
<1>7. ASSUME NEW c \in Call, RunOperation(c) PROVE Known'
  <2>1. /\ pc[c] = "run" /\ pc'[c] \in {"run", "record"}
        /\ UNCHANGED <<key, fingerprint, http_operation_lock, entries, answers>>
    BY <1>7 DEF RunOperation, Commit, GoesOn, Ends, Goto, store, TypeOK
  <2>2. CallKnown(c)'
    BY <2>1 DEF Known, CallKnown, Http, Op, Operated, Inside
  <2>3. QED
    BY <1>7, <2>1, <2>2, <1>b DEF Step
<1>8. ASSUME NEW c \in Call, RecordOperation(c) PROVE Known'
  <2> DEFINE n == Operated(c).name
  <2>1. /\ key[c] \in Guarded /\ pc[c] = "record" /\ operation_lock = c /\ Op(n) = NoEntry
        /\ Result(c) \in Answer /\ n \in Name
    BY <1>8, ResultIsAnswer DEF RecordOperation, Locked, Numbered, Known, CallKnown
  <2>2. entries' = [entries EXCEPT ![<<n, "operation">>] = Result(c)]
    BY <1>8, <2>1, InsertAdds DEF RecordOperation
  <2>3. /\ \A k \in Key : Http(k)' = Http(k)
        /\ \A m \in Name : m # n => Op(m)' = Op(m)
        /\ entries'[<<n, "operation">>] # NoEntry
    BY <2>1, <2>2, EntryNames, AnswerIsEntry DEF Http, Op, TypeOK
  <2>4. UNCHANGED <<answers, http_operation_lock>> /\ Alone(c)
    BY <1>8, StepAlone DEF RecordOperation, Return, world, Step
  <2>5. AnswersStored'
    BY <2>3, <2>4 DEF Known, AnswersStored
  <2>6. GuardedRecorded'
    <3>1. ASSUME NEW k \in Guarded, Http(k) # NoEntry
          PROVE  Op(Operation[k, Http(k).fingerprint].name)' # NoEntry
      <4>1. Http(k) \in Answer
        BY <3>1, EntryNames DEF Http, TypeOK
      <4>2. Operation[k, Http(k).fingerprint].name \in Name
        BY <4>1, AnswerIsEntry, OperationType
      <4>3. Op(Operation[k, Http(k).fingerprint].name) # NoEntry
        BY <3>1 DEF Known, GuardedRecorded
      <4>4. Http(k)' = Http(k)
        BY <2>3
      <4>5. entries'[<<Operation[k, Http(k).fingerprint].name, "operation">>] # NoEntry
        BY <4>2, <4>3, <2>3 DEF Op
      <4>6. QED
        BY <4>4, <4>5 DEF Op
    <3>2. ASSUME NEW k \in Guarded, Http(k)' # NoEntry
          PROVE  entries'[<<Operation[k, Http(k)'.fingerprint].name, "operation">>] # NoEntry
      <4>1. Http(k)' = Http(k)
        BY <2>3
      <4>2. QED
        BY <3>1, <3>2, <4>1 DEF Op
    <3>3. QED
      BY <3>2 DEF GuardedRecorded, Op
  <2>7. ASSUME NEW d \in Call, d # c PROVE CallKnown(d)'
    <3>1. /\ pc'[d] = pc[d] /\ key'[d] = key[d] /\ fingerprint'[d] = fingerprint[d]
          /\ answer'[d] = answer[d] /\ key[d] \in Key /\ pc[d] \notin {"run", "record"}
      BY <2>7, <2>1, <2>4 DEF Alone, Locked, TypeOK
    <3>2. Operated(d)' = Operated(d) /\ Given(d)' = Given(d)
      BY <3>1 DEF Operated, Given
    <3>3. ASSUME key[d] \in Guarded, Op(Operated(d).name) # NoEntry
          PROVE  Op(Operated(d).name)' # NoEntry
      <4>1. Operated(d).name \in Name
        BY <3>3, OperationType DEF Operated, TypeOK
      <4>2. QED
        BY <4>1, <3>2, <3>3, <2>3 DEF Op
    <3>4. Http(key[d])' = Http(key[d])
      BY <3>1, <2>3 DEF Http
    <3>5. CallKnown(d)
      BY DEF Known
    <3>6. QED
      BY <3>1, <3>2, <3>3, <3>4, <3>5, <2>4 DEF CallKnown
  <2>8. CallKnown(c)'
    <3>1. CASE Forget(c)
      BY <3>1 DEF Forget, Goto, CallKnown, TypeOK, Inside
    <3>2. CASE http_operation_lock = c /\ Goto(c, "after") /\ UNCHANGED <<key, fingerprint>>
      <4>1. Http(key[c]) = NoEntry
        BY <2>1, <3>2 DEF Known, CallKnown, Inside
      <4>2. Http(key[c])' = NoEntry
        BY <4>1, <2>3, <3>2 DEF Http, TypeOK
      <4>3. Op(Operated(c).name)' # NoEntry
        BY <2>3, <3>2 DEF Op, Operated
      <4>4. pc'[c] = "after"
        BY <3>2 DEF Goto, TypeOK
      <4>5. QED
        BY <4>2, <4>3, <4>4 DEF CallKnown
    <3>3. QED
      BY <1>8, <3>1, <3>2 DEF RecordOperation, Return
  <2>9. QED
    BY <2>5, <2>6, <2>7, <2>8 DEF Known
<1>9. ASSUME NEW c \in Call,
             RecordFails(c) \/ StoreFails(c) \/ HandlerFails(c) \/ Disconnect(c)
      PROVE  Known'
  BY <1>9, <1>b, <1>c
     DEF Step, RecordFails, StoreFails, InsertFails, HandlerFails, Disconnect, store, world
<1>10. ASSUME NEW c \in Call, HandlerEnds(c) PROVE Known'
  <2>1. /\ pc[c] = "after" /\ pc'[c] = "store"
        /\ UNCHANGED <<key, fingerprint, http_operation_lock, entries, answers>>
    BY <1>10 DEF HandlerEnds, Goto, store, TypeOK
  <2>2. CallKnown(c)'
    BY <2>1 DEF Known, CallKnown, Http, Op, Operated, Inside
  <2>3. QED
    BY <1>10, <2>1, <2>2, <1>b DEF Step
<1>11. ASSUME NEW c \in Call, StoreAnswer(c) PROVE Known'
  <2> DEFINE k == key[c]
  <2>1. /\ k \in Key /\ pc[c] = "store" /\ http_operation_lock = c /\ Given(c) \in Answer
        /\ Http(k) = NoEntry
    BY <1>11, GivenIsAnswer
       DEF StoreAnswer, Locked, Inside, Numbered, TypeOK, Known, CallKnown
  <2>2. entries' = [entries EXCEPT ![<<k, "http">>] = Given(c)]
    BY <1>11, <2>1, InsertAdds DEF StoreAnswer
  <2>3. /\ \A n \in Name : Op(n)' = Op(n)
        /\ \A j \in Key : j # k => Http(j)' = Http(j)
        /\ entries'[<<k, "http">>] = Given(c) /\ Given(c) # NoEntry
    BY <2>1, <2>2, EntryNames, AnswerIsEntry DEF Http, Op, TypeOK
  <2>4. /\ pc' = [pc EXCEPT ![c] = "reply"] /\ http_operation_lock' = None
        /\ UNCHANGED <<key, fingerprint, answer, answers>>
    BY <1>11, <2>1 DEF StoreAnswer, Release, Goto, world
  <2>5. AnswersStored'
    <3>1. answers[k] = {}
      BY <2>1 DEF Known, AnswersStored
    <3>2. ASSUME NEW j \in Key, answers'[j] # {}
          PROVE  Http(j)' # NoEntry /\ answers'[j] = {Http(j)'}
      <4>1. j # k /\ Http(j)' = Http(j) /\ answers'[j] = answers[j]
        BY <3>1, <3>2, <2>3, <2>4
      <4>2. QED
        BY <4>1, <3>2 DEF Known, AnswersStored
    <3>3. QED
      BY <3>2 DEF AnswersStored
  <2>6. GuardedRecorded'
    <3>1. ASSUME NEW j \in Guarded, j # k, Http(j)' # NoEntry
          PROVE  entries'[<<Operation[j, Http(j)'.fingerprint].name, "operation">>] # NoEntry
      <4>1. Http(j)' = Http(j) /\ Http(j) \in Answer
        BY <3>1, <2>3, EntryNames DEF Http, TypeOK
      <4>2. Operation[j, Http(j).fingerprint].name \in Name
        BY <4>1, AnswerIsEntry, OperationType
      <4>3. Op(Operation[j, Http(j).fingerprint].name) # NoEntry
        BY <3>1, <4>1 DEF Known, GuardedRecorded
      <4>4. QED
        BY <4>1, <4>2, <4>3, <2>3 DEF Op
    <3>2. ASSUME k \in Guarded
          PROVE  entries'[<<Operation[k, Http(k)'.fingerprint].name, "operation">>] # NoEntry
      <4>1. Http(k)'.fingerprint = fingerprint[c]
        BY <2>3, <2>4 DEF Http, Given
      <4>2. Op(Operated(c).name) # NoEntry
        BY <3>2, <2>1 DEF Known, CallKnown
      <4>3. Operated(c).name \in Name
        BY <3>2, OperationType DEF Operated, TypeOK
      <4>4. QED
        BY <4>1, <4>2, <4>3, <2>3 DEF Op, Operated
    <3>3. ASSUME NEW j \in Guarded, Http(j)' # NoEntry
          PROVE  Op(Operation[j, Http(j).fingerprint].name)' # NoEntry
      <4>1. entries'[<<Operation[j, Http(j)'.fingerprint].name, "operation">>] # NoEntry
        <5>1. CASE j = k
          BY <5>1, <3>2, <2>4, <3>3 DEF Http
        <5>2. CASE j # k
          BY <5>2, <3>1, <3>3
        <5>3. QED
          BY <5>1, <5>2
      <4>2. QED
        BY <4>1 DEF Op
    <3>4. QED
      BY <3>3 DEF GuardedRecorded
  <2>7. ASSUME NEW d \in Call PROVE CallKnown(d)'
    <3>1. Operated(d)' = Operated(d) /\ Given(d)' = Given(d)
      BY <2>4 DEF Operated, Given
    <3>2. ASSUME d # c, pc[d] = "reply" PROVE key[d] # k
      <4>1. Given(d) \in Answer /\ Http(key[d]) = Given(d)
        BY <3>2, GivenIsAnswer DEF Known, CallKnown, Numbered
      <4>2. QED
        BY <4>1, <2>1, AnswerIsEntry
    <3>3. pc'[d] = "reply" => Http(key[d])' = Given(d)'
      <4>1. CASE d = c
        BY <4>1, <2>3, <2>4, <3>1 DEF Http
      <4>2. CASE d # c
        <5>1. pc'[d] = pc[d] /\ key'[d] = key[d] /\ key[d] \in Key
          BY <4>2, <2>4 DEF TypeOK
        <5>2. pc[d] = "reply" => Http(key[d])' = Http(key[d])
          BY <5>1, <4>2, <3>2, <2>3 DEF Http
        <5>3. QED
          BY <5>1, <5>2, <3>1 DEF Known, CallKnown
      <4>3. QED
        BY <4>1, <4>2
    <3>4. pc'[d] \in {"after", "store", "run", "record"} => d # c /\ pc'[d] = pc[d]
      BY <2>4 DEF TypeOK
    <3>5. ASSUME key[d] \in Guarded PROVE Op(Operated(d).name)' = Op(Operated(d).name)
      <4>1. Operated(d).name \in Name
        BY <3>5, OperationType DEF Operated, TypeOK
      <4>2. QED
        BY <4>1, <3>1, <2>3 DEF Op
    <3>6. pc[d] \in {"run", "record"} => key[d] \in Guarded
      BY DEF Numbered
    <3>7. key'[d] = key[d] /\ http_operation_lock' # d
      BY <2>4
    <3>8. CallKnown(d)
      BY DEF Known
    <3>9. QED
      BY <3>3, <3>4, <3>5, <3>6, <3>7, <3>8 DEF CallKnown
  <2>8. QED
    BY <2>5, <2>6, <2>7 DEF Known
<1>12. ASSUME NEW c \in Call, Reply(c) PROVE Known'
  <2>1. /\ pc[c] = "reply" /\ key[c] \in Key /\ Http(key[c]) = Given(c) /\ Given(c) \in Answer
    BY <1>12, GivenIsAnswer DEF Reply, Known, CallKnown, Numbered, TypeOK
  <2>2. Given(c) # NoEntry
    BY <2>1, AnswerIsEntry
  <2>3. /\ answers' = [answers EXCEPT ![key[c]] = @ \cup {Given(c)}] /\ entries' = entries
        /\ Leave(c)
    BY <1>12 DEF Reply, store
  <2>4. AnswersStored'
    BY <2>1, <2>2, <2>3 DEF Known, AnswersStored, Http, TypeOK
  <2>5. GuardedRecorded'
    BY <2>3 DEF Known, GuardedRecorded, Http, Op
  <2>6. Alone(c) /\ CallKnown(c)'
    BY <1>12, <1>c, <2>3, StepAlone DEF Step
  <2>7. ASSUME NEW d \in Call, d # c PROVE CallKnown(d)'
    <3>1. CallKnown(d) /\ entries' = entries
      BY <2>3 DEF Known
    <3>2. QED
      BY <3>1, <2>6, <2>7 DEF Alone, CallKnown, Http, Op, Operated, Given
  <2>8. QED
    BY <2>4, <2>5, <2>6, <2>7 DEF Known
<1>13. ASSUME NEW c \in Call, Detach(c) PROVE Known'
  <2>1. CallKnown(c)' /\ UNCHANGED <<entries, answers>>
    BY <1>13 DEF Detach, store, world, Known, CallKnown, Http, Op, Operated, Given, Inside
  <2>2. QED
    BY <1>13, <2>1, <1>b DEF Step
<1>14. CASE Crash
  <2>1. AnswersStored' /\ GuardedRecorded'
    BY <1>14 DEF Crash, Known, AnswersStored, GuardedRecorded, Http, Op
  <2>2. \A c \in Call : CallKnown(c)'
    BY <1>14 DEF Crash, CallKnown, Inside
  <2>3. QED
    BY <2>1, <2>2 DEF Known
<1>15. CASE UNCHANGED vars
  BY <1>15 DEF vars, calls, store, world, Known, AnswersStored, GuardedRecorded, CallKnown,
               Http, Op, Operated, Given
<1>16. QED
  BY <1>1, <1>2, <1>3, <1>4, <1>5, <1>6, <1>7, <1>8, <1>9, <1>10, <1>11, <1>12, <1>13,
     <1>14, <1>15 DEF Next, Step

-----------------------------------------------------------------------------
(* What follows while there is room. *)

Inv == Types /\ Locked /\ Known

LEMMA InitInv == Init => Inv
BY InitTypes, InitLocked, InitKnown DEF Inv

LEMMA InvStep == Inv /\ Room /\ [Next]_vars => Inv'
BY TypeStep, LockedStep, KnownStep DEF Inv, Types

\* Under a key there is one answer of success, and it is to the request it was given
\* to; until trim_entries() has to drop something.
THEOREM OneAnswerOnly == Spec /\ []Room => []OneAnswer
<1>1. Inv => OneAnswer
  BY DEF Inv, Known, AnswersStored, OneAnswer
<1>2. QED
  BY <1>1, InitInv, InvStep, PTL DEF Spec

\* Only these steps commit anything, and each for the entry its call has in hand.
LEMMA Commits ==
  ASSUME TypeOK, [Next]_vars, NEW e \in Entry, effects'[e] # effects[e]
  PROVE  \E c \in Call : /\ HandlePlain(c) \/ RunOperation(c)
                         /\ Work(key[c], fingerprint[c]) = e
<1>1. CASE \E c \in Call : HandlePlain(c) \/ RunOperation(c)
  BY <1>1 DEF HandlePlain, RunOperation, Commit, TypeOK
<1>2. CASE ~ \E c \in Call : HandlePlain(c) \/ RunOperation(c)
  BY <1>2 DEF Next, Step, Receive, LockHttp, Lookup, LockOperation, CheckOperation,
     RecordOperation, RecordFails, HandlerEnds, HandlerFails, StoreAnswer, StoreFails, Reply,
     Disconnect, Detach, Crash, vars, world
<1>3. QED
  BY <1>1, <1>2

\* What a step commits is for a request nobody was told about.
LEMMA CommitsUnanswered ==
  ASSUME Inv, [Next]_vars, NEW k \in Key, NEW a \in answers[k]
  PROVE  effects'[Work(k, a.fingerprint)] = effects[Work(k, a.fingerprint)]
<1> DEFINE e == Work(k, a.fingerprint)
<1>0. TypeOK /\ Numbered
  BY DEF Inv, Types
<1>1. a \in Answer /\ a = Http(k) /\ Http(k) # NoEntry
  BY <1>0 DEF Inv, Known, AnswersStored, TypeOK
<1>2. k \in Guarded => Op(Operation[k, a.fingerprint].name) # NoEntry
  BY <1>1 DEF Inv, Known, GuardedRecorded
<1>3. e \in Entry
  BY <1>1, AnswerIsEntry, WorkType
<1> SUFFICES ASSUME effects'[e] # effects[e] PROVE FALSE
  OBVIOUS
<1>4. PICK c \in Call : /\ HandlePlain(c) \/ RunOperation(c)
                        /\ Work(key[c], fingerprint[c]) = e
  BY <1>0, <1>3, Commits
<1>5. CASE HandlePlain(c)
  <2>1. key[c] \notin Guarded /\ http_operation_lock = c /\ pc[c] = "handle"
    BY <1>5, KeysAssumption DEF HandlePlain, Inv, Locked, Inside
  <2>2. key[c] = k
    BY <2>1, <1>4 DEF Work
  <2>3. QED
    BY <1>1, <2>1, <2>2 DEF Inv, Known, CallKnown, Inside
<1>6. CASE RunOperation(c)
  <2>1. key[c] \in Guarded /\ pc[c] = "run"
    BY <1>0, <1>6 DEF RunOperation, Numbered
  <2>2. k \in Guarded /\ Operated(c).name = Operation[k, a.fingerprint].name
    BY <2>1, <1>4 DEF Work, Operated
  <2>3. Op(Operated(c).name) = NoEntry
    BY <2>1 DEF Inv, Known, CallKnown
  <2>4. QED
    BY <1>2, <2>2, <2>3 DEF Op
<1>7. QED
  BY <1>4, <1>5, <1>6

\* No transaction of a request that was answered with success is committed again: by
\* a retry, by another request for the same operation, by any thread left behind, or
\* after any crash; until trim_entries() has to drop something.
THEOREM Acknowledged == Spec /\ []Room => AcknowledgedOnce
<1>1. Inv /\ [Next]_vars =>
        [\A k \in Key : \A a \in answers[k] :
           effects'[Work(k, a.fingerprint)] = effects[Work(k, a.fingerprint)]]_vars
  BY CommitsUnanswered
<1>2. QED
  BY <1>1, InitInv, InvStep, PTL DEF Spec, AcknowledgedOnce

-----------------------------------------------------------------------------
(* Operations that have run to their end. *)

\* Such an operation is recorded, or is about to be by the call that ran it.
Recorded ==
  crashes = 0 /\ ~read_only =>
    \A n \in executed :
      Op(n) # NoEntry \/ \E c \in Call : pc[c] = "record" /\ Operated(c).name = n

\* Neither a crash nor a failure is forgotten.
LEMMA Undisturbed ==
  ASSUME TypeOK, [Next]_vars, crashes' = 0, ~read_only'
  PROVE  crashes = 0 /\ ~read_only
<1>1. ~Crash
  BY DEF Crash, TypeOK
<1>2. crashes' = crashes
  BY <1>1 DEF Next, Step, Receive, LockHttp, Lookup, HandlePlain, Commit, LockOperation,
     CheckOperation, RunOperation, RecordOperation, RecordFails, HandlerEnds, HandlerFails,
     StoreAnswer, StoreFails, Reply, Disconnect, Detach, vars, world
<1>3. read_only' = read_only \/ read_only'
  BY <1>1 DEF Next, Step, Receive, LockHttp, Lookup, HandlePlain, Commit, LockOperation,
     CheckOperation, RunOperation, RecordOperation, RecordFails, HandlerEnds, HandlerFails,
     StoreAnswer, StoreFails, Reply, Disconnect, Detach, vars, store, Insert, InsertFails
<1>4. QED
  BY <1>2, <1>3

LEMMA RecordedStep ==
  ASSUME Inv, Recorded, Room, [Next]_vars PROVE Recorded'
<1> USE KeysAssumption
<1>a. TypeOK /\ Numbered /\ Locked /\ Known
  BY DEF Inv, Types
<1> USE <1>a
<1> SUFFICES ASSUME crashes' = 0, ~read_only', NEW n \in executed'
             PROVE  \/ entries'[<<n, "operation">>] # NoEntry
                    \/ \E c \in Call : pc'[c] = "record" /\ Operated(c).name' = n
  BY DEF Recorded, Op
<1> DEFINE Kept == \/ entries'[<<n, "operation">>] # NoEntry
                   \/ \E c \in Call : pc'[c] = "record" /\ Operated(c).name' = n
<1>b. crashes = 0 /\ ~read_only
  BY Undisturbed
<1>c. ASSUME n \in executed
      PROVE  \/ Op(n) # NoEntry
             \/ \E c \in Call : pc[c] = "record" /\ Operated(c).name = n
  BY <1>b, <1>c DEF Recorded
\* Steps that neither execute nor store, of a call that does not record.
<1>d. ASSUME NEW c \in Call, Alone(c), pc[c] # "record", UNCHANGED <<entries, executed>>
      PROVE  Kept
  <2>1. CASE Op(n) # NoEntry
    BY <2>1, <1>d DEF Op
  <2>2. CASE \E d \in Call : pc[d] = "record" /\ Operated(d).name = n
    BY <2>2, <1>d DEF Alone, Operated
  <2>3. QED
    BY <2>1, <2>2, <1>c, <1>d
<1>1. ASSUME NEW c \in Call, RunOperation(c) PROVE Kept
  <2>1. /\ pc[c] = "run" /\ operation_lock = c /\ entries' = entries
        /\ UNCHANGED <<key, fingerprint>>
    BY <1>1 DEF RunOperation, Commit, store, Locked
  <2>2. \A d \in Call : pc[d] # "record"
    BY <2>1 DEF Locked
  <2>3. CASE n \in executed
    BY <2>1, <2>2, <2>3, <1>c DEF Op
  <2>4. CASE n \notin executed
    <3>1. n = Operated(c).name /\ pc' = [pc EXCEPT ![c] = "record"]
      BY <1>1, <2>4 DEF RunOperation, GoesOn, Ends, Goto
    <3>2. QED
      BY <2>1, <3>1 DEF Operated, TypeOK
  <2>5. QED
    BY <2>3, <2>4
<1>2. ASSUME NEW c \in Call, RecordOperation(c) PROVE Kept
  <2>1. /\ pc[c] = "record" /\ executed' = executed /\ operation_lock = c
        /\ Result(c) \in Answer /\ Operated(c).name \in Name
    BY <1>2, ResultIsAnswer DEF RecordOperation, Numbered, Locked, world
  <2>2. entries' = [entries EXCEPT ![<<Operated(c).name, "operation">>] = Result(c)]
    BY <1>2, <2>1, InsertAdds DEF RecordOperation
  <2>3. /\ entries'[<<Operated(c).name, "operation">>] # NoEntry
        /\ \A m \in Name : m # Operated(c).name => entries'[<<m, "operation">>] = Op(m)
    BY <2>1, <2>2, EntryNames, AnswerIsEntry DEF Op, TypeOK
  <2>4. \A d \in Call : pc[d] = "record" => d = c
    BY <2>1 DEF Locked
  <2>5. n \in Name
    BY <2>1 DEF TypeOK
  <2>6. QED
    BY <2>1, <2>3, <2>4, <2>5, <1>c
<1>3. ASSUME NEW c \in Call, StoreAnswer(c) PROVE Kept
  <2>1. pc[c] = "store" /\ Given(c) \in Answer /\ executed' = executed /\ Alone(c)
    BY <1>3, GivenIsAnswer, StepAlone DEF StoreAnswer, Numbered, world, Step
  <2>2. entries' = [entries EXCEPT ![<<key[c], "http">>] = Given(c)]
    BY <1>3, <2>1, InsertAdds DEF StoreAnswer
  <2>3. n \in Name
    BY <2>1 DEF TypeOK
  <2>4. entries'[<<n, "operation">>] = Op(n)
    BY <2>2, <2>3, EntryNames DEF Op, TypeOK
  <2>5. CASE \E d \in Call : pc[d] = "record" /\ Operated(d).name = n
    BY <2>1, <2>5 DEF Alone, Operated
  <2>6. QED
    BY <2>1, <2>4, <2>5, <1>c
<1>4. ASSUME NEW c \in Call, HandlePlain(c) PROVE Kept
  <2>1. pc[c] # "record" /\ UNCHANGED <<entries, executed>>
    BY <1>4 DEF HandlePlain, Commit, GoesOn, store
  <2>2. QED
    BY <2>1, <1>4, <1>d, StepAlone DEF Step
<1>5. ASSUME NEW c \in Call,
             \/ LockHttp(c) \/ Lookup(c) \/ LockOperation(c) \/ CheckOperation(c)
             \/ HandlerEnds(c) \/ HandlerFails(c) \/ Reply(c) \/ Disconnect(c)
      PROVE  Kept
  <2>1. pc[c] # "record" /\ UNCHANGED <<entries, executed>>
    BY <1>5 DEF LockHttp, Lookup, LockOperation, CheckOperation, HandlerEnds, HandlerFails,
       Reply, Disconnect, store, world, Locked
  <2>2. QED
    BY <2>1, <1>5, <1>d, StepAlone DEF Step
<1>6. ASSUME NEW c \in Call, NEW j \in Key, NEW p \in Fingerprint, Receive(c, j, p)
      PROVE  Kept
  <2>1. pc[c] # "record" /\ UNCHANGED <<entries, executed>>
    BY <1>6 DEF Receive, store
  <2>2. QED
    BY <2>1, <1>6, <1>d, StepAlone
<1>7. ASSUME NEW c \in Call, RecordFails(c) \/ StoreFails(c) PROVE Kept
  BY <1>7 DEF RecordFails, StoreFails, InsertFails
<1>8. ASSUME NEW c \in Call, Detach(c) PROVE Kept
  <2>1. UNCHANGED <<pc, key, fingerprint, entries, executed>>
    BY <1>8 DEF Detach, store, world
  <2>2. QED
    BY <2>1, <1>c DEF Op, Operated
<1>9. CASE Crash
  BY <1>9 DEF Crash, TypeOK
<1>10. CASE UNCHANGED vars
  BY <1>10, <1>c DEF vars, calls, store, world, Op, Operated
<1>11. QED
  BY <1>1, <1>2, <1>3, <1>4, <1>5, <1>6, <1>7, <1>8, <1>9, <1>10 DEF Next, Step

\* Nobody begins an operation that has run to its end.
LEMMA ExecutedKept ==
  ASSUME Inv, Recorded, [Next]_vars, crashes = 0, ~read_only, NEW n \in executed
  PROVE  effects'[<<n, "operation">>] = effects[<<n, "operation">>]
<1>0. TypeOK /\ Numbered /\ Locked /\ Known
  BY DEF Inv, Types
<1>1. <<n, "operation">> \in Entry
  BY <1>0, EntryNames DEF TypeOK
<1> SUFFICES ASSUME effects'[<<n, "operation">>] # effects[<<n, "operation">>] PROVE FALSE
  OBVIOUS
<1>2. PICK c \in Call : /\ HandlePlain(c) \/ RunOperation(c)
                        /\ Work(key[c], fingerprint[c]) = <<n, "operation">>
  BY <1>0, <1>1, Commits
<1>3. RunOperation(c) /\ Operated(c).name = n
  BY <1>0, <1>2 DEF HandlePlain, RunOperation, Work, Operated, Numbered
<1>4. pc[c] = "run" /\ operation_lock = c /\ Op(n) = NoEntry
  BY <1>0, <1>3 DEF RunOperation, Locked, Known, CallKnown
<1>5. \A d \in Call : pc[d] # "record"
  BY <1>0, <1>4 DEF Locked
<1>6. QED
  BY <1>4, <1>5 DEF Recorded

\* An operation that has run to its end is not begun again, answered or not, whoever
\* disconnects and retries and whichever attempts have failed halfway before; while
\* neither the process nor the store of answers fails and nothing is trimmed.
THEOREM Guards == Spec /\ []Room => GuardedOnce
<1>1. Init => Recorded
  BY DEF Init, Recorded
<1>2. Inv /\ Recorded /\ Room /\ [Next]_vars => Recorded'
  BY RecordedStep
<1>3. Inv /\ Recorded /\ [Next]_vars =>
        [crashes = 0 /\ ~read_only =>
           \A n \in executed : effects'[<<n, "operation">>] = effects[<<n, "operation">>]]_vars
  BY ExecutedKept
<1>4. QED
  BY <1>1, <1>2, <1>3, InitInv, InvStep, PTL DEF Spec, GuardedOnce
=============================================================================
