-------------------------- MODULE AtomicStoreProofs --------------------------
(***************************************************************************)
(* Theorems about AtomicStore, for every set of threads and documents, and *)
(* every set of calls that may fail.                                       *)
(***************************************************************************)
EXTENDS AtomicStore, TLAPS

Labels == Calls \cup {"idle", "copying", "publish"}

LEMMA StoredIsDoc == \A c \in Content : c # Torn => Stored(c) \in Doc
BY StoreAssumption DEF Content, Stored

LEMMA DocIsStored == \A d \in Doc : d \in Content /\ d # Absent /\ d # Torn /\ Stored(d) = d
BY StoreAssumption DEF Content, Stored

-----------------------------------------------------------------------------
(* Types. *)

LEMMA InitTypes == Init => TypeOK
<1> SUFFICES ASSUME Init PROVE TypeOK
  OBVIOUS
<1>1. /\ transactions \in 0..MaxTransactions /\ crashes \in 0..MaxCrashes
      /\ known \in [Thread -> Doc] /\ value \in Doc /\ candidate \in Doc
  BY StoreAssumption DEF Init
<1>2. /\ synced \in BOOLEAN /\ up \in BOOLEAN
      /\ read_only \in BOOLEAN /\ poisoned \in BOOLEAN
  BY DEF Init
<1>3. /\ main \in Content /\ temporary \in Content /\ backup \in Content
      /\ onDisk \subseteq Content /\ since \subseteq Content
      /\ holder \in Thread \cup {None} /\ pc \in Calls \cup {"idle", "copying", "publish"}
  BY DEF Init, Content
<1>4. QED
  BY <1>1, <1>2, <1>3 DEF TypeOK

LEMMA CrashTypes == ASSUME TypeOK, Crash, main' \in Content, temporary' \in Content,
                           backup' \in Content, onDisk' \subseteq Content,
                           synced' \in BOOLEAN
                    PROVE  TypeOK'
<1>1. crashes' \in 0..MaxCrashes /\ transactions' \in 0..MaxTransactions
  BY StoreAssumption DEF TypeOK, Crash
<1>2. /\ up' \in BOOLEAN /\ read_only' \in BOOLEAN /\ poisoned' \in BOOLEAN
      /\ since' \subseteq Content /\ value' \in Doc /\ candidate' \in Doc
      /\ known' \in [Thread -> Doc]
      /\ holder' \in Thread \cup {None} /\ pc' \in Calls \cup {"idle", "copying", "publish"}
  BY DEF TypeOK, Crash
<1>3. QED
  BY <1>1, <1>2 DEF TypeOK

LEMMA ContinueTypes ==
  ASSUME TypeOK, NEW from, NEW to \in Labels, Continue(from, to),
         main' \in Content, temporary' \in Content, backup' \in Content,
         onDisk' \subseteq Content, since' \subseteq Content, synced' \in BOOLEAN
  PROVE  TypeOK'
BY DEF TypeOK, Continue, Goto, memory, Labels

LEMMA TypeStep == TypeOK /\ [Next]_vars => TypeOK'
<1> SUFFICES ASSUME TypeOK, [Next]_vars PROVE TypeOK'
  OBVIOUS
<1> USE StoreAssumption
<1>1. CASE Open
  <2>1. value' \in Doc
    BY <1>1, StoredIsDoc DEF Open, TypeOK
  <2>2. QED
    BY <1>1, <2>1 DEF Open, TypeOK, files
<1>2. ASSUME NEW t \in Thread, Snapshot(t) PROVE TypeOK'
  BY <1>2 DEF Snapshot, TypeOK, files, memory
<1>3. ASSUME NEW t \in Thread, NEW d \in Doc, Transact(t, d) PROVE TypeOK'
  BY <1>3 DEF Transact, Request, TypeOK, files, memory, Calls
<1>4. CASE Panic
  BY <1>4 DEF Panic, Request, TypeOK, files
<1>5. CASE CreateTemporary
  BY <1>5, ContinueTypes DEF CreateTemporary, TypeOK, Labels, Calls, Content
<1>6. CASE WriteTemporary
  BY <1>6, ContinueTypes, DocIsStored DEF WriteTemporary, TypeOK, Labels, Calls
<1>7. CASE SyncTemporary
  BY <1>7, ContinueTypes DEF SyncTemporary, TypeOK, Labels, Calls
<1>8. CASE CopyBegins
  BY <1>8, ContinueTypes DEF CopyBegins, TypeOK, Labels, Calls, Content
<1>9. CASE CopyEnds
  BY <1>9, ContinueTypes DEF CopyEnds, TypeOK, Labels, Calls
<1>10. CASE NothingToCopy
  BY <1>10, ContinueTypes DEF NothingToCopy, TypeOK, Labels, Calls, files
<1>11. CASE Rename
  BY <1>11, ContinueTypes DEF Rename, TypeOK, Labels, Calls, Content
<1>12. CASE SyncDirectory
  BY <1>12, ContinueTypes DEF SyncDirectory, TypeOK, Labels, Calls
<1>13. CASE Publish
  BY <1>13 DEF Publish, TypeOK, files
<1>14. CASE Refuse
  BY <1>14 DEF Refuse, TypeOK, files
<1>15. CASE Kill
  BY <1>15, CrashTypes DEF Kill, TypeOK, files
<1>16. CASE PowerLoss
  BY <1>16, CrashTypes DEF PowerLoss, TypeOK, Content
<1>17. CASE UNCHANGED vars
  BY <1>17 DEF vars, files, memory, TypeOK
<1>18. QED
  BY <1>1, <1>2, <1>3, <1>4, <1>5, <1>6, <1>7, <1>8, <1>9, <1>10, <1>11, <1>12, <1>13,
     <1>14, <1>15, <1>16, <1>17 DEF Next

\* Every variable keeps its type, whatever fails.
THEOREM TypeCorrect == Spec => []TypeOK
BY InitTypes, TypeStep, PTL DEF Spec

-----------------------------------------------------------------------------
(* The inductive invariant. *)

\* path.exists() tells a missing file from one it cannot look at.
StatWorks == "stat" \notin Faults

\* A transaction is under way exactly when the mutex is held.
Working ==
  /\ pc # "idle" => up /\ holder \in Thread
  /\ pc = "idle" => holder = None

\* What is renamed is the candidate, whole and on the disk.
Prepared ==
  /\ pc \in {"sync", "copy", "copying", "rename"} => temporary = candidate
  /\ pc \in {"copy", "copying", "rename"} => synced
  /\ StatWorks /\ pc = "rename" => main = Absent \/ backup = main

\* Memory follows the file, one call after it.
Following ==
  /\ StatWorks /\ up /\ pc \notin {"sync_dir", "publish"} => value = Stored(main)
  /\ pc \in {"sync_dir", "publish"} => main = candidate

Inv == TypeOK /\ Working /\ Prepared /\ Following /\ NeverTorn

LEMMA InitInv == Init => Inv
<1> SUFFICES ASSUME Init PROVE Inv
  OBVIOUS
<1>1. TypeOK
  BY InitTypes
<1>2. Working /\ Prepared /\ Following
  BY DEF Init, Working, Prepared, Following
<1>3. NeverTorn
  BY StoreAssumption DEF Init, NeverTorn
<1>4. QED
  BY <1>1, <1>2, <1>3 DEF Inv

\* A crash leaves no transaction and no memory; the files are what they were, or
\* what the disk holds of them.
LEMMA CrashInv ==
  ASSUME Inv, TypeOK', Crash, Torn \notin onDisk' \cup {main'}
  PROVE  Inv'
BY DEF Inv, Crash, Working, Prepared, Following, NeverTorn

LEMMA InvStep == Inv /\ [Next]_vars => Inv'
<1> SUFFICES ASSUME Inv, [Next]_vars PROVE Inv'
  OBVIOUS
<1>a. TypeOK'
  BY TypeStep DEF Inv
<1>b. TypeOK /\ Working /\ Prepared /\ Following /\ NeverTorn
  BY DEF Inv
<1> USE StoreAssumption, <1>a, <1>b DEF StatWorks
<1> SUFFICES ASSUME TRUE PROVE Working' /\ Prepared' /\ Following' /\ NeverTorn'
  BY DEF Inv
<1>1. CASE Open
  BY <1>1 DEF Open, files, Working, Prepared, Following, NeverTorn
<1>2. ASSUME NEW t \in Thread, Snapshot(t)
      PROVE  Working' /\ Prepared' /\ Following' /\ NeverTorn'
  BY <1>2 DEF Snapshot, files, memory, Working, Prepared, Following, NeverTorn
<1>3. ASSUME NEW t \in Thread, NEW d \in Doc, Transact(t, d)
      PROVE  Working' /\ Prepared' /\ Following' /\ NeverTorn'
  <2>1. up /\ pc = "idle"
    BY <1>3 DEF Transact, Request, Free, Working
  <2>2. QED
    BY <1>3, <2>1 DEF Transact, Request, files, memory, Working, Prepared, Following, NeverTorn
<1>4. CASE Panic
  BY <1>4 DEF Panic, Request, files, Working, Prepared, Following, NeverTorn
<1>5. CASE CreateTemporary
  BY <1>5 DEF CreateTemporary, Continue, Goto, memory, Working, Prepared, Following, NeverTorn
<1>6. CASE WriteTemporary
  BY <1>6 DEF WriteTemporary, Continue, Goto, memory, Working, Prepared, Following, NeverTorn
<1>7. CASE SyncTemporary
  BY <1>7 DEF SyncTemporary, Continue, Goto, memory, Working, Prepared, Following, NeverTorn
<1>8. CASE CopyBegins
  BY <1>8 DEF CopyBegins, Continue, Goto, memory, Working, Prepared, Following, NeverTorn
<1>9. CASE CopyEnds
  BY <1>9 DEF CopyEnds, Continue, Goto, memory, Working, Prepared, Following, NeverTorn
<1>10. CASE NothingToCopy
  BY <1>10 DEF NothingToCopy, Continue, Goto, files, memory, Working, Prepared, Following,
               NeverTorn
<1>11. CASE Rename
  <2>1. pc = "rename" /\ synced /\ temporary = candidate /\ temporary \in Doc
    BY <1>11 DEF Rename, Continue, Prepared, TypeOK
  <2>2. main' = candidate /\ onDisk' = onDisk \cup {temporary}
    BY <1>11, <2>1 DEF Rename
  <2>3. NeverTorn'
    BY <2>1, <2>2 DEF NeverTorn
  <2>4. QED
    BY <1>11, <2>1, <2>2, <2>3 DEF Rename, Continue, Goto, memory, Working, Prepared, Following
<1>12. CASE SyncDirectory
  BY <1>12 DEF SyncDirectory, Continue, Goto, memory, Working, Prepared, Following, NeverTorn
<1>13. CASE Publish
  <2>1. value' = Stored(main')
    BY <1>13, DocIsStored DEF Publish, files, Following, TypeOK
  <2>2. QED
    BY <1>13, <2>1 DEF Publish, files, Working, Prepared, Following, NeverTorn
<1>14. CASE Refuse
  <2>1. pc # "publish" /\ pc # "sync_dir" /\ pc # "idle"
    BY <1>14 DEF Refuse, Calls
  <2>2. QED
    BY <1>14, <2>1 DEF Refuse, files, Working, Prepared, Following, NeverTorn
<1>15. CASE Kill
  BY <1>15, CrashInv DEF Kill, files, NeverTorn, Inv
<1>16. CASE PowerLoss
  BY <1>16, CrashInv DEF PowerLoss, NeverTorn, Inv
<1>17. CASE UNCHANGED vars
  BY <1>17 DEF vars, files, memory, Working, Prepared, Following, NeverTorn
<1>18. QED
  BY <1>1, <1>2, <1>3, <1>4, <1>5, <1>6, <1>7, <1>8, <1>9, <1>10, <1>11, <1>12, <1>13,
     <1>14, <1>15, <1>16, <1>17 DEF Next

\* Whatever call failed and wherever the process or the power was cut, the next
\* start finds a file that parses, or none.
THEOREM StartsAgain == Spec => []NeverTorn
<1>1. Inv => NeverTorn
  BY DEF Inv
<1>2. QED
  BY <1>1, InitInv, InvStep, PTL DEF Spec

\* Between transactions memory and file hold the same document, after every failed
\* commit and every restart; as long as path.exists() tells the truth.
THEOREM MemoryFollows == ASSUME StatWorks PROVE Spec => []MemoryIsStored
<1>1. Inv => MemoryIsStored
  BY StoreAssumption DEF Inv, Working, Following, MemoryIsStored
<1>2. QED
  BY <1>1, InitInv, InvStep, PTL DEF Spec

\* The commit point is never reached before the old file has its copy; as long as
\* path.exists() tells the truth.
THEOREM OldKept == ASSUME StatWorks PROVE Spec => OldIsKept
<1>1. Inv /\ [Next]_vars => [Rename => main = Absent \/ backup' = main]_vars
  BY DEF Inv, Prepared, Rename, Continue
<1>2. QED
  BY <1>1, InitInv, InvStep, PTL DEF Spec, OldIsKept

-----------------------------------------------------------------------------
(* What was answered stays answered. *)

DirectorySyncs == "sync_dir" \notin Faults

Hardened ==
  /\ NothingUndone
  /\ pc = "sync_dir" => main \in since
  /\ pc = "publish" => onDisk = {main}

LEMMA HardenedStep ==
  ASSUME DirectorySyncs, Inv, Hardened, [Next]_vars PROVE Hardened'
<1> USE DEF Hardened, NothingUndone
<1>1. CASE Open
  BY <1>1 DEF Open, files
<1>2. ASSUME NEW t \in Thread, Snapshot(t) PROVE Hardened'
  BY <1>2 DEF Snapshot, files
<1>3. ASSUME NEW t \in Thread, NEW d \in Doc, Transact(t, d) PROVE Hardened'
  BY <1>3 DEF Transact, Request, files
<1>4. CASE Panic
  BY <1>4 DEF Panic, Request, files
<1>5. CASE CreateTemporary \/ WriteTemporary \/ SyncTemporary
  BY <1>5 DEF CreateTemporary, WriteTemporary, SyncTemporary, Continue, Goto
<1>6. CASE CopyBegins \/ CopyEnds \/ NothingToCopy
  BY <1>6 DEF CopyBegins, CopyEnds, NothingToCopy, Continue, Goto, files
<1>7. CASE Rename
  <2>1. synced
    BY <1>7 DEF Rename, Continue, Inv, Prepared
  <2>2. QED
    BY <1>7, <2>1 DEF Rename, Continue, Goto
<1>8. CASE SyncDirectory
  <2>1. onDisk' = {main} /\ main' = main /\ since' = since
    BY <1>8 DEF SyncDirectory, DirectorySyncs
  <2>2. main \in since /\ pc' = "publish"
    BY <1>8 DEF SyncDirectory, Continue, Goto
  <2>3. QED
    BY <2>1, <2>2
<1>9. CASE Publish
  BY <1>9 DEF Publish, files
<1>10. CASE Refuse
  BY <1>10 DEF Refuse, files
<1>11. CASE Kill
  BY <1>11 DEF Kill, Crash, files
<1>12. CASE PowerLoss
  BY <1>12 DEF PowerLoss, Crash
<1>13. CASE UNCHANGED vars
  BY <1>13 DEF vars, files
<1>14. QED
  BY <1>1, <1>2, <1>3, <1>4, <1>5, <1>6, <1>7, <1>8, <1>9, <1>10, <1>11, <1>12, <1>13 DEF Next

\* A loss of power takes back nothing transact() has answered with success, as
\* long as a sync of the directory does what it says.
THEOREM Durable == ASSUME DirectorySyncs PROVE Spec => []NothingUndone
<1>1. Init => Hardened
  BY DEF Init, Hardened, NothingUndone
<1>2. Inv /\ Hardened /\ [Next]_vars => Hardened'
  BY HardenedStep
<1>3. Hardened => NothingUndone
  BY DEF Hardened
<1>4. QED
  BY <1>1, <1>2, <1>3, InitInv, InvStep, PTL DEF Spec

-----------------------------------------------------------------------------
(* The refinement. *)

returning == {Stored(c) : c \in onDisk}

documented == <<Stored(main), returning, known>>

LEMMA DocumentInit == Init => Document!Init
<1> SUFFICES ASSUME Init PROVE Document!Init
  OBVIOUS
<1>1. Stored(main) = Default
  BY DEF Init, Stored
<1>2. returning = {Default}
  BY DEF Init, Stored, returning
<1>3. QED
  BY <1>1, <1>2 DEF Document!Init, Init, returning

LEMMA DocumentStep == StatWorks /\ Inv /\ Inv' /\ [Next]_vars => [Document!Next]_documented
<1> SUFFICES ASSUME StatWorks, Inv, Inv', [Next]_vars PROVE [Document!Next]_documented
  OBVIOUS
<1> USE DEF documented
<1>a. ASSUME UNCHANGED <<main, onDisk, known>> PROVE UNCHANGED documented
  BY <1>a DEF returning
<1>1. CASE Open
  BY <1>1, <1>a DEF Open, files
<1>2. ASSUME NEW t \in Thread, Snapshot(t) PROVE Document!Learn(t)
  <2>1. value = Stored(main)
    BY <1>2, StoreAssumption DEF Snapshot, Free, Inv, Working, Following
  <2>2. QED
    BY <1>2, <2>1 DEF Snapshot, files, Document!Learn
<1>3. ASSUME NEW t \in Thread, NEW d \in Doc, Transact(t, d) PROVE UNCHANGED documented
  BY <1>3, <1>a DEF Transact, Request, files
<1>4. CASE Panic
  BY <1>4, <1>a DEF Panic, Request, files
<1>5. CASE CreateTemporary \/ WriteTemporary \/ SyncTemporary
  BY <1>5, <1>a DEF CreateTemporary, WriteTemporary, SyncTemporary, Continue, Goto
<1>6. CASE CopyBegins \/ CopyEnds \/ NothingToCopy
  BY <1>6, <1>a DEF CopyBegins, CopyEnds, NothingToCopy, Continue, Goto, files
<1>7. ASSUME Rename PROVE candidate \in Doc /\ Document!Commit(candidate)
  <2>1. /\ temporary = candidate /\ candidate \in Doc /\ synced
        /\ main' = temporary /\ onDisk' = onDisk \cup {temporary} /\ known' = known
    BY <1>7 DEF Rename, Continue, Goto, Inv, Prepared, TypeOK
  <2>2. Stored(candidate) = candidate
    BY <2>1, DocIsStored
  <2>3. returning' = returning \cup {candidate}
    BY <2>1, <2>2 DEF returning
  <2>4. QED
    BY <2>1, <2>2, <2>3 DEF Document!Commit, returning
<1>8. ASSUME SyncDirectory PROVE Document!Harden \/ UNCHANGED documented
  <2>1. main' = main /\ known' = known /\ (onDisk' = {main} \/ onDisk' = onDisk)
    BY <1>8 DEF SyncDirectory, Continue, Goto
  <2>2. CASE onDisk' = onDisk
    BY <2>1, <2>2, <1>a
  <2>3. CASE onDisk' = {main}
    <3>1. returning' = {Stored(main)}
      BY <2>3 DEF returning
    <3>2. QED
      BY <2>1, <3>1 DEF Document!Harden, returning
  <2>4. QED
    BY <2>1, <2>2, <2>3
<1>9. ASSUME Publish PROVE holder \in Thread /\ Document!Learn(holder)
  <2>1. main = candidate /\ holder \in Thread /\ candidate \in Doc
    BY <1>9 DEF Publish, Inv, Following, Working, TypeOK
  <2>2. Stored(main) = candidate
    BY <2>1, DocIsStored
  <2>3. QED
    BY <1>9, <2>1, <2>2 DEF Publish, files, Document!Learn
<1>10. CASE Refuse
  BY <1>10, <1>a DEF Refuse, files
<1>11. CASE Kill
  BY <1>11, <1>a DEF Kill, Crash, files
<1>12. ASSUME PowerLoss PROVE Document!PowerLoss
  <2>1. main' \in onDisk /\ onDisk' = {main'} /\ known' = known
    BY <1>12 DEF PowerLoss, Crash
  <2>2. Stored(main') \in returning /\ returning' = {Stored(main')}
    BY <2>1 DEF returning
  <2>3. QED
    BY <2>1, <2>2 DEF Document!PowerLoss, returning
<1>13. CASE UNCHANGED vars
  BY <1>13, <1>a DEF vars, files
<1>14. QED
  BY <1>1, <1>2, <1>3, <1>4, <1>5, <1>6, <1>7, <1>8, <1>9, <1>10, <1>11, <1>12, <1>13
     DEF Next, Document!Next

\* Every caller sees one document that is replaced in one step, and a loss of
\* power brings back nothing that was superseded before the last sync; as long as
\* path.exists() tells the truth.
THEOREM Implements == ASSUME StatWorks PROVE Spec => ImplementsDocument
<1>1. Inv /\ Inv' /\ [Next]_vars => [Document!Next]_documented
  BY DocumentStep
<1>2. QED
  BY <1>1, DocumentInit, InitInv, InvStep, PTL
     DEF Spec, ImplementsDocument, Document!Spec, documented, returning
=============================================================================
