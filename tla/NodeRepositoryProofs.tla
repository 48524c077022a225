------------------------- MODULE NodeRepositoryProofs -------------------------
(***************************************************************************)
(* Theorems about NodeRepository, for every set of objects, threads and    *)
(* configurations.                                                         *)
(***************************************************************************)
EXTENDS NodeRepository, FiniteSetTheorems, TLAPS

(* The four records an object can have. *)

LEMMA Records ==
  /\ Absent # Cache /\ Absent # Durable /\ Absent # Pinned
  /\ Cache # Durable /\ Cache # Pinned /\ Durable # Pinned
  /\ \A k \in {Absent, Cache, Durable, Pinned} :
       /\ k.present <=> k # Absent
       /\ k.pinned <=> k = Pinned
       /\ k.persistent <=> k \in {Durable, Pinned}
BY DEF Absent, Cache, Durable, Pinned

\* unpin() leaves an object that was kept persistent.
LEMMA UnpinnedIsDurable == \A k \in {Durable, Pinned} : Unpinned(k) = Durable
<1>1. Unpinned(Durable) = Durable
  BY Zenon DEF Unpinned, Durable
<1>2. Unpinned(Pinned) = Durable
  BY Zenon DEF Unpinned, Durable, Pinned
<1>3. QED
  BY <1>1, <1>2

\* The flags an unpin leaves behind are those of one of the four records.
LEMMA UnpinnedIsRecord ==
  /\ Unpinned(Absent) = Absent
  /\ Unpinned(Cache) = Cache
  /\ \A k \in {Absent, Cache, Durable, Pinned} :
       Unpinned(k) \in {Absent, Cache, Durable, Pinned}
<1>1. Unpinned(Absent) = Absent /\ Unpinned(Cache) = Cache
  BY Zenon DEF Unpinned, Absent, Cache
<1>2. QED
  BY <1>1, UnpinnedIsDurable

LEMMA Sets ==
  ASSUME TypeOK, NEW c \in Cid
  PROVE  /\ c \in Recorded  <=> objects[c] # Absent
         /\ c \in Evictable <=> objects[c] = Cache
         /\ c \in Kept      <=> objects[c] \in {Durable, Pinned}
<1>1. objects[c] \in {Absent, Cache, Durable, Pinned}
  BY DEF TypeOK
<1>2. QED
  BY <1>1, Records DEF Recorded, Evictable, Kept

-----------------------------------------------------------------------------
(* The inductive invariant. *)

Disjoint == Cached \cap Controlled = {}

\* Where an operation stands, what it works on is known.
Operations ==
  \A t \in Thread :
    /\ pc[t] \notin {"idle", "enforce"} => cid[t] \in Cid
    /\ pc[t] \in {"cat", "put", "rename", "insert"} /\ want[t] = Cache
         => cid[t] \in Cached
    /\ pc[t] = "cat" => want[t] = Cache

\* write_lock is held over a put and over a victim.
Locked ==
  \A t \in Thread :
    /\ pc[t] \in {"rename", "insert", "unlink", "forget", "missed"} => write_lock = t
    /\ pc[t] = "insert" => cid[t] \in file
    /\ pc[t] \in {"unlink", "forget", "missed"} => objects[cid[t]] = Cache

\* Only objects nobody pins are ever evictable, so what pin() has checked stays.
Checked ==
  /\ \A t \in Thread : pc[t] \in {"pin", "unpin"} =>
       cid[t] \in Controlled /\ objects[cid[t]] \in {Durable, Pinned}
  /\ \A c \in Cid : objects[c] = Cache => c \in Cached
  /\ ~poisoned

Files == \A c \in Cid : objects[c] \in {Durable, Pinned} => c \in file

Types == TypeOK /\ Operations

Inv == TypeOK /\ Operations /\ Locked /\ Checked /\ Files

LEMMA InitInv == Init => Inv
<1> SUFFICES ASSUME Init PROVE Inv
  OBVIOUS
<1>1. TypeOK
  <2>1. objects \in [Cid -> {Absent, Cache, Durable, Pinned}] /\ file \subseteq Cid
    BY DEF Init
  <2>2. /\ cfg \in Config \cup {InitialConfig}
        /\ write_lock \in Thread \cup {None}
        /\ pc \in [Thread -> Pc]
        /\ cid \in [Thread -> Cid \cup {None}]
        /\ want \in [Thread -> {Cache, Durable, Pinned}]
        /\ poisoned \in BOOLEAN
    BY DEF Init, Pc
  <2>3. requests \in 0..MaxRequests /\ crashes \in 0..MaxCrashes
    BY RepositoryAssumption DEF Init
  <2>4. QED
    BY <2>1, <2>2, <2>3 DEF TypeOK
<1>2. Operations /\ Locked
  BY DEF Init, Operations, Locked
<1>3. Checked /\ Files
  BY Records DEF Init, Checked, Files
<1>4. QED
  BY <1>1, <1>2, <1>3 DEF Inv

-----------------------------------------------------------------------------
(* What three of the steps amount to. *)

LEMMA ScanEffect ==
  ASSUME TypeOK, NEW t \in Thread, EnforceScan(t)
  PROVE  /\ pc[t] = "enforce"
         /\ UNCHANGED <<objects, file, poisoned, cfg, requests, crashes>>
         /\ \/ /\ write_lock' = None
               /\ pc' = [pc EXCEPT ![t] = "idle"]
               /\ cid' = [cid EXCEPT ![t] = None]
               /\ want' = [want EXCEPT ![t] = Cache]
            \/ \E c \in Cid :
                 /\ objects[c] = Cache
                 /\ write_lock' = t
                 /\ pc' = [pc EXCEPT ![t] = "unlink"]
                 /\ cid' = [cid EXCEPT ![t] = c]
                 /\ want' = want
         /\ write_lock \in {None, t}
<1>1. \A c \in Evictable : c \in Cid /\ objects[c] = Cache
  BY Sets DEF Evictable, Recorded
<1>2. QED
  BY <1>1 DEF EnforceScan, At, Goto, Finish, outside

LEMMA PinEffect ==
  ASSUME Inv, NEW t \in Thread, PinWrite(t)
  PROVE  /\ pc[t] = "pin" /\ cid[t] \in Cid
         /\ objects[cid[t]] \in {Durable, Pinned}
         /\ objects' = [objects EXCEPT ![cid[t]] = Pinned]
         /\ pc' = [pc EXCEPT ![t] = "idle"]
         /\ cid' = [cid EXCEPT ![t] = None]
         /\ want' = [want EXCEPT ![t] = Cache]
         /\ UNCHANGED <<file, write_lock, poisoned, cfg, requests, crashes>>
<1>1. pc[t] = "pin" /\ cid[t] \in Cid /\ objects[cid[t]] \in {Durable, Pinned}
  BY DEF Inv, Operations, Checked, PinWrite, At
<1>2. cid[t] \in Recorded
  BY <1>1, Sets, Records DEF Inv
<1>3. QED
  BY <1>1, <1>2 DEF PinWrite, Finish, Goto, outside

LEMMA UnpinEffect ==
  ASSUME Inv, NEW t \in Thread, UnpinWrite(t)
  PROVE  /\ pc[t] = "unpin" /\ cid[t] \in Cid
         /\ objects[cid[t]] \in {Durable, Pinned}
         /\ objects' = [objects EXCEPT ![cid[t]] = Durable]
         /\ pc' = [pc EXCEPT ![t] = "idle"]
         /\ cid' = [cid EXCEPT ![t] = None]
         /\ want' = [want EXCEPT ![t] = Cache]
         /\ UNCHANGED <<file, write_lock, poisoned, cfg, requests, crashes>>
<1>1. pc[t] = "unpin" /\ cid[t] \in Cid /\ objects[cid[t]] \in {Durable, Pinned}
  BY DEF Inv, Operations, Checked, UnpinWrite, At
<1>2. cid[t] \in Recorded
  BY <1>1, Sets, Records DEF Inv
<1>3. Unpinned(objects[cid[t]]) = Durable
  BY <1>1, UnpinnedIsDurable
<1>4. QED
  BY <1>1, <1>2, <1>3 DEF UnpinWrite, Finish, Goto, outside

-----------------------------------------------------------------------------
(* Every step preserves every part of the invariant. *)

LEMMA TypeStep ==
  ASSUME Types, [Next]_vars
  PROVE  TypeOK'
<1>1. ASSUME NEW t \in Thread, NEW c \in Cid, FetchDagObject(t, c) PROVE TypeOK'
  BY <1>1, RepositoryAssumption
     DEF Types, TypeOK, Operations, Pc, Goto, FetchDagObject, Begin, At
<1>2. ASSUME NEW t \in Thread, NEW c \in Cid, NEW f \in {Cache, Durable, Pinned}, PutVerified(t, c, f) PROVE TypeOK'
  BY <1>2, RepositoryAssumption DEF Types, TypeOK, Operations, Pc, Goto, PutVerified, Begin, At
<1>3. ASSUME NEW c \in Cid, PinRequest(c) PROVE TypeOK'
  BY <1>3, RepositoryAssumption DEF Types, TypeOK, Operations, Pc, Goto, PinRequest, Begin, At
<1>4. ASSUME NEW c \in Cid, UnpinRequest(c) PROVE TypeOK'
  BY <1>4, RepositoryAssumption
     DEF Types, TypeOK, Operations, Pc, Goto, UnpinRequest, Begin, At
<1>5. ASSUME NEW c \in Config, SetConfig(c) PROVE TypeOK'
  BY <1>5, RepositoryAssumption DEF Types, TypeOK, Operations, Pc, Goto, SetConfig, Begin, At
<1>6. ASSUME NEW t \in Thread, Cat(t) PROVE TypeOK'
  BY <1>6, RepositoryAssumption
     DEF Types, TypeOK, Operations, Pc, Goto, Cat, At, Continue, Finish, outside
<1>7. ASSUME NEW t \in Thread, PutCheck(t) PROVE TypeOK'
  BY <1>7, RepositoryAssumption
     DEF Types, TypeOK, Operations, Pc, Goto, PutCheck, At, Continue, Finish, outside
<1>8. ASSUME NEW t \in Thread, PutRename(t) PROVE TypeOK'
  BY <1>8, RepositoryAssumption
     DEF Types, TypeOK, Operations, Pc, Goto, PutRename, At, Continue, Finish, outside
<1>9. ASSUME NEW t \in Thread, PutInsert(t) PROVE TypeOK'
  BY <1>9, RepositoryAssumption
     DEF Types, TypeOK, Operations, Pc, Goto, PutInsert, At, Continue, Finish, outside
<1>10. ASSUME NEW t \in Thread, EnforceScan(t) PROVE TypeOK'
  BY <1>10, ScanEffect, RepositoryAssumption DEF Types, TypeOK, Operations, Pc
<1>11. ASSUME NEW t \in Thread, EnforceUnlink(t) PROVE TypeOK'
  BY <1>11, RepositoryAssumption
     DEF Types, TypeOK, Operations, Pc, Goto, EnforceUnlink, At, Continue, Finish,
         outside
<1>12. ASSUME NEW t \in Thread, EnforceForget(t) PROVE TypeOK'
  BY <1>12, RepositoryAssumption
     DEF Types, TypeOK, Operations, Pc, Goto, EnforceForget, At, Continue, Finish,
         outside
<1>13. ASSUME NEW t \in Thread, PinWrite(t) PROVE TypeOK'
  BY <1>13, RepositoryAssumption
     DEF Types, TypeOK, Operations, Pc, Goto, PinWrite, At, Finish, outside
<1>14. ASSUME NEW t \in Thread, UnpinWrite(t) PROVE TypeOK'
  <2>1. cid[t] \in Cid /\ objects[cid[t]] \in {Absent, Cache, Durable, Pinned}
    BY <1>14 DEF Types, TypeOK, Operations, UnpinWrite, At
  <2>2. PICK k \in {Absent, Cache, Durable, Pinned} :
          objects' = [objects EXCEPT ![cid[t]] = k] \/ objects' = objects
    BY <1>14, <2>1, UnpinnedIsRecord DEF UnpinWrite
  <2>3. objects' \in [Cid -> {Absent, Cache, Durable, Pinned}]
    BY <2>2 DEF Types, TypeOK
  <2>4. QED
    BY <1>14, <2>3, RepositoryAssumption
       DEF Types, TypeOK, Pc, Goto, UnpinWrite, At, Finish, outside
<1>15. ASSUME NEW t \in Thread, EnforceMisses(t) PROVE TypeOK'
  BY <1>15, RepositoryAssumption
     DEF Types, TypeOK, Operations, Pc, Goto, EnforceMisses, At, Continue, Finish,
         outside
<1>16. ASSUME NEW t \in Thread, CatFails(t) PROVE TypeOK'
  BY <1>16, RepositoryAssumption
     DEF Types, TypeOK, Operations, Pc, Goto, CatFails, At, Continue, Finish, outside
<1>17. ASSUME NEW t \in Thread, PutFails(t) PROVE TypeOK'
  BY <1>17, RepositoryAssumption
     DEF Types, TypeOK, Operations, Pc, Goto, PutFails, At, Continue, Finish, outside
<1>18. ASSUME NEW t \in Thread, EnforceFails(t) PROVE TypeOK'
  BY <1>18, RepositoryAssumption
     DEF Types, TypeOK, Operations, Pc, Goto, EnforceFails, At, Continue, Finish,
         outside
<1>19. ASSUME NEW t \in Thread, ControlFails(t) PROVE TypeOK'
  BY <1>19, RepositoryAssumption
     DEF Types, TypeOK, Operations, Pc, Goto, ControlFails, At, Continue, Finish, outside
<1>20. CASE Restart
  <2>1. /\ write_lock' \in Thread \cup {None}
        /\ pc' \in [Thread -> Pc]
        /\ cid' \in [Thread -> Cid \cup {None}]
        /\ want' \in [Thread -> {Cache, Durable, Pinned}]
        /\ poisoned' \in BOOLEAN
    BY <1>20 DEF Restart, Pc
  <2>2. crashes' \in 0..MaxCrashes
    BY <1>20, RepositoryAssumption DEF Restart, Types, TypeOK
  <2>3. QED
    BY <1>20, <2>1, <2>2 DEF Restart, Types, TypeOK
<1>21. CASE UNCHANGED vars
  BY <1>21 DEF Types, TypeOK, Operations, Pc, vars, threads
<1>22. QED
  BY <1>1, <1>2, <1>3, <1>4, <1>5, <1>6, <1>7, <1>8, <1>9, <1>10, <1>11, <1>12, <1>13,
     <1>14, <1>15, <1>16, <1>17, <1>18, <1>19, <1>20, <1>21
     DEF Next, Request, Step

LEMMA OperationsStep ==
  ASSUME Types, [Next]_vars
  PROVE  Operations'
<1>1. ASSUME NEW t \in Thread, NEW c \in Cid, FetchDagObject(t, c) PROVE Operations'
  BY <1>1, RepositoryAssumption, Records
     DEF Types, TypeOK, Operations, Goto, FetchDagObject, Begin, At
<1>2. ASSUME NEW t \in Thread, NEW c \in Cid, NEW f \in {Cache, Durable, Pinned}, PutVerified(t, c, f) PROVE Operations'
  BY <1>2, RepositoryAssumption, Records
     DEF Types, TypeOK, Operations, Goto, PutVerified, Begin, At
<1>3. ASSUME NEW c \in Cid, PinRequest(c) PROVE Operations'
  BY <1>3, RepositoryAssumption, Records
     DEF Types, TypeOK, Operations, Goto, PinRequest, Begin, At
<1>4. ASSUME NEW c \in Cid, UnpinRequest(c) PROVE Operations'
  BY <1>4, RepositoryAssumption, Records
     DEF Types, TypeOK, Operations, Goto, UnpinRequest, Begin, At
<1>5. ASSUME NEW c \in Config, SetConfig(c) PROVE Operations'
  BY <1>5, RepositoryAssumption, Records
     DEF Types, TypeOK, Operations, Goto, SetConfig, Begin, At
<1>6. ASSUME NEW t \in Thread, Cat(t) PROVE Operations'
  BY <1>6, RepositoryAssumption, Records
     DEF Types, TypeOK, Operations, Goto, Cat, At, Continue, Finish, outside
<1>7. ASSUME NEW t \in Thread, PutCheck(t) PROVE Operations'
  BY <1>7, RepositoryAssumption, Records
     DEF Types, TypeOK, Operations, Goto, PutCheck, At, Continue, Finish, outside
<1>8. ASSUME NEW t \in Thread, PutRename(t) PROVE Operations'
  BY <1>8, RepositoryAssumption, Records
     DEF Types, TypeOK, Operations, Goto, PutRename, At, Continue, Finish, outside
<1>9. ASSUME NEW t \in Thread, PutInsert(t) PROVE Operations'
  BY <1>9, RepositoryAssumption, Records
     DEF Types, TypeOK, Operations, Goto, PutInsert, At, Continue, Finish, outside
<1>10. ASSUME NEW t \in Thread, EnforceScan(t) PROVE Operations'
  BY <1>10, ScanEffect, RepositoryAssumption, Records DEF Types, TypeOK, Operations
<1>11. ASSUME NEW t \in Thread, EnforceUnlink(t) PROVE Operations'
  BY <1>11, RepositoryAssumption, Records
     DEF Types, TypeOK, Operations, Goto, EnforceUnlink, At, Continue, Finish, outside
<1>12. ASSUME NEW t \in Thread, EnforceForget(t) PROVE Operations'
  BY <1>12, RepositoryAssumption, Records
     DEF Types, TypeOK, Operations, Goto, EnforceForget, At, Continue, Finish, outside
<1>13. ASSUME NEW t \in Thread, PinWrite(t) PROVE Operations'
  BY <1>13, RepositoryAssumption, Records
     DEF Types, TypeOK, Operations, Goto, PinWrite, At, Finish, outside
<1>14. ASSUME NEW t \in Thread, UnpinWrite(t) PROVE Operations'
  BY <1>14, RepositoryAssumption, Records
     DEF Types, TypeOK, Operations, Goto, UnpinWrite, At, Finish, outside
<1>15. ASSUME NEW t \in Thread, EnforceMisses(t) PROVE Operations'
  BY <1>15, RepositoryAssumption, Records
     DEF Types, TypeOK, Operations, Goto, EnforceMisses, At, Continue, Finish, outside
<1>16. ASSUME NEW t \in Thread, CatFails(t) PROVE Operations'
  BY <1>16, RepositoryAssumption, Records
     DEF Types, TypeOK, Operations, Goto, CatFails, At, Continue, Finish, outside
<1>17. ASSUME NEW t \in Thread, PutFails(t) PROVE Operations'
  BY <1>17, RepositoryAssumption, Records
     DEF Types, TypeOK, Operations, Goto, PutFails, At, Continue, Finish, outside
<1>18. ASSUME NEW t \in Thread, EnforceFails(t) PROVE Operations'
  BY <1>18, RepositoryAssumption, Records
     DEF Types, TypeOK, Operations, Goto, EnforceFails, At, Continue, Finish, outside
<1>19. ASSUME NEW t \in Thread, ControlFails(t) PROVE Operations'
  BY <1>19, RepositoryAssumption, Records
     DEF Types, TypeOK, Operations, Goto, ControlFails, At, Continue, Finish, outside
<1>20. CASE Restart
  BY <1>20, RepositoryAssumption, Records DEF Types, TypeOK, Operations, Restart
<1>21. CASE UNCHANGED vars
  BY <1>21 DEF Types, TypeOK, Operations, vars, threads
<1>22. QED
  BY <1>1, <1>2, <1>3, <1>4, <1>5, <1>6, <1>7, <1>8, <1>9, <1>10, <1>11, <1>12, <1>13,
     <1>14, <1>15, <1>16, <1>17, <1>18, <1>19, <1>20, <1>21
     DEF Next, Request, Step

LEMMA LockedStep ==
  ASSUME Disjoint, Inv, [Next]_vars
  PROVE  Locked'
<1>1. ASSUME NEW t \in Thread, NEW c \in Cid, FetchDagObject(t, c) PROVE Locked'
  BY <1>1, RepositoryAssumption, Records
     DEF Inv, TypeOK, Operations, Locked, Checked, Goto, FetchDagObject, Begin, At
<1>2. ASSUME NEW t \in Thread, NEW c \in Cid, NEW f \in {Cache, Durable, Pinned}, PutVerified(t, c, f) PROVE Locked'
  BY <1>2, RepositoryAssumption, Records
     DEF Inv, TypeOK, Operations, Locked, Checked, Goto, PutVerified, Begin, At
<1>3. ASSUME NEW c \in Cid, PinRequest(c) PROVE Locked'
  BY <1>3, RepositoryAssumption, Records
     DEF Inv, TypeOK, Operations, Locked, Checked, Goto, PinRequest, Begin, At
<1>4. ASSUME NEW c \in Cid, UnpinRequest(c) PROVE Locked'
  BY <1>4, RepositoryAssumption, Records
     DEF Inv, TypeOK, Operations, Locked, Checked, Goto, UnpinRequest, Begin, At
<1>5. ASSUME NEW c \in Config, SetConfig(c) PROVE Locked'
  BY <1>5, RepositoryAssumption, Records
     DEF Inv, TypeOK, Operations, Locked, Checked, Goto, SetConfig, Begin, At
<1>6. ASSUME NEW t \in Thread, Cat(t) PROVE Locked'
  BY <1>6, RepositoryAssumption, Records
     DEF Inv, TypeOK, Operations, Locked, Checked, Goto, Cat, At, Continue, Finish,
         outside
<1>7. ASSUME NEW t \in Thread, PutCheck(t) PROVE Locked'
  BY <1>7, RepositoryAssumption, Records
     DEF Inv, TypeOK, Operations, Locked, Checked, Goto, PutCheck, At, Continue, Finish,
         outside
<1>8. ASSUME NEW t \in Thread, PutRename(t) PROVE Locked'
  BY <1>8, RepositoryAssumption, Records
     DEF Inv, TypeOK, Operations, Locked, Checked, Goto, PutRename, At, Continue,
         Finish, outside
<1>9. ASSUME NEW t \in Thread, PutInsert(t) PROVE Locked'
  BY <1>9, RepositoryAssumption, Records
     DEF Inv, TypeOK, Operations, Locked, Checked, Goto, PutInsert, At, Continue,
         Finish, outside
<1>10. ASSUME NEW t \in Thread, EnforceScan(t) PROVE Locked'
  BY <1>10, ScanEffect, RepositoryAssumption, Records
     DEF Inv, TypeOK, Operations, Locked, Checked
<1>11. ASSUME NEW t \in Thread, EnforceUnlink(t) PROVE Locked'
  BY <1>11, RepositoryAssumption, Records
     DEF Inv, TypeOK, Operations, Locked, Checked, Goto, EnforceUnlink, At, Continue,
         Finish, outside
<1>12. ASSUME NEW t \in Thread, EnforceForget(t) PROVE Locked'
  BY <1>12, RepositoryAssumption, Records
     DEF Inv, TypeOK, Operations, Locked, Checked, Goto, EnforceForget, At, Continue,
         Finish, outside
<1>13. ASSUME NEW t \in Thread, PinWrite(t) PROVE Locked'
  BY <1>13, PinEffect, RepositoryAssumption, Records
     DEF Inv, TypeOK, Operations, Locked, Checked
<1>14. ASSUME NEW t \in Thread, UnpinWrite(t) PROVE Locked'
  BY <1>14, UnpinEffect, RepositoryAssumption, Records
     DEF Inv, TypeOK, Operations, Locked, Checked
<1>15. ASSUME NEW t \in Thread, EnforceMisses(t) PROVE Locked'
  BY <1>15, RepositoryAssumption, Records
     DEF Inv, TypeOK, Operations, Locked, Checked, Goto, EnforceMisses, At, Continue,
         Finish, outside
<1>16. ASSUME NEW t \in Thread, CatFails(t) PROVE Locked'
  BY <1>16, RepositoryAssumption, Records
     DEF Inv, TypeOK, Operations, Locked, Checked, Goto, CatFails, At, Continue, Finish,
         outside
<1>17. ASSUME NEW t \in Thread, PutFails(t) PROVE Locked'
  BY <1>17, RepositoryAssumption, Records
     DEF Inv, TypeOK, Operations, Locked, Checked, Goto, PutFails, At, Continue, Finish,
         outside
<1>18. ASSUME NEW t \in Thread, EnforceFails(t) PROVE Locked'
  BY <1>18, RepositoryAssumption, Records
     DEF Inv, TypeOK, Operations, Locked, Checked, Goto, EnforceFails, At, Continue,
         Finish, outside
<1>19. ASSUME NEW t \in Thread, ControlFails(t) PROVE Locked'
  BY <1>19, RepositoryAssumption, Records
     DEF Inv, TypeOK, Operations, Locked, Checked, Goto, ControlFails, At, Continue, Finish,
         outside
<1>20. CASE Restart
  BY <1>20, RepositoryAssumption, Records DEF Inv, TypeOK, Operations, Locked, Checked, Restart
<1>21. CASE UNCHANGED vars
  BY <1>21 DEF Inv, TypeOK, Operations, Locked, Checked, vars, threads
<1>22. QED
  BY <1>1, <1>2, <1>3, <1>4, <1>5, <1>6, <1>7, <1>8, <1>9, <1>10, <1>11, <1>12, <1>13,
     <1>14, <1>15, <1>16, <1>17, <1>18, <1>19, <1>20, <1>21
     DEF Next, Request, Step

LEMMA CheckedStep ==
  ASSUME Disjoint, Inv, [Next]_vars
  PROVE  Checked'
<1>1. ASSUME NEW t \in Thread, NEW c \in Cid, FetchDagObject(t, c) PROVE Checked'
  BY <1>1, RepositoryAssumption, Records
     DEF Inv, TypeOK, Operations, Locked, Checked, Disjoint, Goto, FetchDagObject,
         Begin, At
<1>2. ASSUME NEW t \in Thread, NEW c \in Cid, NEW f \in {Cache, Durable, Pinned}, PutVerified(t, c, f) PROVE Checked'
  BY <1>2, RepositoryAssumption, Records
     DEF Inv, TypeOK, Operations, Locked, Checked, Disjoint, Goto, PutVerified, Begin,
         At
<1>3. ASSUME NEW c \in Cid, PinRequest(c) PROVE Checked'
  BY <1>3, RepositoryAssumption, Records, Sets
     DEF Inv, TypeOK, Operations, Locked, Checked, Disjoint, Goto, PinRequest, Begin, At
<1>4. ASSUME NEW c \in Cid, UnpinRequest(c) PROVE Checked'
  BY <1>4, RepositoryAssumption, Records, Sets
     DEF Inv, TypeOK, Operations, Locked, Checked, Disjoint, Goto, UnpinRequest, Begin,
         At
<1>5. ASSUME NEW c \in Config, SetConfig(c) PROVE Checked'
  BY <1>5, RepositoryAssumption, Records
     DEF Inv, TypeOK, Operations, Locked, Checked, Disjoint, Goto, SetConfig, Begin, At
<1>6. ASSUME NEW t \in Thread, Cat(t) PROVE Checked'
  BY <1>6, RepositoryAssumption, Records
     DEF Inv, TypeOK, Operations, Locked, Checked, Disjoint, Goto, Cat, At, Continue,
         Finish, outside
<1>7. ASSUME NEW t \in Thread, PutCheck(t) PROVE Checked'
  BY <1>7, RepositoryAssumption, Records
     DEF Inv, TypeOK, Operations, Locked, Checked, Disjoint, Goto, PutCheck, At,
         Continue, Finish, outside
<1>8. ASSUME NEW t \in Thread, PutRename(t) PROVE Checked'
  BY <1>8, RepositoryAssumption, Records
     DEF Inv, TypeOK, Operations, Locked, Checked, Disjoint, Goto, PutRename, At,
         Continue, Finish, outside
<1>9. ASSUME NEW t \in Thread, PutInsert(t) PROVE Checked'
  BY <1>9, RepositoryAssumption, Records
     DEF Inv, TypeOK, Operations, Locked, Checked, Disjoint, Goto, PutInsert, At,
         Continue, Finish, outside
<1>10. ASSUME NEW t \in Thread, EnforceScan(t) PROVE Checked'
  BY <1>10, ScanEffect, RepositoryAssumption, Records
     DEF Inv, TypeOK, Operations, Locked, Checked, Disjoint
<1>11. ASSUME NEW t \in Thread, EnforceUnlink(t) PROVE Checked'
  BY <1>11, RepositoryAssumption, Records
     DEF Inv, TypeOK, Operations, Locked, Checked, Disjoint, Goto, EnforceUnlink, At,
         Continue, Finish, outside
<1>12. ASSUME NEW t \in Thread, EnforceForget(t) PROVE Checked'
  BY <1>12, RepositoryAssumption, Records
     DEF Inv, TypeOK, Operations, Locked, Checked, Disjoint, Goto, EnforceForget, At,
         Continue, Finish, outside
<1>13. ASSUME NEW t \in Thread, PinWrite(t) PROVE Checked'
  BY <1>13, PinEffect, RepositoryAssumption, Records
     DEF Inv, TypeOK, Operations, Locked, Checked, Disjoint
<1>14. ASSUME NEW t \in Thread, UnpinWrite(t) PROVE Checked'
  BY <1>14, UnpinEffect, RepositoryAssumption, Records
     DEF Inv, TypeOK, Operations, Locked, Checked, Disjoint
<1>15. ASSUME NEW t \in Thread, EnforceMisses(t) PROVE Checked'
  BY <1>15, RepositoryAssumption, Records
     DEF Inv, TypeOK, Operations, Locked, Checked, Disjoint, Goto, EnforceMisses, At,
         Continue, Finish, outside
<1>16. ASSUME NEW t \in Thread, CatFails(t) PROVE Checked'
  BY <1>16, RepositoryAssumption, Records
     DEF Inv, TypeOK, Operations, Locked, Checked, Disjoint, Goto, CatFails, At, Continue,
         Finish, outside
<1>17. ASSUME NEW t \in Thread, PutFails(t) PROVE Checked'
  BY <1>17, RepositoryAssumption, Records
     DEF Inv, TypeOK, Operations, Locked, Checked, Disjoint, Goto, PutFails, At, Continue,
         Finish, outside
<1>18. ASSUME NEW t \in Thread, EnforceFails(t) PROVE Checked'
  BY <1>18, RepositoryAssumption, Records
     DEF Inv, TypeOK, Operations, Locked, Checked, Disjoint, Goto, EnforceFails, At,
         Continue, Finish, outside
<1>19. ASSUME NEW t \in Thread, ControlFails(t) PROVE Checked'
  BY <1>19, RepositoryAssumption, Records
     DEF Inv, TypeOK, Operations, Locked, Checked, Disjoint, Goto, ControlFails, At, Continue,
         Finish, outside
<1>20. CASE Restart
  BY <1>20, RepositoryAssumption, Records
     DEF Inv, TypeOK, Operations, Locked, Checked, Disjoint, Restart
<1>21. CASE UNCHANGED vars
  BY <1>21 DEF Inv, TypeOK, Operations, Locked, Checked, Disjoint, vars, threads
<1>22. QED
  BY <1>1, <1>2, <1>3, <1>4, <1>5, <1>6, <1>7, <1>8, <1>9, <1>10, <1>11, <1>12, <1>13,
     <1>14, <1>15, <1>16, <1>17, <1>18, <1>19, <1>20, <1>21
     DEF Next, Request, Step

LEMMA FilesStep ==
  ASSUME Disjoint, Inv, [Next]_vars
  PROVE  Files'
<1>1. ASSUME NEW t \in Thread, NEW c \in Cid, FetchDagObject(t, c) PROVE Files'
  BY <1>1, RepositoryAssumption, Records
     DEF Inv, TypeOK, Operations, Locked, Checked, Files, Goto, FetchDagObject, Begin,
         At
<1>2. ASSUME NEW t \in Thread, NEW c \in Cid, NEW f \in {Cache, Durable, Pinned}, PutVerified(t, c, f) PROVE Files'
  BY <1>2, RepositoryAssumption, Records
     DEF Inv, TypeOK, Operations, Locked, Checked, Files, Goto, PutVerified, Begin, At
<1>3. ASSUME NEW c \in Cid, PinRequest(c) PROVE Files'
  BY <1>3, RepositoryAssumption, Records
     DEF Inv, TypeOK, Operations, Locked, Checked, Files, Goto, PinRequest, Begin, At
<1>4. ASSUME NEW c \in Cid, UnpinRequest(c) PROVE Files'
  BY <1>4, RepositoryAssumption, Records
     DEF Inv, TypeOK, Operations, Locked, Checked, Files, Goto, UnpinRequest, Begin, At
<1>5. ASSUME NEW c \in Config, SetConfig(c) PROVE Files'
  BY <1>5, RepositoryAssumption, Records
     DEF Inv, TypeOK, Operations, Locked, Checked, Files, Goto, SetConfig, Begin, At
<1>6. ASSUME NEW t \in Thread, Cat(t) PROVE Files'
  BY <1>6, RepositoryAssumption, Records
     DEF Inv, TypeOK, Operations, Locked, Checked, Files, Goto, Cat, At, Continue,
         Finish, outside
<1>7. ASSUME NEW t \in Thread, PutCheck(t) PROVE Files'
  BY <1>7, RepositoryAssumption, Records
     DEF Inv, TypeOK, Operations, Locked, Checked, Files, Goto, PutCheck, At, Continue,
         Finish, outside
<1>8. ASSUME NEW t \in Thread, PutRename(t) PROVE Files'
  BY <1>8, RepositoryAssumption, Records
     DEF Inv, TypeOK, Operations, Locked, Checked, Files, Goto, PutRename, At, Continue,
         Finish, outside
<1>9. ASSUME NEW t \in Thread, PutInsert(t) PROVE Files'
  BY <1>9, RepositoryAssumption, Records
     DEF Inv, TypeOK, Operations, Locked, Checked, Files, Goto, PutInsert, At, Continue,
         Finish, outside
<1>10. ASSUME NEW t \in Thread, EnforceScan(t) PROVE Files'
  BY <1>10, ScanEffect, RepositoryAssumption, Records
     DEF Inv, TypeOK, Operations, Locked, Checked, Files
<1>11. ASSUME NEW t \in Thread, EnforceUnlink(t) PROVE Files'
  BY <1>11, RepositoryAssumption, Records
     DEF Inv, TypeOK, Operations, Locked, Checked, Files, Goto, EnforceUnlink, At,
         Continue, Finish, outside
<1>12. ASSUME NEW t \in Thread, EnforceForget(t) PROVE Files'
  BY <1>12, RepositoryAssumption, Records
     DEF Inv, TypeOK, Operations, Locked, Checked, Files, Goto, EnforceForget, At,
         Continue, Finish, outside
<1>13. ASSUME NEW t \in Thread, PinWrite(t) PROVE Files'
  BY <1>13, PinEffect, RepositoryAssumption, Records
     DEF Inv, TypeOK, Operations, Locked, Checked, Files
<1>14. ASSUME NEW t \in Thread, UnpinWrite(t) PROVE Files'
  BY <1>14, UnpinEffect, RepositoryAssumption, Records
     DEF Inv, TypeOK, Operations, Locked, Checked, Files
<1>15. ASSUME NEW t \in Thread, EnforceMisses(t) PROVE Files'
  BY <1>15, RepositoryAssumption, Records
     DEF Inv, TypeOK, Operations, Locked, Checked, Files, Goto, EnforceMisses, At,
         Continue, Finish, outside
<1>16. ASSUME NEW t \in Thread, CatFails(t) PROVE Files'
  BY <1>16, RepositoryAssumption, Records
     DEF Inv, TypeOK, Operations, Locked, Checked, Files, Goto, CatFails, At, Continue,
         Finish, outside
<1>17. ASSUME NEW t \in Thread, PutFails(t) PROVE Files'
  BY <1>17, RepositoryAssumption, Records
     DEF Inv, TypeOK, Operations, Locked, Checked, Files, Goto, PutFails, At, Continue,
         Finish, outside
<1>18. ASSUME NEW t \in Thread, EnforceFails(t) PROVE Files'
  BY <1>18, RepositoryAssumption, Records
     DEF Inv, TypeOK, Operations, Locked, Checked, Files, Goto, EnforceFails, At,
         Continue, Finish, outside
<1>19. ASSUME NEW t \in Thread, ControlFails(t) PROVE Files'
  BY <1>19, RepositoryAssumption, Records
     DEF Inv, TypeOK, Operations, Locked, Checked, Files, Goto, ControlFails, At, Continue,
         Finish, outside
<1>20. CASE Restart
  BY <1>20, RepositoryAssumption, Records
     DEF Inv, TypeOK, Operations, Locked, Checked, Files, Restart
<1>21. CASE UNCHANGED vars
  BY <1>21 DEF Inv, TypeOK, Operations, Locked, Checked, Files, vars, threads
<1>22. QED
  BY <1>1, <1>2, <1>3, <1>4, <1>5, <1>6, <1>7, <1>8, <1>9, <1>10, <1>11, <1>12, <1>13,
     <1>14, <1>15, <1>16, <1>17, <1>18, <1>19, <1>20, <1>21
     DEF Next, Request, Step

-----------------------------------------------------------------------------
(* The theorems. *)

LEMMA InvStep ==
  ASSUME Disjoint PROVE Spec => []Inv
<1>1. Inv /\ [Next]_vars => Inv'
  BY TypeStep, OperationsStep, LockedStep, CheckedStep, FilesStep DEF Inv, Types
<1>2. QED
  BY InitInv, <1>1, PTL DEF Spec

LEMMA TypesStep == Spec => []Types
<1>1. Init => Types
  BY InitInv DEF Inv, Types
<1>2. Types /\ [Next]_vars => Types'
  BY TypeStep, OperationsStep DEF Types
<1>3. QED
  BY <1>1, <1>2, PTL DEF Spec

\* Every variable keeps its type, whatever clients pin and evictions remove.
THEOREM RepositoryTypes == Spec => []TypeOK
<1>1. Types => TypeOK
  BY DEF Types
<1>2. QED
  BY <1>1, TypesStep, PTL

\* NOD-005: what is kept can be read, whenever the process dies.
THEOREM KeptReadable == ASSUME Disjoint PROVE Spec => []KeptHasFile
<1>1. Inv => KeptHasFile
  <2> SUFFICES ASSUME Inv, NEW c \in Kept PROVE c \in file
    BY DEF KeptHasFile
  <2>1. c \in Cid
    BY DEF Kept, Recorded
  <2>2. QED
    BY <2>1, Sets DEF Inv, Files
<1>2. QED
  BY <1>1, InvStep, PTL

\* A record that is kept does not disappear in a step.
LEMMA KeptStays ==
  ASSUME Disjoint, Inv, Inv', [Next]_vars, NEW c \in Cid,
         objects[c] \in {Durable, Pinned}
  PROVE  objects'[c] # Absent
<1>1. ASSUME NEW t \in Thread, NEW d \in Cid, FetchDagObject(t, d) PROVE objects'[c] # Absent
  BY <1>1, Records DEF Inv, TypeOK, Operations, Locked, FetchDagObject, Begin, At
<1>2. ASSUME NEW t \in Thread, NEW d \in Cid, NEW f \in {Cache, Durable, Pinned}, PutVerified(t, d, f) PROVE objects'[c] # Absent
  BY <1>2, Records DEF Inv, TypeOK, Operations, Locked, PutVerified, Begin, At
<1>3. ASSUME NEW d \in Cid, PinRequest(d) PROVE objects'[c] # Absent
  BY <1>3, Records DEF Inv, TypeOK, Operations, Locked, PinRequest, Begin, At
<1>4. ASSUME NEW d \in Cid, UnpinRequest(d) PROVE objects'[c] # Absent
  BY <1>4, Records DEF Inv, TypeOK, Operations, Locked, UnpinRequest, Begin, At
<1>5. ASSUME NEW d \in Config, SetConfig(d) PROVE objects'[c] # Absent
  BY <1>5, Records DEF Inv, TypeOK, Operations, Locked, SetConfig, Begin, At
<1>6. ASSUME NEW t \in Thread, Cat(t) PROVE objects'[c] # Absent
  BY <1>6, Records DEF Inv, TypeOK, Operations, Locked, Cat, At, Continue, Finish, outside
<1>7. ASSUME NEW t \in Thread, PutCheck(t) PROVE objects'[c] # Absent
  BY <1>7, Records DEF Inv, TypeOK, Operations, Locked, PutCheck, At, Continue, Finish, outside
<1>8. ASSUME NEW t \in Thread, PutRename(t) PROVE objects'[c] # Absent
  BY <1>8, Records
     DEF Inv, TypeOK, Operations, Locked, PutRename, At, Continue, Finish, outside
<1>9. ASSUME NEW t \in Thread, PutInsert(t) PROVE objects'[c] # Absent
  BY <1>9, Records
     DEF Inv, TypeOK, Operations, Locked, PutInsert, At, Continue, Finish, outside
<1>10. ASSUME NEW t \in Thread, EnforceScan(t) PROVE objects'[c] # Absent
  BY <1>10, ScanEffect, Records DEF Inv, TypeOK
<1>11. ASSUME NEW t \in Thread, EnforceUnlink(t) PROVE objects'[c] # Absent
  BY <1>11, Records
     DEF Inv, TypeOK, Operations, Locked, EnforceUnlink, At, Continue, Finish, outside
<1>12. ASSUME NEW t \in Thread, EnforceForget(t) PROVE objects'[c] # Absent
  BY <1>12, Records
     DEF Inv, TypeOK, Operations, Locked, EnforceForget, At, Continue, Finish, outside
<1>13. ASSUME NEW t \in Thread, PinWrite(t) PROVE objects'[c] # Absent
  BY <1>13, PinEffect, Records DEF Inv, TypeOK
<1>14. ASSUME NEW t \in Thread, UnpinWrite(t) PROVE objects'[c] # Absent
  BY <1>14, UnpinEffect, Records DEF Inv, TypeOK
<1>15. ASSUME NEW t \in Thread, EnforceMisses(t) PROVE objects'[c] # Absent
  BY <1>15, Records
     DEF Inv, TypeOK, Operations, Locked, EnforceMisses, At, Continue, Finish, outside
<1>16. ASSUME NEW t \in Thread, CatFails(t) PROVE objects'[c] # Absent
  BY <1>16, Records DEF Inv, TypeOK, Operations, Locked, CatFails, At, Continue, Finish, outside
<1>17. ASSUME NEW t \in Thread, PutFails(t) PROVE objects'[c] # Absent
  BY <1>17, Records DEF Inv, TypeOK, Operations, Locked, PutFails, At, Continue, Finish, outside
<1>18. ASSUME NEW t \in Thread, EnforceFails(t) PROVE objects'[c] # Absent
  BY <1>18, Records
     DEF Inv, TypeOK, Operations, Locked, EnforceFails, At, Continue, Finish, outside
<1>19. ASSUME NEW t \in Thread, ControlFails(t) PROVE objects'[c] # Absent
  BY <1>19, Records DEF Inv, TypeOK, Operations, Locked, ControlFails, At, Continue, Finish, outside
<1>20. CASE Restart
  BY <1>20, Records DEF Inv, TypeOK, Operations, Locked, Restart
<1>21. CASE UNCHANGED vars
  BY <1>21, Records DEF vars
<1>22. QED
  BY <1>1, <1>2, <1>3, <1>4, <1>5, <1>6, <1>7, <1>8, <1>9, <1>10, <1>11, <1>12, <1>13,
     <1>14, <1>15, <1>16, <1>17, <1>18, <1>19, <1>20, <1>21
     DEF Next, Request, Step

\* The quota never evicts an object that is pinned or persistent.
THEOREM EvictionSpares == ASSUME Disjoint PROVE Spec => EvictionSparesKept
<1>1. Inv /\ Inv' /\ [Next]_vars => [\A c \in Kept : c \in Recorded']_vars
  <2> SUFFICES ASSUME Inv, Inv', [Next]_vars, NEW c \in Kept PROVE c \in Recorded'
    OBVIOUS
  <2>1. c \in Cid /\ objects[c] \in {Durable, Pinned}
    BY Sets DEF Inv, Kept, Recorded
  <2>2. objects'[c] # Absent
    BY <2>1, KeptStays
  <2>3. objects'[c] \in {Absent, Cache, Durable, Pinned}
    BY <2>1 DEF Inv, TypeOK
  <2>4. QED
    BY <2>1, <2>2, <2>3, Records DEF Recorded
<1>2. QED
  BY <1>1, InvStep, PTL DEF Spec, EvictionSparesKept

-----------------------------------------------------------------------------
(* The storage limit.  While it stays the same, the check holds until the   *)
(* record is there, because nobody else records an object meanwhile.        *)

SameStorage == \A c \in Config : c.storage = InitialConfig.storage

Quota ==
  /\ cfg.storage = InitialConfig.storage
  /\ StorageWithinLimit
  /\ \A t \in Thread : pc[t] \in {"rename", "insert"} =>
       Cardinality(Recorded \cup {cid[t]}) <= cfg.storage

LEMMA RecordedFinite ==
  /\ Recorded \subseteq Cid /\ IsFiniteSet(Recorded)
  /\ Recorded' \subseteq Cid /\ IsFiniteSet(Recorded')
<1>1. Recorded \subseteq Cid /\ Recorded' \subseteq Cid
  BY DEF Recorded
<1>2. QED
  BY <1>1, FS_Subset, RepositoryAssumption

\* What a step does to the objects that are recorded.
RecordedChange ==
  \/ /\ Recorded' = Recorded
     /\ \A t \in Thread : pc'[t] \in {"rename", "insert"} =>
          \/ pc[t] \in {"rename", "insert"} /\ cid'[t] = cid[t]
          \/ Cardinality(Recorded \cup {cid'[t]}) <= cfg.storage
  \/ \E t \in Thread :
       /\ pc[t] = "insert" /\ cid[t] \in Cid
       /\ Recorded' = Recorded \cup {cid[t]}
       /\ pc' = [pc EXCEPT ![t] = "enforce"]
  \/ \E t \in Thread :
       /\ pc[t] \in {"forget", "missed"}
       /\ Recorded' \subseteq Recorded
       /\ pc' = [pc EXCEPT ![t] = "enforce"]

LEMMA RecordedStep ==
  ASSUME Disjoint, Inv, Inv', [Next]_vars
  PROVE  RecordedChange
<1>0. /\ Recorded = {c \in Cid : objects[c] # Absent}
      /\ Recorded' = {c \in Cid : objects'[c] # Absent}
  <2>1. \A c \in Cid : objects[c] \in {Absent, Cache, Durable, Pinned}
    BY DEF Inv, TypeOK
  <2>2. \A c \in Cid : objects'[c] \in {Absent, Cache, Durable, Pinned}
    BY DEF Inv, TypeOK
  <2>3. QED
    BY <2>1, <2>2, Records DEF Recorded
<1>1. ASSUME NEW t \in Thread, NEW d \in Cid, FetchDagObject(t, d) PROVE RecordedChange
  BY <1>0, <1>1 DEF RecordedChange, Inv, TypeOK, Goto, FetchDagObject, Begin, At
<1>2. ASSUME NEW t \in Thread, NEW d \in Cid, NEW f \in {Cache, Durable, Pinned}, PutVerified(t, d, f) PROVE RecordedChange
  BY <1>0, <1>2 DEF RecordedChange, Inv, TypeOK, Goto, PutVerified, Begin, At
<1>3. ASSUME NEW d \in Cid, PinRequest(d) PROVE RecordedChange
  BY <1>0, <1>3 DEF RecordedChange, Inv, TypeOK, Goto, PinRequest, Begin, At
<1>4. ASSUME NEW d \in Cid, UnpinRequest(d) PROVE RecordedChange
  BY <1>0, <1>4 DEF RecordedChange, Inv, TypeOK, Goto, UnpinRequest, Begin, At
<1>5. ASSUME NEW d \in Config, SetConfig(d) PROVE RecordedChange
  BY <1>0, <1>5 DEF RecordedChange, Inv, TypeOK, Goto, SetConfig, Begin, At
<1>6. ASSUME NEW t \in Thread, Cat(t) PROVE RecordedChange
  BY <1>0, <1>6 DEF RecordedChange, Inv, TypeOK, Goto, Cat, At, Continue, Finish, outside
<1>7. ASSUME NEW t \in Thread, PutCheck(t) PROVE RecordedChange
  <2>1. Recorded' = Recorded
    BY <1>0, <1>7 DEF PutCheck
  <2>2. cid' = [cid EXCEPT ![t] = cid'[t]] /\ pc' = [pc EXCEPT ![t] = pc'[t]]
    BY <1>7 DEF PutCheck, Continue, Finish, Goto, Inv, TypeOK
  <2>3. pc'[t] = "rename" =>
          cid'[t] = cid[t] /\ Cardinality(Recorded \cup {cid[t]}) <= cfg.storage
    <3>1. CASE Cardinality(Recorded \cup {cid[t]}) > cfg.storage
      BY <1>7, <3>1 DEF PutCheck, Finish, Goto, Inv, TypeOK
    <3>2. CASE ~(Cardinality(Recorded \cup {cid[t]}) > cfg.storage)
      <4>1. cid' = cid
        BY <1>7, <3>2 DEF PutCheck, Continue
      <4>2. IsFiniteSet(Recorded \cup {cid[t]})
        BY RecordedFinite, FS_AddElement
      <4>3. Cardinality(Recorded \cup {cid[t]}) \in Nat /\ cfg.storage \in Nat
        BY <4>2, FS_CardinalityType, RepositoryAssumption DEF Inv, TypeOK, Limits
      <4>4. QED
        BY <3>2, <4>1, <4>3
    <3>3. QED
      BY <3>1, <3>2
  <2>4. pc'[t] # "insert"
    BY <1>7 DEF PutCheck, Continue, Finish, Goto, Inv, TypeOK
  <2>5. QED
    BY <2>1, <2>2, <2>3, <2>4 DEF RecordedChange, Inv, TypeOK
<1>8. ASSUME NEW t \in Thread, PutRename(t) PROVE RecordedChange
  BY <1>0, <1>8 DEF RecordedChange, Inv, TypeOK, Goto, PutRename, At, Continue, Finish, outside
<1>9. ASSUME NEW t \in Thread, PutInsert(t) PROVE RecordedChange
  <2>1. pc[t] = "insert" /\ cid[t] \in Cid /\ want[t] # Absent
    BY <1>9, Records DEF PutInsert, At, Inv, TypeOK, Operations
  <2>2. objects' = [objects EXCEPT ![cid[t]] = want[t]]
        /\ pc' = [pc EXCEPT ![t] = "enforce"]
    BY <1>9 DEF PutInsert, Continue, Goto
  <2>3. Recorded' = Recorded \cup {cid[t]}
    BY <1>0, <2>1, <2>2 DEF Inv, TypeOK
  <2>4. QED
    BY <2>1, <2>2, <2>3 DEF RecordedChange
<1>10. ASSUME NEW t \in Thread, EnforceScan(t) PROVE RecordedChange
  BY <1>0, <1>10, ScanEffect, Records DEF RecordedChange, Inv, TypeOK
<1>11. ASSUME NEW t \in Thread, EnforceUnlink(t) PROVE RecordedChange
  BY <1>0, <1>11
     DEF RecordedChange, Inv, TypeOK, Goto, EnforceUnlink, At, Continue, Finish, outside
<1>12. ASSUME NEW t \in Thread, EnforceForget(t) PROVE RecordedChange
  BY <1>0, <1>12, Records
     DEF RecordedChange, Inv, TypeOK, Operations, Locked, Goto, EnforceForget, At,
         Continue, Finish, outside
<1>13. ASSUME NEW t \in Thread, PinWrite(t) PROVE RecordedChange
  BY <1>0, <1>13, PinEffect, Records DEF RecordedChange, Inv, TypeOK
<1>14. ASSUME NEW t \in Thread, UnpinWrite(t) PROVE RecordedChange
  BY <1>0, <1>14, UnpinEffect, Records DEF RecordedChange, Inv, TypeOK
<1>15. ASSUME NEW t \in Thread, EnforceMisses(t) PROVE RecordedChange
  BY <1>0, <1>15
     DEF RecordedChange, Inv, TypeOK, Goto, EnforceMisses, At, Continue, Finish, outside
<1>16. ASSUME NEW t \in Thread, CatFails(t) PROVE RecordedChange
  BY <1>0, <1>16 DEF RecordedChange, Inv, TypeOK, Goto, CatFails, At, Continue, Finish, outside
<1>17. ASSUME NEW t \in Thread, PutFails(t) PROVE RecordedChange
  BY <1>0, <1>17 DEF RecordedChange, Inv, TypeOK, Goto, PutFails, At, Continue, Finish, outside
<1>18. ASSUME NEW t \in Thread, EnforceFails(t) PROVE RecordedChange
  BY <1>0, <1>18
     DEF RecordedChange, Inv, TypeOK, Goto, EnforceFails, At, Continue, Finish, outside
<1>19. ASSUME NEW t \in Thread, ControlFails(t) PROVE RecordedChange
  BY <1>0, <1>19 DEF RecordedChange, Inv, TypeOK, Goto, ControlFails, At, Continue, Finish, outside
<1>20. CASE Restart
  BY <1>0, <1>20 DEF RecordedChange, Inv, TypeOK, Restart
<1>21. CASE UNCHANGED vars
  BY <1>0, <1>21 DEF RecordedChange, vars, threads
<1>22. QED
  BY <1>1, <1>2, <1>3, <1>4, <1>5, <1>6, <1>7, <1>8, <1>9, <1>10, <1>11, <1>12, <1>13,
     <1>14, <1>15, <1>16, <1>17, <1>18, <1>19, <1>20, <1>21
     DEF Next, Request, Step

LEMMA StorageSteps ==
  ASSUME SameStorage, Inv, cfg.storage = InitialConfig.storage, [Next]_vars
  PROVE  cfg'.storage = cfg.storage
<1>1. cfg' = cfg \/ cfg' \in Config
  BY DEF Next, Request, Step, vars, At, Begin, Cat, Continue, EnforceForget,
         EnforceScan, EnforceUnlink, EnforceMisses, CatFails, PutFails, EnforceFails,
         ControlFails, FetchDagObject, Finish, PinRequest, PinWrite, PutCheck, PutInsert, PutRename, PutVerified, Restart, SetConfig, UnpinRequest,
         UnpinWrite, outside
<1>2. QED
  BY <1>1 DEF SameStorage

LEMMA QuotaInit == Init => Quota
<1> SUFFICES ASSUME Init PROVE Quota
  OBVIOUS
<1>1. PICK S \in SUBSET (Cid \ Cached) :
        /\ Cardinality(S) <= InitialConfig.storage
        /\ objects = [c \in Cid |-> IF c \in S THEN Pinned ELSE Absent]
  BY DEF Init
<1>2. Recorded = S
  BY <1>1, Records DEF Recorded
<1>3. cfg = InitialConfig /\ pc = [t \in Thread |-> "idle"]
  BY DEF Init
<1>4. QED
  BY <1>1, <1>2, <1>3 DEF Quota, StorageWithinLimit

LEMMA QuotaStep ==
  ASSUME SameStorage, Disjoint, Inv, Inv', Quota, [Next]_vars
  PROVE  Quota'
<1>1. cfg'.storage = cfg.storage /\ cfg.storage = InitialConfig.storage
  BY StorageSteps DEF Quota
<1>2. RecordedChange
  BY RecordedStep
<1>3. CASE /\ Recorded' = Recorded
           /\ \A t \in Thread : pc'[t] \in {"rename", "insert"} =>
                \/ pc[t] \in {"rename", "insert"} /\ cid'[t] = cid[t]
                \/ Cardinality(Recorded \cup {cid'[t]}) <= cfg.storage
  BY <1>1, <1>3 DEF Quota, StorageWithinLimit
<1>4. ASSUME NEW t \in Thread, pc[t] = "insert", cid[t] \in Cid,
             Recorded' = Recorded \cup {cid[t]}, pc' = [pc EXCEPT ![t] = "enforce"]
      PROVE  Quota'
  <2>1. \A u \in Thread : pc'[u] \notin {"rename", "insert"}
    BY <1>4 DEF Inv, TypeOK, Locked
  <2>2. QED
    BY <1>1, <1>4, <2>1 DEF Quota, StorageWithinLimit
<1>5. ASSUME NEW t \in Thread, pc[t] \in {"forget", "missed"}, Recorded' \subseteq Recorded,
             pc' = [pc EXCEPT ![t] = "enforce"]
      PROVE  Quota'
  <2>1. \A u \in Thread : pc'[u] \notin {"rename", "insert"}
    BY <1>5 DEF Inv, TypeOK, Locked
  <2>2. Cardinality(Recorded') <= Cardinality(Recorded)
    BY <1>5, RecordedFinite, FS_Subset
  <2>3. Cardinality(Recorded') \in Nat /\ Cardinality(Recorded) \in Nat
    BY RecordedFinite, FS_CardinalityType
  <2>4. cfg.storage \in Nat
    BY RepositoryAssumption DEF Inv, TypeOK, Limits
  <2>5. QED
    BY <1>1, <2>1, <2>2, <2>3, <2>4 DEF Quota, StorageWithinLimit
<1>6. QED
  BY <1>2, <1>3, <1>4, <1>5 DEF RecordedChange

\* NOD-006: as long as the storage limit stays the same and clients do not pin
\* what is only cached, the repository never records more than the limit.
THEOREM StorageBounded ==
  ASSUME Disjoint, SameStorage PROVE Spec => []StorageWithinLimit
<1>1. Inv /\ Inv' /\ Quota /\ [Next]_vars => Quota'
  BY QuotaStep
<1>2. Quota => StorageWithinLimit
  BY DEF Quota
<1>3. QED
  BY <1>1, <1>2, QuotaInit, InvStep, PTL DEF Spec

-----------------------------------------------------------------------------
(* The cache limit.  What makes the cache larger, or its limit smaller, ends *)
(* in an enforcement.                                                        *)

\* What a step does to the cache, its limit and those who enforce it.
CacheChange ==
  \/ Enforcing' # {}
  \/ Evictable' \subseteq Evictable /\ cfg' = cfg /\ Enforcing = {}
  \/ Evictable' = Evictable /\ cfg' = cfg /\ Cardinality(Evictable) <= cfg.cache
  \/ Restart \/ \E t \in Thread : EnforceFails(t)

LEMMA CacheStep ==
  ASSUME Types, Types', [Next]_vars
  PROVE  CacheChange
<1>0. /\ Evictable = {c \in Cid : objects[c] = Cache}
      /\ Evictable' = {c \in Cid : objects'[c] = Cache}
  <2>1. \A c \in Cid : objects[c] \in {Absent, Cache, Durable, Pinned}
    BY DEF Types, TypeOK
  <2>2. \A c \in Cid : objects'[c] \in {Absent, Cache, Durable, Pinned}
    BY DEF Types, TypeOK
  <2>3. QED
    BY <2>1, <2>2, Records DEF Evictable, Recorded
\* Whoever was enforcing and has not moved is enforcing still.
<1>a. ASSUME NEW t \in Thread, pc' = [pc EXCEPT ![t] = pc'[t]],
             pc[t] \notin {"enforce", "unlink", "forget", "missed"}, Enforcing' = {}
      PROVE  Enforcing = {}
  BY <1>a DEF Enforcing, Types, TypeOK
<1>1. ASSUME NEW t \in Thread, NEW d \in Cid, FetchDagObject(t, d) PROVE CacheChange
  BY <1>0, <1>a, <1>1, RepositoryAssumption
     DEF CacheChange, Types, TypeOK, Goto, FetchDagObject, Begin, At
<1>2. ASSUME NEW t \in Thread, NEW d \in Cid, NEW f \in {Cache, Durable, Pinned}, PutVerified(t, d, f) PROVE CacheChange
  BY <1>0, <1>a, <1>2, RepositoryAssumption
     DEF CacheChange, Types, TypeOK, Goto, PutVerified, Begin, At
<1>3. ASSUME NEW d \in Cid, PinRequest(d) PROVE CacheChange
  BY <1>0, <1>a, <1>3, RepositoryAssumption
     DEF CacheChange, Types, TypeOK, Goto, PinRequest, Begin, At
<1>4. ASSUME NEW d \in Cid, UnpinRequest(d) PROVE CacheChange
  BY <1>0, <1>a, <1>4, RepositoryAssumption
     DEF CacheChange, Types, TypeOK, Goto, UnpinRequest, Begin, At
<1>5. ASSUME NEW d \in Config, SetConfig(d) PROVE CacheChange
  BY <1>5, RepositoryAssumption
     DEF CacheChange, Enforcing, Types, TypeOK, Goto, SetConfig, Begin, At
<1>6. ASSUME NEW t \in Thread, Cat(t) PROVE CacheChange
  BY <1>0, <1>a, <1>6 DEF CacheChange, Types, TypeOK, Goto, Cat, At, Continue, Finish, outside
<1>7. ASSUME NEW t \in Thread, PutCheck(t) PROVE CacheChange
  BY <1>0, <1>a, <1>7
     DEF CacheChange, Types, TypeOK, Goto, PutCheck, At, Continue, Finish, outside
<1>8. ASSUME NEW t \in Thread, PutRename(t) PROVE CacheChange
  BY <1>0, <1>a, <1>8
     DEF CacheChange, Types, TypeOK, Goto, PutRename, At, Continue, Finish, outside
<1>9. ASSUME NEW t \in Thread, PutInsert(t) PROVE CacheChange
  BY <1>9 DEF CacheChange, Enforcing, Types, TypeOK, Goto, PutInsert, At, Continue, outside
<1>10. ASSUME NEW t \in Thread, EnforceScan(t) PROVE CacheChange
  BY <1>0, <1>10
     DEF CacheChange, Enforcing, Types, TypeOK, Goto, EnforceScan, At, Finish, outside
<1>11. ASSUME NEW t \in Thread, EnforceUnlink(t) PROVE CacheChange
  BY <1>11
     DEF CacheChange, Enforcing, Types, TypeOK, Goto, EnforceUnlink, At, Continue,
         outside
<1>12. ASSUME NEW t \in Thread, EnforceForget(t) PROVE CacheChange
  BY <1>12
     DEF CacheChange, Enforcing, Types, TypeOK, Goto, EnforceForget, At, Continue,
         outside
<1>13. ASSUME NEW t \in Thread, PinWrite(t) PROVE CacheChange
  BY <1>0, <1>a, <1>13, Records
     DEF CacheChange, Types, TypeOK, Operations, Goto, PinWrite, At, Finish, outside
<1>14. ASSUME NEW t \in Thread, UnpinWrite(t) PROVE CacheChange
  <2>1. cid[t] \in Cid /\ objects[cid[t]] \in {Absent, Cache, Durable, Pinned}
    BY <1>14 DEF Types, TypeOK, Operations, UnpinWrite, At
  <2>2. PICK k \in {Absent, Cache, Durable, Pinned} :
          /\ k = Cache => objects[cid[t]] = Cache
          /\ objects' = [objects EXCEPT ![cid[t]] = k] \/ objects' = objects
    BY <1>14, <2>1, Records, UnpinnedIsDurable, UnpinnedIsRecord DEF UnpinWrite
  <2>3. Evictable' \subseteq Evictable
    BY <1>0, <2>2 DEF Types, TypeOK
  <2>4. Enforcing' = {} => Enforcing = {}
    BY <1>a, <1>14 DEF UnpinWrite, At, Finish, Goto, Types, TypeOK
  <2>5. QED
    BY <1>14, <2>3, <2>4 DEF CacheChange, UnpinWrite, outside
<1>15. ASSUME NEW t \in Thread, EnforceMisses(t) PROVE CacheChange
  BY <1>15
     DEF CacheChange, Enforcing, Types, TypeOK, Goto, EnforceMisses, At, Continue,
         outside
<1>16. ASSUME NEW t \in Thread, CatFails(t) PROVE CacheChange
  BY <1>0, <1>a, <1>16 DEF CacheChange, Types, TypeOK, Goto, CatFails, At, Continue, Finish, outside
<1>17. ASSUME NEW t \in Thread, PutFails(t) PROVE CacheChange
  BY <1>0, <1>a, <1>17 DEF CacheChange, Types, TypeOK, Goto, PutFails, At, Continue, Finish, outside
<1>18. ASSUME NEW t \in Thread, EnforceFails(t) PROVE CacheChange
  BY <1>0, <1>a, <1>18 DEF CacheChange, Types, TypeOK, Goto, EnforceFails, At, Continue, Finish, outside
<1>19. ASSUME NEW t \in Thread, ControlFails(t) PROVE CacheChange
  BY <1>0, <1>a, <1>19 DEF CacheChange, Types, TypeOK, Goto, ControlFails, At, Continue, Finish, outside
<1>20. CASE Restart
  BY <1>20 DEF CacheChange
<1>21. CASE UNCHANGED vars
  BY <1>0, <1>21 DEF CacheChange, Enforcing, vars, threads
<1>22. QED
  BY <1>1, <1>2, <1>3, <1>4, <1>5, <1>6, <1>7, <1>8, <1>9, <1>10, <1>11, <1>12, <1>13,
     <1>14, <1>15, <1>16, <1>17, <1>18, <1>19, <1>20, <1>21
     DEF Next, Request, Step

\* NOD-006: whatever is fetched, pinned or configured at the same time, the
\* cache is left beyond its limit only by an eviction that failed or by a crash.
THEOREM CacheBounded == Spec => OverrunHasCause
<1>1. Types /\ Types' /\ [Next]_vars =>
        [Overrun' => Overrun \/ Restart \/ \E t \in Thread : EnforceFails(t)]_vars
  <2> SUFFICES ASSUME Types, Types', [Next]_vars, Overrun', ~Restart,
                      ~\E t \in Thread : EnforceFails(t)
               PROVE  Overrun
    OBVIOUS
  <2>1. Enforcing' = {} /\ Cardinality(Evictable') > cfg'.cache
    BY DEF Overrun
  <2>2. /\ Evictable \subseteq Cid /\ Evictable' \subseteq Cid
        /\ IsFiniteSet(Evictable) /\ IsFiniteSet(Evictable')
    <3>1. Evictable \subseteq Cid /\ Evictable' \subseteq Cid
      BY DEF Evictable, Recorded
    <3>2. QED
      BY <3>1, FS_Subset, RepositoryAssumption
  <2>3. /\ Cardinality(Evictable) \in Nat /\ Cardinality(Evictable') \in Nat
        /\ cfg.cache \in Nat
    BY <2>2, FS_CardinalityType, RepositoryAssumption DEF Types, TypeOK, Limits
  <2>4. Evictable' \subseteq Evictable /\ cfg' = cfg /\ Enforcing = {}
    BY <2>1, <2>3, CacheStep DEF CacheChange
  <2>5. Cardinality(Evictable') <= Cardinality(Evictable)
    BY <2>2, <2>4, FS_Subset
  <2>6. QED
    BY <2>1, <2>3, <2>4, <2>5 DEF Overrun
<1>2. QED
  BY <1>1, TypesStep, PTL DEF Spec, OverrunHasCause

-----------------------------------------------------------------------------
(* Files without a record.                                                   *)

\* write_lock is held over a put and over a victim, pins or no pins, so no put
\* brings a file back between its removal and that of its record.
Held ==
  \A t \in Thread :
    /\ pc[t] \in {"rename", "insert", "unlink", "forget", "missed"} => write_lock = t
    /\ pc[t] = "insert" => cid[t] \in file
    /\ pc[t] = "forget" => cid[t] \notin file

LEMMA HeldStep ==
  ASSUME Types, Held, [Next]_vars
  PROVE  Held'
<1>1. ASSUME NEW t \in Thread, NEW c \in Cid, FetchDagObject(t, c) PROVE Held'
  BY <1>1, RepositoryAssumption, Records
     DEF Types, TypeOK, Operations, Held, Goto, FetchDagObject, Begin, At
<1>2. ASSUME NEW t \in Thread, NEW c \in Cid, NEW f \in {Cache, Durable, Pinned}, PutVerified(t, c, f) PROVE Held'
  BY <1>2, RepositoryAssumption, Records
     DEF Types, TypeOK, Operations, Held, Goto, PutVerified, Begin, At
<1>3. ASSUME NEW c \in Cid, PinRequest(c) PROVE Held'
  BY <1>3, RepositoryAssumption, Records
     DEF Types, TypeOK, Operations, Held, Goto, PinRequest, Begin, At
<1>4. ASSUME NEW c \in Cid, UnpinRequest(c) PROVE Held'
  BY <1>4, RepositoryAssumption, Records
     DEF Types, TypeOK, Operations, Held, Goto, UnpinRequest, Begin, At
<1>5. ASSUME NEW c \in Config, SetConfig(c) PROVE Held'
  BY <1>5, RepositoryAssumption, Records
     DEF Types, TypeOK, Operations, Held, Goto, SetConfig, Begin, At
<1>6. ASSUME NEW t \in Thread, Cat(t) PROVE Held'
  BY <1>6, RepositoryAssumption, Records
     DEF Types, TypeOK, Operations, Held, Goto, Cat, At, Continue, Finish, outside
<1>7. ASSUME NEW t \in Thread, PutCheck(t) PROVE Held'
  BY <1>7, RepositoryAssumption, Records
     DEF Types, TypeOK, Operations, Held, Goto, PutCheck, At, Continue, Finish, outside
<1>8. ASSUME NEW t \in Thread, PutRename(t) PROVE Held'
  BY <1>8, RepositoryAssumption, Records
     DEF Types, TypeOK, Operations, Held, Goto, PutRename, At, Continue, Finish, outside
<1>9. ASSUME NEW t \in Thread, PutInsert(t) PROVE Held'
  BY <1>9, RepositoryAssumption, Records
     DEF Types, TypeOK, Operations, Held, Goto, PutInsert, At, Continue, Finish, outside
<1>10. ASSUME NEW t \in Thread, EnforceScan(t) PROVE Held'
  BY <1>10, ScanEffect, RepositoryAssumption, Records DEF Types, TypeOK, Operations, Held
<1>11. ASSUME NEW t \in Thread, EnforceUnlink(t) PROVE Held'
  BY <1>11, RepositoryAssumption, Records
     DEF Types, TypeOK, Operations, Held, Goto, EnforceUnlink, At, Continue, Finish, outside
<1>12. ASSUME NEW t \in Thread, EnforceForget(t) PROVE Held'
  BY <1>12, RepositoryAssumption, Records
     DEF Types, TypeOK, Operations, Held, Goto, EnforceForget, At, Continue, Finish, outside
<1>13. ASSUME NEW t \in Thread, PinWrite(t) PROVE Held'
  BY <1>13, RepositoryAssumption, Records
     DEF Types, TypeOK, Operations, Held, Goto, PinWrite, At, Finish, outside
<1>14. ASSUME NEW t \in Thread, UnpinWrite(t) PROVE Held'
  BY <1>14, RepositoryAssumption, Records
     DEF Types, TypeOK, Operations, Held, Goto, UnpinWrite, At, Finish, outside
<1>15. ASSUME NEW t \in Thread, EnforceMisses(t) PROVE Held'
  BY <1>15, RepositoryAssumption, Records
     DEF Types, TypeOK, Operations, Held, Goto, EnforceMisses, At, Continue, Finish, outside
<1>16. ASSUME NEW t \in Thread, CatFails(t) PROVE Held'
  BY <1>16, RepositoryAssumption, Records
     DEF Types, TypeOK, Operations, Held, Goto, CatFails, At, Continue, Finish, outside
<1>17. ASSUME NEW t \in Thread, PutFails(t) PROVE Held'
  BY <1>17, RepositoryAssumption, Records
     DEF Types, TypeOK, Operations, Held, Goto, PutFails, At, Continue, Finish, outside
<1>18. ASSUME NEW t \in Thread, EnforceFails(t) PROVE Held'
  BY <1>18, RepositoryAssumption, Records
     DEF Types, TypeOK, Operations, Held, Goto, EnforceFails, At, Continue, Finish, outside
<1>19. ASSUME NEW t \in Thread, ControlFails(t) PROVE Held'
  BY <1>19, RepositoryAssumption, Records
     DEF Types, TypeOK, Operations, Held, Goto, ControlFails, At, Continue, Finish, outside
<1>20. CASE Restart
  BY <1>20, RepositoryAssumption, Records DEF Types, TypeOK, Operations, Held, Restart
<1>21. CASE UNCHANGED vars
  BY <1>21 DEF Types, TypeOK, Operations, Held, vars, threads
<1>22. QED
  BY <1>1, <1>2, <1>3, <1>4, <1>5, <1>6, <1>7, <1>8, <1>9, <1>10, <1>11, <1>12, <1>13,
     <1>14, <1>15, <1>16, <1>17, <1>18, <1>19, <1>20, <1>21
     DEF Next, Request, Step

OrphanChange ==
  \/ Orphans' \subseteq Orphans
  \/ Restart
  \/ \E t \in Thread : PutFails(t) \/ (pc[t] = "missed" /\ EnforceForget(t))

LEMMA OrphanStep ==
  ASSUME Types, Held, [Next]_vars
  PROVE  OrphanChange
<1>o. /\ \A c : c \in Orphans <=>
           c \in file /\ c \notin Recorded /\ \A u \in Thread : pc[u] = "insert" => cid[u] # c
      /\ \A c : c \in Orphans' <=>
           c \in file' /\ c \notin Recorded' /\ \A u \in Thread : pc'[u] = "insert" => cid'[u] # c
  BY DEF Orphans
\* Whoever does not stand before its record disturbs nobody who does.
<1>m. ASSUME NEW t \in Thread, pc[t] # "insert", file' \subseteq file, Recorded' = Recorded,
             \A u \in Thread \ {t} : pc'[u] = pc[u] /\ cid'[u] = cid[u]
      PROVE  Orphans' \subseteq Orphans
  BY <1>o, <1>m
<1>1. ASSUME NEW t \in Thread, NEW c \in Cid, FetchDagObject(t, c) PROVE OrphanChange
  BY <1>m, <1>1
     DEF OrphanChange, Recorded, FetchDagObject, Begin, At, Continue, Finish, Goto, outside,
         Types, TypeOK
<1>2. ASSUME NEW t \in Thread, NEW c \in Cid, NEW f \in {Cache, Durable, Pinned}, PutVerified(t, c, f) PROVE OrphanChange
  BY <1>m, <1>2
     DEF OrphanChange, Recorded, PutVerified, Begin, At, Continue, Finish, Goto, outside,
         Types, TypeOK
<1>3. ASSUME NEW c \in Cid, PinRequest(c) PROVE OrphanChange
  BY <1>m, <1>3, RepositoryAssumption
     DEF OrphanChange, Recorded, PinRequest, Begin, At, Continue, Finish, Goto, outside,
         Types, TypeOK
<1>4. ASSUME NEW c \in Cid, UnpinRequest(c) PROVE OrphanChange
  BY <1>m, <1>4, RepositoryAssumption
     DEF OrphanChange, Recorded, UnpinRequest, Begin, At, Continue, Finish, Goto, outside,
         Types, TypeOK
<1>5. ASSUME NEW c \in Config, SetConfig(c) PROVE OrphanChange
  BY <1>m, <1>5, RepositoryAssumption
     DEF OrphanChange, Recorded, SetConfig, Begin, At, Continue, Finish, Goto, outside,
         Types, TypeOK
<1>6. ASSUME NEW t \in Thread, Cat(t) PROVE OrphanChange
  BY <1>m, <1>6
     DEF OrphanChange, Recorded, Cat, At, Continue, Finish, Goto, outside,
         Types, TypeOK
<1>7. ASSUME NEW t \in Thread, PutCheck(t) PROVE OrphanChange
  BY <1>m, <1>7
     DEF OrphanChange, Recorded, PutCheck, At, Continue, Finish, Goto, outside,
         Types, TypeOK
<1>8. ASSUME NEW t \in Thread, PutRename(t) PROVE OrphanChange
  <2>1. /\ pc[t] = "rename" /\ pc' = [pc EXCEPT ![t] = "insert"] /\ cid' = cid
        /\ file' = file \cup {cid[t]} /\ objects' = objects
    BY <1>8 DEF PutRename, At, Continue, Goto
  <2>2. Orphans' \subseteq Orphans
    BY <1>o, <2>1 DEF Recorded, Types, TypeOK
  <2>3. QED
    BY <2>2 DEF OrphanChange
<1>9. ASSUME NEW t \in Thread, PutInsert(t) PROVE OrphanChange
  <2>1. /\ pc[t] = "insert" /\ pc' = [pc EXCEPT ![t] = "enforce"] /\ cid' = cid
        /\ file' = file /\ objects' = [objects EXCEPT ![cid[t]] = want[t]]
    BY <1>9 DEF PutInsert, At, Continue, Goto
  <2>2. cid[t] \in Cid /\ want[t].present
    BY <2>1, Records DEF Types, TypeOK, Operations
  <2>3. Recorded' = Recorded \cup {cid[t]}
    BY <2>1, <2>2 DEF Recorded, Types, TypeOK
  <2>4. Orphans' \subseteq Orphans
    BY <1>o, <2>1, <2>3 DEF Types, TypeOK
  <2>5. QED
    BY <2>4 DEF OrphanChange
<1>10. ASSUME NEW t \in Thread, EnforceScan(t) PROVE OrphanChange
  BY <1>m, <1>10
     DEF OrphanChange, Recorded, EnforceScan, At, Continue, Finish, Goto, outside,
         Types, TypeOK
<1>11. ASSUME NEW t \in Thread, EnforceUnlink(t) PROVE OrphanChange
  BY <1>m, <1>11
     DEF OrphanChange, Recorded, EnforceUnlink, At, Continue, Finish, Goto, outside,
         Types, TypeOK
<1>12. ASSUME NEW t \in Thread, EnforceForget(t) PROVE OrphanChange
  <2>1. CASE pc[t] = "missed"
    BY <1>12, <2>1 DEF OrphanChange
  <2>2. CASE pc[t] = "forget"
    <3>1. /\ pc' = [pc EXCEPT ![t] = "enforce"] /\ cid' = cid /\ file' = file
          /\ objects' = [objects EXCEPT ![cid[t]] = Absent]
      BY <1>12 DEF EnforceForget, Continue, Goto
    <3>2. cid[t] \notin file
      BY <2>2 DEF Held
    <3>3. Orphans' \subseteq Orphans
      BY <1>o, <2>2, <3>1, <3>2 DEF Recorded, Types, TypeOK
    <3>4. QED
      BY <3>3 DEF OrphanChange
  <2>3. QED
    BY <1>12, <2>1, <2>2 DEF EnforceForget, At
<1>13. ASSUME NEW t \in Thread, PinWrite(t) PROVE OrphanChange
  <2>1. /\ pc[t] # "insert" /\ pc' = [pc EXCEPT ![t] = "idle"]
        /\ cid' = [cid EXCEPT ![t] = None] /\ file' = file
    BY <1>13 DEF PinWrite, At, Finish, Goto
  <2>2. Recorded' = Recorded
    BY <1>13, Records DEF PinWrite, Unpinned, Recorded, Types, TypeOK
  <2>3. QED
    BY <1>m, <2>1, <2>2 DEF OrphanChange, Types, TypeOK
<1>14. ASSUME NEW t \in Thread, UnpinWrite(t) PROVE OrphanChange
  <2>1. /\ pc[t] # "insert" /\ pc' = [pc EXCEPT ![t] = "idle"]
        /\ cid' = [cid EXCEPT ![t] = None] /\ file' = file
    BY <1>14 DEF UnpinWrite, At, Finish, Goto
  <2>2. Recorded' = Recorded
    BY <1>14, Records DEF UnpinWrite, Unpinned, Recorded, Types, TypeOK
  <2>3. QED
    BY <1>m, <2>1, <2>2 DEF OrphanChange, Types, TypeOK
<1>15. ASSUME NEW t \in Thread, EnforceMisses(t) PROVE OrphanChange
  BY <1>m, <1>15
     DEF OrphanChange, Recorded, EnforceMisses, At, Continue, Finish, Goto, outside,
         Types, TypeOK
<1>16. ASSUME NEW t \in Thread, CatFails(t) PROVE OrphanChange
  BY <1>m, <1>16
     DEF OrphanChange, Recorded, CatFails, At, Continue, Finish, Goto, outside,
         Types, TypeOK
<1>17. ASSUME NEW t \in Thread, PutFails(t) PROVE OrphanChange
  BY <1>17 DEF OrphanChange
<1>18. ASSUME NEW t \in Thread, EnforceFails(t) PROVE OrphanChange
  BY <1>m, <1>18
     DEF OrphanChange, Recorded, EnforceFails, At, Continue, Finish, Goto, outside,
         Types, TypeOK
<1>19. ASSUME NEW t \in Thread, ControlFails(t) PROVE OrphanChange
  BY <1>m, <1>19
     DEF OrphanChange, Recorded, ControlFails, At, Continue, Finish, Goto, outside,
         Types, TypeOK
<1>20. CASE Restart
  BY <1>20 DEF OrphanChange
<1>21. CASE UNCHANGED vars
  BY <1>21 DEF OrphanChange, Orphans, Recorded, vars, threads
<1>22. QED
  BY <1>1, <1>2, <1>3, <1>4, <1>5, <1>6, <1>7, <1>8, <1>9, <1>10, <1>11, <1>12, <1>13,
     <1>14, <1>15, <1>16, <1>17, <1>18, <1>19, <1>20, <1>21
     DEF Next, Request, Step

\* A file is left outside the quota only by a put that failed after its
\* renaming, by a look that missed it, or by a crash: no eviction crosses a put
\* of the same object.
THEOREM OrphansExplained == Spec => OrphanHasCause
<1>1. Init => Held
  BY DEF Init, Held
<1>2. Types /\ Held /\ [Next]_vars => Held'
  BY HeldStep
<1>3. Types /\ Held /\ [Next]_vars => [OrphanChange]_vars
  BY OrphanStep
<1>4. OrphanChange =>
        (\/ Orphans' \subseteq Orphans
         \/ Restart
         \/ \E t \in Thread : PutFails(t) \/ (pc[t] = "missed" /\ EnforceForget(t)))
  BY DEF OrphanChange
<1>5. QED
  BY <1>1, <1>2, <1>3, <1>4, TypesStep, PTL DEF Spec, OrphanHasCause

-----------------------------------------------------------------------------
(* NodeRepository implements ContentStore. *)

LEMMA Levels ==
  /\ LevelOf(Absent) = "absent"
  /\ LevelOf(Cache) = "cached"
  /\ LevelOf(Durable) = "durable"
  /\ LevelOf(Pinned) = "pinned"
BY DEF LevelOf, Absent, Cache, Durable, Pinned

\* A step that touches one object touches one level.
LEMMA OneLevel ==
  ASSUME NEW c \in Cid,
         \A d \in Cid \ {c} : objects'[d] = objects[d] /\ (d \in file' <=> d \in file)
  PROVE  level' = [level EXCEPT ![c] =
           IF c \in file' THEN LevelOf(objects'[c]) ELSE "absent"]
<1>1. \A d \in Cid \ {c} :
        (IF d \in file' THEN LevelOf(objects'[d]) ELSE "absent")
          = (IF d \in file THEN LevelOf(objects[d]) ELSE "absent")
  OBVIOUS
<1>2. QED
  BY <1>1 DEF level

LEMMA RefinesInit == Init => Store!Init
<1> SUFFICES ASSUME Init PROVE Store!Init
  OBVIOUS
<1>1. \A c \in Cid : LevelOf(objects[c]) \in {"absent", "pinned"}
  BY Levels DEF Init
<1>2. QED
  BY <1>1 DEF Store!Init, level

LEMMA RefinesStep ==
  ASSUME Disjoint, Inv, Inv', [Next]_vars
  PROVE  [Store!Next]_level
<1>1. ASSUME NEW t \in Thread, NEW d \in Cid, FetchDagObject(t, d) PROVE [Store!Next]_level
  BY <1>1 DEF level, FetchDagObject, Begin, At
<1>2. ASSUME NEW t \in Thread, NEW d \in Cid, NEW f \in {Cache, Durable, Pinned}, PutVerified(t, d, f) PROVE [Store!Next]_level
  BY <1>2 DEF level, PutVerified, Begin, At
<1>3. ASSUME NEW d \in Cid, PinRequest(d) PROVE [Store!Next]_level
  BY <1>3 DEF level, PinRequest, Begin, At
<1>4. ASSUME NEW d \in Cid, UnpinRequest(d) PROVE [Store!Next]_level
  BY <1>4 DEF level, UnpinRequest, Begin, At
<1>5. ASSUME NEW d \in Config, SetConfig(d) PROVE [Store!Next]_level
  BY <1>5 DEF level, SetConfig, Begin, At
<1>6. ASSUME NEW t \in Thread, Cat(t) PROVE [Store!Next]_level
  BY <1>6 DEF level, Cat, At, Continue, Finish, outside
<1>7. ASSUME NEW t \in Thread, PutCheck(t) PROVE [Store!Next]_level
  BY <1>7 DEF level, PutCheck, At, Continue, Finish, outside
<1>8. ASSUME NEW t \in Thread, PutRename(t) PROVE [Store!Next]_level
  <2>1. cid[t] \in Cid /\ objects' = objects /\ file' = file \cup {cid[t]}
    BY <1>8 DEF PutRename, At, Inv, Operations
  <2>2. level' = [level EXCEPT ![cid[t]] = LevelOf(objects[cid[t]])]
    BY <2>1, OneLevel
  <2>3. objects[cid[t]] \in {Absent, Cache, Durable, Pinned}
    BY <2>1 DEF Inv, TypeOK
  <2>4. CASE objects[cid[t]] = Absent
    BY <2>1, <2>2, <2>4, Levels DEF level
  <2>5. CASE objects[cid[t]] # Absent
    BY <2>1, <2>2, <2>3, <2>5, Levels
       DEF Store!Next, Store!Put, Store!Set, Store!Level
  <2>6. QED
    BY <2>4, <2>5
<1>9. ASSUME NEW t \in Thread, PutInsert(t) PROVE [Store!Next]_level
  <2>1. /\ cid[t] \in Cid /\ cid[t] \in file /\ file' = file
        /\ objects' = [objects EXCEPT ![cid[t]] = want[t]]
        /\ want[t] \in {Cache, Durable, Pinned}
    BY <1>9 DEF PutInsert, At, Inv, TypeOK, Operations, Locked
  <2>2. level' = [level EXCEPT ![cid[t]] = LevelOf(want[t])]
    BY <2>1, OneLevel DEF Inv, TypeOK
  <2>3. QED
    BY <2>1, <2>2, Levels DEF Store!Next, Store!Put, Store!Set, Store!Level
<1>10. ASSUME NEW t \in Thread, EnforceScan(t) PROVE [Store!Next]_level
  BY <1>10, ScanEffect DEF Inv, level
<1>11. ASSUME NEW t \in Thread, EnforceUnlink(t) PROVE [Store!Next]_level
  <2>1. cid[t] \in Cid /\ objects[cid[t]] = Cache
    BY <1>11 DEF EnforceUnlink, At, Inv, Operations, Locked
  <2>2. level' = [level EXCEPT ![cid[t]] = "absent"]
    BY <1>11, <2>1, OneLevel, Levels DEF EnforceUnlink, Inv, TypeOK
  <2>3. level[cid[t]] \in {"absent", "cached"}
    BY <2>1, Levels DEF level
  <2>4. QED
    BY <2>1, <2>2, <2>3 DEF level, Store!Next, Store!Evict, Store!Set
<1>12. ASSUME NEW t \in Thread, EnforceForget(t) PROVE [Store!Next]_level
  <2>1. cid[t] \in Cid /\ objects[cid[t]] = Cache
    BY <1>12 DEF EnforceForget, At, Inv, Operations, Locked
  <2>2. level' = [level EXCEPT ![cid[t]] = "absent"]
    BY <1>12, <2>1, OneLevel, Levels DEF EnforceForget, Inv, TypeOK
  <2>3. level[cid[t]] \in {"absent", "cached"}
    BY <2>1, Levels DEF level
  <2>4. QED
    BY <2>1, <2>2, <2>3 DEF level, Store!Next, Store!Evict, Store!Set
<1>13. ASSUME NEW t \in Thread, PinWrite(t) PROVE [Store!Next]_level
  <2>1. /\ cid[t] \in Cid /\ objects[cid[t]] \in {Durable, Pinned} /\ file' = file
        /\ objects' = [objects EXCEPT ![cid[t]] = Pinned]
    BY <1>13, PinEffect
  <2>2. cid[t] \in file
    BY <2>1 DEF Inv, Files
  <2>3. level' = [level EXCEPT ![cid[t]] = "pinned"]
    BY <2>1, <2>2, OneLevel, Levels DEF Inv, TypeOK
  <2>4. level[cid[t]] \in {"durable", "pinned"}
    BY <2>1, <2>2, Levels DEF level
  <2>5. QED
    BY <2>1, <2>3, <2>4 DEF level, Store!Next, Store!Pin, Store!Set
<1>14. ASSUME NEW t \in Thread, UnpinWrite(t) PROVE [Store!Next]_level
  <2>1. /\ cid[t] \in Cid /\ objects[cid[t]] \in {Durable, Pinned} /\ file' = file
        /\ objects' = [objects EXCEPT ![cid[t]] = Durable]
    BY <1>14, UnpinEffect
  <2>2. cid[t] \in file
    BY <2>1 DEF Inv, Files
  <2>3. level' = [level EXCEPT ![cid[t]] = "durable"]
    BY <2>1, <2>2, OneLevel, Levels DEF Inv, TypeOK
  <2>4. level[cid[t]] \in {"durable", "pinned"}
    BY <2>1, <2>2, Levels DEF level
  <2>5. QED
    BY <2>1, <2>3, <2>4 DEF level, Store!Next, Store!Unpin, Store!Set
<1>15. ASSUME NEW t \in Thread, EnforceMisses(t) PROVE [Store!Next]_level
  BY <1>15 DEF level, EnforceMisses, At, Continue, Finish, outside
<1>16. ASSUME NEW t \in Thread, CatFails(t) PROVE [Store!Next]_level
  BY <1>16 DEF level, CatFails, At, Continue, Finish, outside
<1>17. ASSUME NEW t \in Thread, PutFails(t) PROVE [Store!Next]_level
  BY <1>17 DEF level, PutFails, At, Continue, Finish, outside
<1>18. ASSUME NEW t \in Thread, EnforceFails(t) PROVE [Store!Next]_level
  BY <1>18 DEF level, EnforceFails, At, Continue, Finish, outside
<1>19. ASSUME NEW t \in Thread, ControlFails(t) PROVE [Store!Next]_level
  BY <1>19 DEF level, ControlFails, At, Continue, Finish, outside
<1>20. CASE Restart
  BY <1>20 DEF level, Restart
<1>21. CASE UNCHANGED vars
  BY <1>21 DEF level, vars
<1>22. QED
  BY <1>1, <1>2, <1>3, <1>4, <1>5, <1>6, <1>7, <1>8, <1>9, <1>10, <1>11, <1>12, <1>13,
     <1>14, <1>15, <1>16, <1>17, <1>18, <1>19, <1>20, <1>21
     DEF Next, Request, Step

\* Every operation of the repository looks atomic, and nothing but cached content
\* ever disappears, as long as clients do not pin what is only cached.
THEOREM Implements == ASSUME Disjoint PROVE Spec => ImplementsStore
<1>1. Inv /\ Inv' /\ [Next]_vars => [Store!Next]_level
  BY RefinesStep
<1>2. QED
  BY <1>1, RefinesInit, InvStep, PTL DEF Spec, ImplementsStore, Store!Spec
=============================================================================
