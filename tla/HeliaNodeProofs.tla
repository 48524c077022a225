---------------------------- MODULE HeliaNodeProofs ----------------------------
(***************************************************************************)
(* Theorems about HeliaNode, for every number of calls, contents, blocks   *)
(* and pages.                                                              *)
(***************************************************************************)
EXTENDS HeliaNode, FiniteSetTheorems, TLAPS

-----------------------------------------------------------------------------
(* The inductive invariant: a call has what its next step needs - content, *)
(* a libp2p, a block - and once the first mixin is through, the node has a *)
(* libp2p, which nothing takes from it.                                    *)

Contents == {"add", "add_pin", "cat", "pin", "unpin"}

Prepared ==
  \A c \in Call :
    /\ op[c] = None <=> pc[c] = "idle"
    /\ op[c] \in Contents => cid[c] \in Cid
    /\ pc[c] \in Starting => op[c] # "stop"
    /\ pc[c] \in Body \ {"dial"} => op[c] \in Contents
    /\ pc[c] \in {"create", "join", "leave", "broker"} => swarm[c] # 0
    /\ pc[c] = "update" => block[c] \in Block

Connected ==
  /\ node = "started" => current # 0
  /\ \A c \in Call :
       pc[c] \in {"join", "bitswap", "broker", "finish"} \cup Body => current # 0

Inv == TypeOK /\ Prepared /\ Connected

-----------------------------------------------------------------------------
(* The types in four groups. *)

Statuses == {"starting", "started", "stopping", "stopped"}

PageType ==
  /\ opened \in BOOLEAN /\ lastError \in BOOLEAN /\ hidden \in BOOLEAN
  /\ lifecycle \in {"stopped", "starting", "running", "failed", "background_degraded"}
  /\ node \in {"absent", "stopped", "starting", "started", "stopping"}
  /\ history \in {"calm", "overlapped", "disturbed"}
  /\ requests \in 0..MaxRequests /\ crashes \in 0..MaxCrashes

NetType ==
  /\ swarms \in Seq(Statuses) /\ Len(swarms) \in Nat
  /\ current \in 0..Len(swarms)
  /\ brokers \subseteq 1..Len(swarms)
  /\ swarm \in [Call -> 0..Len(swarms)]

Record == [present : BOOLEAN, count : Int, by : SUBSET Cid]

CallType ==
  /\ pc \in [Call -> {"idle"} \cup Starting \cup Stopping \cup Body]
  /\ op \in [Call -> AllOperations \cup {None}]
  /\ cid \in [Call -> Cid \cup {None}]
  /\ todo \in [Call -> SUBSET Block]
  /\ block \in [Call -> Block \cup {None}]
  /\ seen \in [Call -> Record]
  /\ limit \in [Call -> Nat]

StoreType ==
  /\ stored \subseteq Block
  /\ pins \subseteq Cid /\ acked \subseteq Cid
  /\ blockPins \in [Block -> Record]

LEMMA TypeGroups == TypeOK <=> PageType /\ NetType /\ CallType /\ StoreType
<1>1. swarms \in Seq(Statuses) => Len(swarms) \in Nat
  OBVIOUS
<1>2. QED
  BY <1>1 DEF TypeOK, PageType, NetType, CallType, StoreType, Statuses, Record

LEMMA TypeGroupsNext == TypeOK' <=> PageType' /\ NetType' /\ CallType' /\ StoreType'
<1>1. (swarms \in Seq(Statuses))' => (Len(swarms) \in Nat)'
  OBVIOUS
<1>2. QED
  BY <1>1 DEF TypeOK, PageType, NetType, CallType, StoreType, Statuses, Record

LEMMA NoPinType == NoPin \in Record
BY DEF NoPin, Record

LEMMA ReturnType ==
  ASSUME CallType, NEW c \in Call, Return(c)
  PROVE  CallType'
BY NoPinType DEF CallType, Return, Goto

LEMMA ReturnSwarm ==
  ASSUME NetType, NEW c \in Call, Return(c), UNCHANGED net
  PROVE  NetType'
BY DEF NetType, Return, net

LEMMA FirstStepType ==
  \A o \in AllOperations \ {"start", "stop"} :
    /\ FirstStep(o) \in Body
    /\ FirstStep(o) = "dial" \/ o \in Contents
BY DEF FirstStep, AllOperations, Body, Contents

LEMMA OverlapType ==
  ASSUME PageType, NEW stop
  PROVE  Overlap(stop) \in {"calm", "overlapped", "disturbed"}
BY DEF PageType, Overlap

LEMMA InitInv == Init => Inv
<1> SUFFICES ASSUME Init PROVE Inv
  OBVIOUS
<1>1. Len(swarms) = 0 /\ swarms \in Seq(Statuses)
  BY DEF Init
<1>2. NetType
  BY <1>1 DEF Init, NetType
<1>3. PageType
  <2>1. opened \in BOOLEAN
    BY Zenon, HeliaAssumption DEF Init
  <2>2. requests \in 0..MaxRequests /\ crashes \in 0..MaxCrashes
    BY HeliaAssumption DEF Init
  <2>3. QED
    BY <2>1, <2>2 DEF Init, PageType
<1>4. CallType /\ StoreType
  BY NoPinType DEF Init, CallType, StoreType
<1>5. Prepared
  BY HeliaAssumption DEF Init, Prepared, Starting, Body, Contents, AllOperations
<1>6. Connected
  BY DEF Init, Connected, Body
<1>7. QED
  BY <1>2, <1>3, <1>4, <1>5, <1>6, TypeGroups DEF Inv


-----------------------------------------------------------------------------
(* The steps that keep the types for a reason. *)

LEMMA StartVersionType ==
  ASSUME Inv, NEW c \in Call, StartVersion(c)
  PROVE  TypeOK'
<1> USE DEF page, net, args, walk, store, bounds
<1>1. PageType /\ NetType /\ CallType /\ StoreType
  BY TypeGroups DEF Inv
<1>2. PageType' /\ StoreType'
  BY <1>1 DEF StartVersion, PageType, StoreType
<1>3. CallType'
  BY <1>1 DEF StartVersion, Goto, CallType, Starting
<1>4. NetType'
  <2>1. CASE NoSwarm
    <3>0. swarms' = Append(swarms, "starting") /\ "starting" \in Statuses
      BY <2>1 DEF StartVersion, Statuses, NoSwarm, SwarmIsDown
    <3>1. Len(swarms') = Len(swarms) + 1 /\ swarms' \in Seq(Statuses)
      BY <1>1, <3>0 DEF NetType
    <3>2. QED
      BY <1>1, <2>1, <3>1 DEF StartVersion, NetType, NoSwarm, SwarmIsDown
  <2>2. CASE ~NoSwarm /\ SwarmIsDown
    <3>1. /\ Len(swarms') = Len(swarms)
          /\ swarms' \in Seq(Statuses)
      BY <1>1, <2>2 DEF StartVersion, NetType, Statuses
    <3>2. QED
      BY <1>1, <2>2, <3>1 DEF StartVersion, NetType
  <2>3. CASE ~NoSwarm /\ ~SwarmIsDown
    BY <1>1, <2>3 DEF StartVersion, NetType
  <2>4. QED
    BY <2>1, <2>2, <2>3
<1>5. QED
  BY <1>2, <1>3, <1>4, TypeGroupsNext

LEMMA StartBrokerType ==
  ASSUME Inv, NEW c \in Call, StartBroker(c)
  PROVE  TypeOK'
<1> USE DEF page, net, args, walk, store, bounds
<1>1. PageType /\ NetType /\ CallType /\ StoreType
  BY TypeGroups DEF Inv
<1>2. PageType' /\ StoreType'
  BY <1>1 DEF StartBroker, PageType, StoreType
<1>3. CallType'
  BY <1>1 DEF StartBroker, Goto, CallType, Starting
<1>4. NetType'
  <2>1. swarm[c] \in 1..Len(swarms)
    BY <1>1 DEF Inv, Prepared, StartBroker, NetType
  <2>2. QED
    BY <1>1, <2>1 DEF StartBroker, NetType
<1>5. QED
  BY <1>2, <1>3, <1>4, TypeGroupsNext

LEMMA StartFinishType ==
  ASSUME Inv, NEW c \in Call, StartFinish(c)
  PROVE  TypeOK'
<1> USE DEF page, net, args, walk, store, bounds
<1>1. PageType /\ NetType /\ CallType /\ StoreType
  BY TypeGroups DEF Inv
<1>2. PageType' /\ StoreType'
  BY <1>1 DEF StartFinish, PageType, StoreType
<1>3. CallType' /\ NetType'
  <2>1. CASE op[c] = "start"
    <3>1. Return(c) /\ UNCHANGED net
      BY <2>1 DEF StartFinish
    <3>2. QED
      BY <1>1, <3>1, ReturnType, ReturnSwarm
  <2>2. CASE op[c] # "start"
    <3>1. FirstStep(op[c]) \in Body
      BY <1>1, <2>2, FirstStepType DEF Inv, CallType, Prepared, StartFinish, Starting
    <3>2. todo' \in [Call -> SUBSET Block]
      BY <1>1, <2>2, HeliaAssumption DEF CallType, StartFinish
    <3>3. UNCHANGED <<op, cid, limit, block, seen, swarms, current, brokers>>
      BY <2>2 DEF StartFinish
    <3>4. CallType'
      BY <1>1, <2>2, <3>1, <3>2, <3>3 DEF StartFinish, Goto, CallType
    <3>5. NetType'
      BY <1>1, <2>2, <3>3 DEF StartFinish, NetType
    <3>6. QED
      BY <3>4, <3>5
  <2>3. QED
    BY <2>1, <2>2
<1>4. QED
  BY <1>2, <1>3, TypeGroupsNext

LEMMA RequestType ==
  ASSUME CallType, StoreType, NEW c \in Call, NEW o \in AllOperations,
         NEW d \in Cid \cup {None}, NEW l \in Nat, Request(c, o, d, l)
  PROVE  /\ op' \in [Call -> AllOperations \cup {None}]
         /\ cid' \in [Call -> Cid \cup {None}]
         /\ limit' \in [Call -> Nat]
         /\ StoreType'
BY DEF CallType, StoreType, Request

LEMMA RequestBounds ==
  ASSUME PageType, NEW c \in Call, NEW o, NEW d, NEW l, Request(c, o, d, l)
  PROVE  /\ requests' \in 0..MaxRequests
         /\ UNCHANGED <<opened, hidden, crashes>>
BY HeliaAssumption DEF PageType, Request

LEMMA BeginStopType ==
  ASSUME Inv, NEW c \in Call, BeginStop(c)
  PROVE  TypeOK'
<1> USE DEF page, net, args, walk, store, bounds
<1>1. PageType /\ NetType /\ CallType /\ StoreType
  BY TypeGroups DEF Inv
<1>2. Request(c, "stop", None, 0) /\ "stop" \in AllOperations
  BY DEF BeginStop, AllOperations
<1>3. PageType'
  <2>1. /\ history' \in {"calm", "overlapped", "disturbed"}
        /\ node' = "stopping" /\ UNCHANGED <<lifecycle, lastError>>
    BY <1>1, OverlapType DEF BeginStop
  <2>2. QED
    BY <1>1, <1>2, <2>1, RequestBounds DEF PageType
<1>4. CallType'
  <2>1. pc' \in [Call -> {"idle"} \cup Starting \cup Stopping \cup Body]
    BY <1>1 DEF BeginStop, CallType, Goto, Stopping
  <2>2. UNCHANGED walk
    BY DEF BeginStop
  <2>3. QED
    BY <1>1, <1>2, <2>1, <2>2, RequestType DEF CallType
<1>5. StoreType'
  BY <1>1, <1>2, RequestType
<1>6. NetType'
  <2>1. /\ swarms' \in Seq(Statuses) /\ Len(swarms') = Len(swarms)
        /\ UNCHANGED <<current, brokers>>
    BY <1>1 DEF BeginStop, NetType, Statuses
  <2>2. QED
    BY <1>1, <2>1 DEF BeginStop, NetType
<1>7. QED
  BY <1>3, <1>4, <1>5, <1>6, TypeGroupsNext

LEMMA BeginStartedType ==
  ASSUME Inv, NEW c \in Call, NEW o \in AllOperations, NEW d \in Cid \cup {None},
         NEW l \in Nat, BeginStarted(c, o, d, l)
  PROVE  TypeOK'
<1> USE DEF page, net, args, walk, store, bounds
<1>1. PageType /\ NetType /\ CallType /\ StoreType
  BY TypeGroups DEF Inv
<1>2. Request(c, o, d, l)
  BY DEF BeginStarted
<1>3. PageType'
  BY <1>1, <1>2, RequestBounds DEF BeginStarted, PageType
<1>4. CallType'
  <2>1. FirstStep(o) \in Body
    BY FirstStepType DEF BeginStarted
  <2>2. pc' \in [Call -> {"idle"} \cup Starting \cup Stopping \cup Body]
    BY <1>1, <2>1 DEF BeginStarted, CallType, Goto
  <2>3. todo' \in [Call -> SUBSET Block]
    BY <1>1, HeliaAssumption DEF CallType, BeginStarted
  <2>4. UNCHANGED <<block, seen>>
    BY DEF BeginStarted
  <2>5. QED
    BY <1>1, <1>2, <2>2, <2>3, <2>4, RequestType DEF CallType
<1>5. StoreType'
  BY <1>1, <1>2, RequestType
<1>6. NetType'
  BY <1>1 DEF BeginStarted, NetType
<1>7. QED
  BY <1>3, <1>4, <1>5, <1>6, TypeGroupsNext

LEMMA BeginStartType ==
  ASSUME Inv, NEW c \in Call, NEW o \in AllOperations, NEW d \in Cid \cup {None},
         NEW l \in Nat, BeginStart(c, o, d, l)
  PROVE  TypeOK'
<1> USE DEF page, net, args, walk, store, bounds
<1>1. PageType /\ NetType /\ CallType /\ StoreType
  BY TypeGroups DEF Inv
<1>2. Request(c, o, d, l)
  BY DEF BeginStart
<1>3. PageType'
  <2>1. history' \in {"calm", "overlapped", "disturbed"}
    BY <1>1, OverlapType DEF BeginStart
  <2>2. QED
    BY <1>1, <1>2, <2>1, RequestBounds DEF BeginStart, PageType
<1>4. CallType'
  <2>1. pc' \in [Call -> {"idle"} \cup Starting \cup Stopping \cup Body]
    BY <1>1 DEF BeginStart, CallType, Goto, Starting
  <2>2. UNCHANGED walk
    BY DEF BeginStart
  <2>3. QED
    BY <1>1, <1>2, <2>1, <2>2, RequestType DEF CallType
<1>5. StoreType'
  BY <1>1, <1>2, RequestType
<1>6. NetType'
  BY <1>1 DEF BeginStart, NetType
<1>7. QED
  BY <1>3, <1>4, <1>5, <1>6, TypeGroupsNext

LEMMA ReloadType ==
  ASSUME Inv, Reload
  PROVE  TypeOK'
<1> USE DEF page, net, args, walk, store, bounds
<1>1. PageType /\ NetType /\ CallType /\ StoreType
  BY TypeGroups DEF Inv
<1>2. PageType'
  <2>1. crashes' \in 0..MaxCrashes
    BY <1>1, HeliaAssumption DEF Reload, PageType
  <2>2. QED
    BY <1>1, <2>1 DEF Reload, PageType
<1>6. StoreType'
  BY <1>1 DEF Reload, StoreType
<1>3. CallType'
  BY NoPinType DEF Reload, CallType
<1>4. NetType'
  <2>1. swarms' \in Seq(Statuses) /\ Len(swarms') = 0
    BY DEF Reload
  <2>2. QED
    BY <2>1 DEF Reload, NetType
<1>5. QED
  BY <1>2, <1>3, <1>4, <1>6, TypeGroupsNext

LEMMA Steps ==
  ASSUME Next
  PROVE  \/ \E c \in Call : Progress(c) \/ Fault(c) \/ BeginStop(c) \/ StopWhenStopped(c)
         \/ \E c \in Call, o \in AllOperations, d \in Cid \cup {None}, l \in Nat :
              BeginStarted(c, o, d, l) \/ BeginStart(c, o, d, l)
         \/ Visibility
         \/ Reload
<1>1. \A o \in AllOperations : (IF o = "cat" THEN Limits ELSE {0}) \subseteq Nat
  BY HeliaAssumption
<1>2. QED
  BY <1>1 DEF Next, Ask

(* A call that fails keeps the types, and leaves an error with "failed". *)

LEMMA RejectType ==
  ASSUME TypeOK, NEW c \in Call, Reject(c)
  PROVE  /\ lastError' \in BOOLEAN
         /\ lifecycle' \in {"stopped", "starting", "running", "failed", "background_degraded"}
         /\ history' \in {"calm", "overlapped", "disturbed"}
         /\ pc' \in [Call -> {"idle"} \cup Starting \cup Stopping \cup Body]
         /\ op' \in [Call -> AllOperations \cup {None}]
         /\ cid' \in [Call -> Cid \cup {None}]
         /\ swarm' \in [Call -> 0..Len(swarms)]
         /\ todo' \in [Call -> SUBSET Block]
         /\ block' \in [Call -> Block \cup {None}]
         /\ seen' \in [Call -> [present : BOOLEAN, count : Int, by : SUBSET Cid]]
         /\ limit' \in [Call -> Nat]
<1>1. lastError' = TRUE \/ lastError' = lastError
  BY DEF Reject
<1>2. lastError' \in BOOLEAN
  BY <1>1 DEF TypeOK
<1>3. lifecycle' = "failed" \/ lifecycle' = lifecycle
  BY DEF Reject
<1>4. history' = "disturbed" \/ history' = history
  BY DEF Reject
<1>5. 0 \in 0..Len(swarms)
  BY DEF TypeOK
<1>6. Return(c)
  BY DEF Reject
<1>7. QED
  BY <1>2, <1>3, <1>4, <1>5, <1>6 DEF TypeOK, Return, Goto, NoPin

LEMMA RejectReason ==
  ASSUME NEW c \in Call, Reject(c), FailedHasReason
  PROVE  FailedHasReason'
<1>1. CASE pc[c] \in Starting
  <2>1. pc[c] \notin Stopping
    BY <1>1 DEF Starting, Stopping
  <2>2. QED
    BY <2>1 DEF Reject, FailedHasReason
<1>2. CASE pc[c] \notin Starting
  <2>1. lifecycle' = lifecycle
    BY <1>2 DEF Reject
  <2>2. CASE lastError' = TRUE
    BY <2>2 DEF FailedHasReason
  <2>3. CASE UNCHANGED lastError
    BY <2>1, <2>3 DEF FailedHasReason
  <2>4. QED
    BY <2>2, <2>3 DEF Reject
<1>3. QED
  BY <1>1, <1>2

(* Every step keeps the types. *)

LEMMA TypeStep ==
  ASSUME Inv, [Next]_vars
  PROVE  TypeOK'
<1> USE DEF Inv, TypeOK, Prepared, Connected, page, net, args, walk, calls, store,
            bounds, Starting, Stopping, Body, Contents
<1>1. ASSUME NEW c \in Call, StartVersion(c) PROVE TypeOK'
  BY <1>1, StartVersionType
<1>2. ASSUME NEW c \in Call, StartUnopened(c) PROVE TypeOK'
  <2>1. Reject(c)
    BY <1>2 DEF StartUnopened
  <2>2. QED
    BY <1>2, <2>1, RejectType, HeliaAssumption DEF StartUnopened
<1>3. ASSUME NEW c \in Call, StartSwarm(c) PROVE TypeOK'
  BY <1>3, HeliaAssumption DEF StartSwarm, Goto
<1>4. ASSUME NEW c \in Call, StartBitswap(c) PROVE TypeOK'
  BY <1>4, HeliaAssumption DEF StartBitswap, Goto
<1>5. ASSUME NEW c \in Call, StartBroker(c) PROVE TypeOK'
  BY <1>5, StartBrokerType
<1>6. ASSUME NEW c \in Call, StartFinish(c) PROVE TypeOK'
  BY <1>6, StartFinishType
<1>7. ASSUME NEW c \in Call, StopLeave(c) PROVE TypeOK'
  BY <1>7, HeliaAssumption DEF StopLeave, Goto
<1>8. ASSUME NEW c \in Call, StopSettle(c) PROVE TypeOK'
  BY <1>8, HeliaAssumption DEF StopSettle, Return, Goto, NoPin
<1>9. ASSUME NEW c \in Call, Dial(c) PROVE TypeOK'
  BY <1>9, HeliaAssumption DEF Dial, Return, Goto, NoPin
<1>10. ASSUME NEW c \in Call, DialFails(c) PROVE TypeOK'
  <2>1. Reject(c)
    BY <1>10 DEF DialFails
  <2>2. QED
    BY <1>10, <2>1, RejectType, HeliaAssumption DEF DialFails
<1>11. ASSUME NEW c \in Call, StoreBlock(c) PROVE TypeOK'
  BY <1>11, HeliaAssumption DEF StoreBlock
<1>12. ASSUME NEW c \in Call, StoreEnds(c) PROVE TypeOK'
  BY <1>12, HeliaAssumption DEF StoreEnds, Return, Goto, NoPin
<1>13. ASSUME NEW c \in Call, CatChunk(c) PROVE TypeOK'
  BY <1>13, HeliaAssumption DEF CatChunk, Readable, Length, Allowed, CanFetch
<1>14. ASSUME NEW c \in Call, CatExceeds(c) PROVE TypeOK'
  <2>1. Reject(c)
    BY <1>14 DEF CatExceeds
  <2>2. QED
    BY <1>14, <2>1, RejectType, HeliaAssumption DEF CatExceeds, Readable, CanFetch
<1>15. ASSUME NEW c \in Call, CatTimeout(c) PROVE TypeOK'
  <2>1. Reject(c)
    BY <1>15 DEF CatTimeout
  <2>2. QED
    BY <1>15, <2>1, RejectType, HeliaAssumption DEF CatTimeout
<1>16. ASSUME NEW c \in Call, CatEnds(c) PROVE TypeOK'
  BY <1>16, HeliaAssumption DEF CatEnds, Return, Goto, NoPin
<1>17. ASSUME NEW c \in Call, PinStart(c) PROVE TypeOK'
  BY <1>17, HeliaAssumption DEF PinStart, Goto, AtPin
<1>18. ASSUME NEW c \in Call, AlreadyPinned(c) PROVE TypeOK'
  <2>1. Reject(c)
    BY <1>18 DEF AlreadyPinned
  <2>2. QED
    BY <1>18, <2>1, RejectType, HeliaAssumption DEF AlreadyPinned
<1>19. ASSUME NEW c \in Call, WalkBlock(c) PROVE TypeOK'
  BY <1>19, HeliaAssumption DEF WalkBlock, Goto, Readable, CanFetch
<1>20. ASSUME NEW c \in Call, WalkUpdate(c) PROVE TypeOK'
  <2>1. blockPins' \in [Block -> Record]
    <3>1. cid[c] \in Cid /\ seen[c] \in Record /\ NoPin \in Record
      BY <1>20, NoPinType DEF WalkUpdate, Record
    <3>2. /\ PinnedBlock(seen[c], cid[c]) \in Record
          /\ UnpinnedBlock(seen[c], cid[c]) \in Record
      BY <3>1 DEF PinnedBlock, UnpinnedBlock, Record
    <3>3. \A r \in Record : Written(block[c], r) \in Record
      BY <3>1 DEF Written
    <3>4. blockPins \in [Block -> Record]
      BY DEF Record
    <3> HIDE DEF TypeOK
    <3>5. QED
      BY <1>20, <3>2, <3>3, <3>4 DEF WalkUpdate
  <2>2. seen' \in [Call -> Record] /\ block' \in [Call -> Block \cup {None}]
    BY <1>20, NoPinType DEF WalkUpdate, Record
  <2>3. QED
    BY <1>20, <2>1, <2>2 DEF WalkUpdate, Goto, Record
<1>21. ASSUME NEW c \in Call, WalkEnds(c) PROVE TypeOK'
  BY <1>21, HeliaAssumption DEF WalkEnds, Return, Goto, NoPin
<1>22. ASSUME NEW c \in Call, UnpinRead(c) PROVE TypeOK'
  BY <1>22, HeliaAssumption DEF UnpinRead, Goto
<1>23. ASSUME NEW c \in Call, UnpinAbsent(c) PROVE TypeOK'
  <2>1. Reject(c)
    BY <1>23 DEF UnpinAbsent
  <2>2. QED
    BY <1>23, <2>1, RejectType, HeliaAssumption DEF UnpinAbsent
<1>24. ASSUME NEW c \in Call, UnpinForget(c) PROVE TypeOK'
  BY <1>24, HeliaAssumption DEF UnpinForget, Goto
<1>25. ASSUME NEW c \in Call, StartVersionFails(c) PROVE TypeOK'
  <2>1. Reject(c)
    BY <1>25 DEF StartVersionFails
  <2>2. QED
    BY <1>25, <2>1, RejectType, HeliaAssumption DEF StartVersionFails
<1>26. ASSUME NEW c \in Call, StartSwarmFails(c) PROVE TypeOK'
  <2>1. Reject(c)
    BY <1>26 DEF StartSwarmFails
  <2>2. /\ swarms' \in Seq({"starting", "started", "stopping", "stopped"})
        /\ Len(swarms') = Len(swarms)
    BY <1>26 DEF StartSwarmFails
  <2>3. UNCHANGED <<node, current, brokers, store, bounds>>
    BY <1>26 DEF StartSwarmFails
  <2>4. QED
    BY <2>1, <2>2, <2>3, RejectType, HeliaAssumption
<1>27. ASSUME NEW c \in Call, StartBrokerFails(c) PROVE TypeOK'
  <2>1. Reject(c)
    BY <1>27 DEF StartBrokerFails
  <2>2. QED
    BY <1>27, <2>1, RejectType, HeliaAssumption DEF StartBrokerFails
<1>28. ASSUME NEW c \in Call, StopLeaveFails(c) PROVE TypeOK'
  <2>1. Reject(c)
    BY <1>28 DEF StopLeaveFails
  <2>2. QED
    BY <1>28, <2>1, RejectType, HeliaAssumption DEF StopLeaveFails
<1>29. ASSUME NEW c \in Call, BodyFails(c) PROVE TypeOK'
  <2>1. Reject(c)
    BY <1>29 DEF BodyFails
  <2>2. QED
    BY <1>29, <2>1, RejectType, HeliaAssumption DEF BodyFails
<1>30. ASSUME NEW c \in Call, BeginStop(c) PROVE TypeOK'
  BY <1>30, BeginStopType
<1>31. ASSUME NEW c \in Call, StopWhenStopped(c) PROVE TypeOK'
  BY <1>31, HeliaAssumption DEF StopWhenStopped, Overlap, InProgress
<1>32. ASSUME NEW c \in Call, NEW o \in AllOperations, NEW d \in Cid \cup {None},
             NEW l \in Nat, BeginStarted(c, o, d, l)
      PROVE  TypeOK'
  BY <1>32, BeginStartedType
<1>33. ASSUME NEW c \in Call, NEW o \in AllOperations, NEW d \in Cid \cup {None},
             NEW l \in Nat, BeginStart(c, o, d, l)
      PROVE  TypeOK'
  BY <1>33, BeginStartType
<1>34. ASSUME Visibility PROVE TypeOK'
  BY <1>34, HeliaAssumption DEF Visibility
<1>35. ASSUME Reload PROVE TypeOK'
  BY <1>35, ReloadType
<1>36. CASE UNCHANGED vars
  BY <1>36 DEF vars
<1>37. QED
  BY <1>1, <1>2, <1>3, <1>4, <1>5, <1>6, <1>7, <1>8, <1>9, <1>10, <1>11,
     <1>12, <1>13, <1>14, <1>15, <1>16, <1>17, <1>18, <1>19, <1>20, <1>21,
     <1>22, <1>23, <1>24, <1>25, <1>26, <1>27, <1>28, <1>29, <1>30, <1>31,
     <1>32, <1>33, <1>34, <1>35, <1>36, Steps DEF Progress, Fault

LEMMA BeginStartedPrepared ==
  ASSUME Inv, NEW c \in Call, NEW o \in AllOperations, NEW d \in Cid \cup {None},
         NEW l \in Nat, BeginStarted(c, o, d, l)
  PROVE  Prepared'
<1>1. /\ pc' = [pc EXCEPT ![c] = FirstStep(o)] /\ op' = [op EXCEPT ![c] = o]
      /\ cid' = [cid EXCEPT ![c] = d] /\ swarm' = swarm /\ block' = block
  BY DEF BeginStarted, Goto, Request
<1>2. /\ FirstStep(o) \in Body /\ FirstStep(o) # "idle"
      /\ FirstStep(o) \notin {"update", "create", "join", "leave", "broker"} \cup Starting
      /\ FirstStep(o) = "dial" \/ o \in Contents
  BY FirstStepType DEF BeginStarted, FirstStep, AllOperations, Body, Starting
<1>3. /\ o # None /\ (o \in Contents => d \in Cid)
  BY HeliaAssumption DEF BeginStarted, Request, Contents
<1>4. QED
  BY <1>1, <1>2, <1>3 DEF Inv, TypeOK, Prepared

LEMMA StartVersionPrepared ==
  ASSUME Inv, NEW c \in Call, StartVersion(c)
  PROVE  Prepared'
<1>1. PICK label \in {"create", "join", "bitswap"} :
        /\ pc' = [pc EXCEPT ![c] = label]
        /\ UNCHANGED <<op, cid, block>>
        /\ \A e \in Call \ {c} : swarm'[e] = swarm[e]
        /\ label # "bitswap" => swarm'[c] # 0
  <2>1. Len(swarms) \in Nat /\ swarm \in [Call -> 0..Len(swarms)]
    BY TypeGroups DEF Inv, NetType
  <2>2. UNCHANGED <<op, cid, block>>
    BY DEF StartVersion, args, walk
  <2>3. CASE NoSwarm
    <3>1. swarm' = [swarm EXCEPT ![c] = Len(swarms) + 1] /\ pc' = [pc EXCEPT ![c] = "create"]
      BY <2>3 DEF StartVersion, Goto, NoSwarm, SwarmIsDown
    <3>2. Len(swarms) + 1 # 0
      BY <2>1
    <3>3. QED
      BY <2>1, <2>2, <3>1, <3>2
  <2>4. CASE ~NoSwarm /\ SwarmIsDown
    BY <2>1, <2>2, <2>4 DEF StartVersion, Goto, SwarmIsDown
  <2>5. CASE ~NoSwarm /\ ~SwarmIsDown
    BY <2>1, <2>2, <2>5 DEF StartVersion, Goto
  <2>6. QED
    BY <2>3, <2>4, <2>5
<1>2. pc \in [Call -> {"idle"} \cup Starting \cup Stopping \cup Body] /\ pc[c] = "version"
  BY DEF Inv, TypeOK, StartVersion
<1>3. QED
  BY <1>1, <1>2 DEF Inv, Prepared, Starting, Body

LEMMA StartFinishPrepared ==
  ASSUME Inv, NEW c \in Call, StartFinish(c)
  PROVE  Prepared'
<1>1. /\ pc \in [Call -> {"idle"} \cup Starting \cup Stopping \cup Body] /\ pc[c] = "finish"
      /\ op \in [Call -> AllOperations \cup {None}] /\ cid \in [Call -> Cid \cup {None}]
      /\ swarm \in [Call -> 0..Len(swarms)] /\ block \in [Call -> Block \cup {None}]
  BY DEF Inv, TypeOK, StartFinish
<1>2. CASE op[c] = "start"
  <2>1. Return(c)
    BY <1>2 DEF StartFinish
  <2>2. QED
    BY <1>1, <2>1, HeliaAssumption
       DEF Inv, Prepared, Return, Goto, Starting, Body, Contents, AllOperations
<1>3. CASE op[c] # "start"
  <2>1. op[c] \in AllOperations \ {"start", "stop"}
    BY <1>1, <1>3 DEF Inv, Prepared, Starting
  <2>2. /\ FirstStep(op[c]) \in Body /\ FirstStep(op[c]) # "idle"
        /\ FirstStep(op[c]) \notin {"update", "create", "join", "leave", "broker"} \cup Starting
        /\ FirstStep(op[c]) = "dial" \/ op[c] \in Contents
    BY <2>1, FirstStepType DEF FirstStep, AllOperations, Body, Starting
  <2>3. /\ pc' = [pc EXCEPT ![c] = FirstStep(op[c])] /\ UNCHANGED <<op, cid, block>>
        /\ \A e \in Call \ {c} : swarm'[e] = swarm[e]
    BY <1>1, <1>3 DEF StartFinish, Goto, args
  <2>4. op[c] # None
    BY <2>1, HeliaAssumption
  <2>5. QED
    BY <1>1, <2>2, <2>3, <2>4 DEF Inv, Prepared
<1>4. QED
  BY <1>2, <1>3

(* Every step leaves each call with what it needs. *)

LEMMA PreparedStep ==
  ASSUME Inv, [Next]_vars
  PROVE  Prepared'
<1> USE DEF Inv, TypeOK, Prepared, Connected, page, net, args, walk, calls, store,
            bounds, AllOperations, Starting, Stopping, Body, Contents
<1>1. ASSUME NEW c \in Call, StartVersion(c) PROVE Prepared'
  BY <1>1, StartVersionPrepared
<1>2. ASSUME NEW c \in Call, StartUnopened(c) PROVE Prepared'
  BY <1>2, HeliaAssumption DEF StartUnopened, Reject, Return, Goto, NoPin
<1>3. ASSUME NEW c \in Call, StartSwarm(c) PROVE Prepared'
  BY <1>3, HeliaAssumption DEF StartSwarm, Goto
<1>4. ASSUME NEW c \in Call, StartBitswap(c) PROVE Prepared'
  BY <1>4, HeliaAssumption DEF StartBitswap, Goto
<1>5. ASSUME NEW c \in Call, StartBroker(c) PROVE Prepared'
  BY <1>5, HeliaAssumption DEF StartBroker, Goto
<1>6. ASSUME NEW c \in Call, StartFinish(c) PROVE Prepared'
  BY <1>6, StartFinishPrepared
<1>7. ASSUME NEW c \in Call, StopLeave(c) PROVE Prepared'
  BY <1>7, HeliaAssumption DEF StopLeave, Goto
<1>8. ASSUME NEW c \in Call, StopSettle(c) PROVE Prepared'
  BY <1>8, HeliaAssumption DEF StopSettle, Return, Goto, NoPin
<1>9. ASSUME NEW c \in Call, Dial(c) PROVE Prepared'
  BY <1>9, HeliaAssumption DEF Dial, Return, Goto, NoPin
<1>10. ASSUME NEW c \in Call, DialFails(c) PROVE Prepared'
  BY <1>10, HeliaAssumption DEF DialFails, Reject, Return, Goto, NoPin
<1>11. ASSUME NEW c \in Call, StoreBlock(c) PROVE Prepared'
  BY <1>11, HeliaAssumption DEF StoreBlock
<1>12. ASSUME NEW c \in Call, StoreEnds(c) PROVE Prepared'
  BY <1>12, HeliaAssumption DEF StoreEnds, Return, Goto, NoPin
<1>13. ASSUME NEW c \in Call, CatChunk(c) PROVE Prepared'
  BY <1>13, HeliaAssumption DEF CatChunk, Readable, Length, Allowed, CanFetch
<1>14. ASSUME NEW c \in Call, CatExceeds(c) PROVE Prepared'
  BY <1>14, HeliaAssumption DEF CatExceeds, Reject, Readable, Length, Allowed,
      CanFetch, Return, Goto, NoPin
<1>15. ASSUME NEW c \in Call, CatTimeout(c) PROVE Prepared'
  BY <1>15, HeliaAssumption DEF CatTimeout, Reject, Return, Goto, NoPin
<1>16. ASSUME NEW c \in Call, CatEnds(c) PROVE Prepared'
  BY <1>16, HeliaAssumption DEF CatEnds, Return, Goto, NoPin
<1>17. ASSUME NEW c \in Call, PinStart(c) PROVE Prepared'
  BY <1>17, HeliaAssumption DEF PinStart, Goto, AtPin
<1>18. ASSUME NEW c \in Call, AlreadyPinned(c) PROVE Prepared'
  BY <1>18, HeliaAssumption DEF AlreadyPinned, Reject, AtPin, Return, Goto, NoPin
<1>19. ASSUME NEW c \in Call, WalkBlock(c) PROVE Prepared'
  BY <1>19, HeliaAssumption DEF WalkBlock, Goto, Readable, CanFetch
<1>20. ASSUME NEW c \in Call, WalkUpdate(c) PROVE Prepared'
  BY <1>20, HeliaAssumption DEF WalkUpdate, Goto, Written, PinnedBlock, UnpinnedBlock,
      NoPin
<1>21. ASSUME NEW c \in Call, WalkEnds(c) PROVE Prepared'
  BY <1>21, HeliaAssumption DEF WalkEnds, Return, Goto, NoPin
<1>22. ASSUME NEW c \in Call, UnpinRead(c) PROVE Prepared'
  BY <1>22, HeliaAssumption DEF UnpinRead, Goto
<1>23. ASSUME NEW c \in Call, UnpinAbsent(c) PROVE Prepared'
  BY <1>23, HeliaAssumption DEF UnpinAbsent, Reject, Return, Goto, NoPin
<1>24. ASSUME NEW c \in Call, UnpinForget(c) PROVE Prepared'
  BY <1>24, HeliaAssumption DEF UnpinForget, Goto
<1>25. ASSUME NEW c \in Call, StartVersionFails(c) PROVE Prepared'
  BY <1>25, HeliaAssumption DEF StartVersionFails, Reject, Return, Goto, NoPin
<1>26. ASSUME NEW c \in Call, StartSwarmFails(c) PROVE Prepared'
  BY <1>26, HeliaAssumption DEF StartSwarmFails, Reject, Return, Goto, NoPin
<1>27. ASSUME NEW c \in Call, StartBrokerFails(c) PROVE Prepared'
  BY <1>27, HeliaAssumption DEF StartBrokerFails, Reject, Return, Goto, NoPin
<1>28. ASSUME NEW c \in Call, StopLeaveFails(c) PROVE Prepared'
  BY <1>28, HeliaAssumption DEF StopLeaveFails, Reject, Return, Goto, NoPin
<1>29. ASSUME NEW c \in Call, BodyFails(c) PROVE Prepared'
  BY <1>29, HeliaAssumption DEF BodyFails, Reject, Return, Goto, NoPin
<1>30. ASSUME NEW c \in Call, BeginStop(c) PROVE Prepared'
  BY <1>30, HeliaAssumption DEF BeginStop, Goto, Overlap, Request, InProgress
<1>31. ASSUME NEW c \in Call, StopWhenStopped(c) PROVE Prepared'
  BY <1>31, HeliaAssumption DEF StopWhenStopped, Overlap, InProgress
<1>32. ASSUME NEW c \in Call, NEW o \in AllOperations, NEW d \in Cid \cup {None},
             NEW l \in Nat, BeginStarted(c, o, d, l)
      PROVE  Prepared'
  BY <1>32, BeginStartedPrepared
<1>33. ASSUME NEW c \in Call, NEW o \in AllOperations, NEW d \in Cid \cup {None},
             NEW l \in Nat, BeginStart(c, o, d, l)
      PROVE  Prepared'
  BY <1>33, HeliaAssumption DEF BeginStart, Goto, Overlap, Request, InProgress
<1>34. ASSUME Visibility PROVE Prepared'
  BY <1>34, HeliaAssumption DEF Visibility
<1>35. ASSUME Reload PROVE Prepared'
  BY <1>35, HeliaAssumption DEF Reload, NoPin
<1>36. CASE UNCHANGED vars
  BY <1>36 DEF vars
<1> HIDE DEF Inv, TypeOK, Prepared, Connected
<1>37. QED
  BY <1>1, <1>2, <1>3, <1>4, <1>5, <1>6, <1>7, <1>8, <1>9, <1>10, <1>11,
     <1>12, <1>13, <1>14, <1>15, <1>16, <1>17, <1>18, <1>19, <1>20, <1>21,
     <1>22, <1>23, <1>24, <1>25, <1>26, <1>27, <1>28, <1>29, <1>30, <1>31,
     <1>32, <1>33, <1>34, <1>35, <1>36, Steps DEF Progress, Fault

(* A libp2p is never taken from the node. *)

LEMMA ConnectedStep ==
  ASSUME Inv, [Next]_vars
  PROVE  Connected'
<1> USE DEF Inv, TypeOK, Prepared, Connected, page, net, args, walk, calls, store,
            bounds, Starting, Stopping, Body
<1>1. ASSUME NEW c \in Call, StartVersion(c) PROVE Connected'
  BY <1>1 DEF StartVersion, Goto, NoSwarm, SwarmIsDown
<1>2. ASSUME NEW c \in Call, StartUnopened(c) PROVE Connected'
  BY <1>2 DEF StartUnopened, Reject, Return, Goto, NoPin
<1>3. ASSUME NEW c \in Call, StartSwarm(c) PROVE Connected'
  BY <1>3 DEF StartSwarm, Goto
<1>4. ASSUME NEW c \in Call, StartBitswap(c) PROVE Connected'
  BY <1>4 DEF StartBitswap, Goto
<1>5. ASSUME NEW c \in Call, StartBroker(c) PROVE Connected'
  BY <1>5 DEF StartBroker, Goto
<1>6. ASSUME NEW c \in Call, StartFinish(c) PROVE Connected'
  BY <1>6 DEF StartFinish, Goto, Return, FirstStep, NoPin
<1>7. ASSUME NEW c \in Call, StopLeave(c) PROVE Connected'
  BY <1>7 DEF StopLeave, Goto
<1>8. ASSUME NEW c \in Call, StopSettle(c) PROVE Connected'
  BY <1>8 DEF StopSettle, Return, Goto, NoPin
<1>9. ASSUME NEW c \in Call, Dial(c) PROVE Connected'
  BY <1>9 DEF Dial, Return, Goto, NoPin
<1>10. ASSUME NEW c \in Call, DialFails(c) PROVE Connected'
  BY <1>10 DEF DialFails, Reject, Return, Goto, NoPin
<1>11. ASSUME NEW c \in Call, StoreBlock(c) PROVE Connected'
  BY <1>11 DEF StoreBlock
<1>12. ASSUME NEW c \in Call, StoreEnds(c) PROVE Connected'
  BY <1>12 DEF StoreEnds, Return, Goto, NoPin
<1>13. ASSUME NEW c \in Call, CatChunk(c) PROVE Connected'
  BY <1>13 DEF CatChunk, Readable, Length, Allowed, CanFetch
<1>14. ASSUME NEW c \in Call, CatExceeds(c) PROVE Connected'
  BY <1>14 DEF CatExceeds, Reject, Readable, Length, Allowed, CanFetch, Return, Goto,
      NoPin
<1>15. ASSUME NEW c \in Call, CatTimeout(c) PROVE Connected'
  BY <1>15 DEF CatTimeout, Reject, Return, Goto, NoPin
<1>16. ASSUME NEW c \in Call, CatEnds(c) PROVE Connected'
  BY <1>16 DEF CatEnds, Return, Goto, NoPin
<1>17. ASSUME NEW c \in Call, PinStart(c) PROVE Connected'
  BY <1>17 DEF PinStart, Goto, AtPin
<1>18. ASSUME NEW c \in Call, AlreadyPinned(c) PROVE Connected'
  BY <1>18 DEF AlreadyPinned, Reject, AtPin, Return, Goto, NoPin
<1>19. ASSUME NEW c \in Call, WalkBlock(c) PROVE Connected'
  BY <1>19 DEF WalkBlock, Goto, Readable, CanFetch
<1>20. ASSUME NEW c \in Call, WalkUpdate(c) PROVE Connected'
  BY <1>20 DEF WalkUpdate, Goto, Written, PinnedBlock, UnpinnedBlock, NoPin
<1>21. ASSUME NEW c \in Call, WalkEnds(c) PROVE Connected'
  BY <1>21 DEF WalkEnds, Return, Goto, NoPin
<1>22. ASSUME NEW c \in Call, UnpinRead(c) PROVE Connected'
  BY <1>22 DEF UnpinRead, Goto
<1>23. ASSUME NEW c \in Call, UnpinAbsent(c) PROVE Connected'
  BY <1>23 DEF UnpinAbsent, Reject, Return, Goto, NoPin
<1>24. ASSUME NEW c \in Call, UnpinForget(c) PROVE Connected'
  BY <1>24 DEF UnpinForget, Goto
<1>25. ASSUME NEW c \in Call, StartVersionFails(c) PROVE Connected'
  BY <1>25 DEF StartVersionFails, Reject, Return, Goto, NoPin
<1>26. ASSUME NEW c \in Call, StartSwarmFails(c) PROVE Connected'
  BY <1>26 DEF StartSwarmFails, Reject, Return, Goto, NoPin
<1>27. ASSUME NEW c \in Call, StartBrokerFails(c) PROVE Connected'
  BY <1>27 DEF StartBrokerFails, Reject, Return, Goto, NoPin
<1>28. ASSUME NEW c \in Call, StopLeaveFails(c) PROVE Connected'
  BY <1>28 DEF StopLeaveFails, Reject, Return, Goto, NoPin
<1>29. ASSUME NEW c \in Call, BodyFails(c) PROVE Connected'
  BY <1>29 DEF BodyFails, Reject, Return, Goto, NoPin
<1>30. ASSUME NEW c \in Call, BeginStop(c) PROVE Connected'
  BY <1>30 DEF BeginStop, Goto, Overlap, Request, InProgress
<1>31. ASSUME NEW c \in Call, StopWhenStopped(c) PROVE Connected'
  BY <1>31 DEF StopWhenStopped, Overlap, InProgress
<1>32. ASSUME NEW c \in Call, NEW o \in AllOperations, NEW d \in Cid \cup {None},
             NEW l \in Nat, BeginStarted(c, o, d, l)
      PROVE  Connected'
  BY <1>32 DEF BeginStarted, Goto, Request, FirstStep
<1>33. ASSUME NEW c \in Call, NEW o \in AllOperations, NEW d \in Cid \cup {None},
             NEW l \in Nat, BeginStart(c, o, d, l)
      PROVE  Connected'
  BY <1>33 DEF BeginStart, Goto, Overlap, Request, InProgress
<1>34. ASSUME Visibility PROVE Connected'
  BY <1>34 DEF Visibility
<1>35. ASSUME Reload PROVE Connected'
  BY <1>35 DEF Reload, NoPin
<1>36. CASE UNCHANGED vars
  BY <1>36 DEF vars
<1>37. QED
  BY <1>1, <1>2, <1>3, <1>4, <1>5, <1>6, <1>7, <1>8, <1>9, <1>10, <1>11,
     <1>12, <1>13, <1>14, <1>15, <1>16, <1>17, <1>18, <1>19, <1>20, <1>21,
     <1>22, <1>23, <1>24, <1>25, <1>26, <1>27, <1>28, <1>29, <1>30, <1>31,
     <1>32, <1>33, <1>34, <1>35, <1>36, Steps DEF Progress, Fault

-----------------------------------------------------------------------------
(* Every variable keeps its type: a number of a libp2p always names one    *)
(* that was made, a pin record only contents.                              *)
THEOREM TypeCorrect == Spec => []TypeOK
<1>1. Inv /\ [Next]_vars => Inv'
  BY TypeStep, PreparedStep, ConnectedStep DEF Inv
<1>2. Inv => TypeOK
  BY DEF Inv
<1>3. QED
  BY InitInv, <1>1, <1>2, PTL DEF Spec

LEMMA Invariant == Spec => []Inv
<1>1. Inv /\ [Next]_vars => Inv'
  BY TypeStep, PreparedStep, ConnectedStep DEF Inv
<1>2. QED
  BY InitInv, <1>1, PTL DEF Spec

(* status() never throws on the getter of a libp2p that is not there,      *)
(* whatever starts, stops and failures overlap.                            *)
THEOREM Answers == Spec => []StatusAnswers
<1>1. Inv => StatusAnswers
  BY DEF Inv, Connected, StatusAnswers
<1>2. QED
  BY Invariant, <1>1, PTL

(* The error is written with "failed" and cleared with "starting". *)

LEMMA ReasonStep ==
  ASSUME Inv, FailedHasReason, [Next]_vars
  PROVE  FailedHasReason'
<1> USE DEF Inv, TypeOK, FailedHasReason, page, net, args, walk, calls, store, bounds, Starting
<1>1. ASSUME NEW c \in Call, StartVersion(c) PROVE FailedHasReason'
  BY <1>1 DEF StartVersion, Goto, NoSwarm, SwarmIsDown
<1>2. ASSUME NEW c \in Call, StartUnopened(c) PROVE FailedHasReason'
  <2>1. Reject(c)
    BY <1>2 DEF StartUnopened
  <2>2. QED
    BY <1>2, <2>1, RejectReason DEF StartUnopened
<1>3. ASSUME NEW c \in Call, StartSwarm(c) PROVE FailedHasReason'
  BY <1>3 DEF StartSwarm, Goto
<1>4. ASSUME NEW c \in Call, StartBitswap(c) PROVE FailedHasReason'
  BY <1>4 DEF StartBitswap, Goto
<1>5. ASSUME NEW c \in Call, StartBroker(c) PROVE FailedHasReason'
  BY <1>5 DEF StartBroker, Goto
<1>6. ASSUME NEW c \in Call, StartFinish(c) PROVE FailedHasReason'
  BY <1>6 DEF StartFinish, Goto, Return, FirstStep, NoPin
<1>7. ASSUME NEW c \in Call, StopLeave(c) PROVE FailedHasReason'
  BY <1>7 DEF StopLeave, Goto
<1>8. ASSUME NEW c \in Call, StopSettle(c) PROVE FailedHasReason'
  BY <1>8 DEF StopSettle, Return, Goto, NoPin
<1>9. ASSUME NEW c \in Call, Dial(c) PROVE FailedHasReason'
  BY <1>9 DEF Dial, Return, Goto, NoPin
<1>10. ASSUME NEW c \in Call, DialFails(c) PROVE FailedHasReason'
  <2>1. Reject(c)
    BY <1>10 DEF DialFails
  <2>2. QED
    BY <1>10, <2>1, RejectReason DEF DialFails
<1>11. ASSUME NEW c \in Call, StoreBlock(c) PROVE FailedHasReason'
  BY <1>11 DEF StoreBlock
<1>12. ASSUME NEW c \in Call, StoreEnds(c) PROVE FailedHasReason'
  BY <1>12 DEF StoreEnds, Return, Goto, NoPin
<1>13. ASSUME NEW c \in Call, CatChunk(c) PROVE FailedHasReason'
  BY <1>13 DEF CatChunk, Readable, Length, Allowed, CanFetch
<1>14. ASSUME NEW c \in Call, CatExceeds(c) PROVE FailedHasReason'
  <2>1. Reject(c)
    BY <1>14 DEF CatExceeds
  <2>2. QED
    BY <1>14, <2>1, RejectReason DEF CatExceeds, Readable, CanFetch
<1>15. ASSUME NEW c \in Call, CatTimeout(c) PROVE FailedHasReason'
  <2>1. Reject(c)
    BY <1>15 DEF CatTimeout
  <2>2. QED
    BY <1>15, <2>1, RejectReason DEF CatTimeout
<1>16. ASSUME NEW c \in Call, CatEnds(c) PROVE FailedHasReason'
  BY <1>16 DEF CatEnds, Return, Goto, NoPin
<1>17. ASSUME NEW c \in Call, PinStart(c) PROVE FailedHasReason'
  BY <1>17 DEF PinStart, Goto, AtPin
<1>18. ASSUME NEW c \in Call, AlreadyPinned(c) PROVE FailedHasReason'
  <2>1. Reject(c)
    BY <1>18 DEF AlreadyPinned
  <2>2. QED
    BY <1>18, <2>1, RejectReason DEF AlreadyPinned
<1>19. ASSUME NEW c \in Call, WalkBlock(c) PROVE FailedHasReason'
  BY <1>19 DEF WalkBlock, Goto, Readable, CanFetch
<1>20. ASSUME NEW c \in Call, WalkUpdate(c) PROVE FailedHasReason'
  BY <1>20 DEF WalkUpdate, Goto, Written, PinnedBlock, UnpinnedBlock, NoPin
<1>21. ASSUME NEW c \in Call, WalkEnds(c) PROVE FailedHasReason'
  BY <1>21 DEF WalkEnds, Return, Goto, NoPin
<1>22. ASSUME NEW c \in Call, UnpinRead(c) PROVE FailedHasReason'
  BY <1>22 DEF UnpinRead, Goto
<1>23. ASSUME NEW c \in Call, UnpinAbsent(c) PROVE FailedHasReason'
  <2>1. Reject(c)
    BY <1>23 DEF UnpinAbsent
  <2>2. QED
    BY <1>23, <2>1, RejectReason DEF UnpinAbsent
<1>24. ASSUME NEW c \in Call, UnpinForget(c) PROVE FailedHasReason'
  BY <1>24 DEF UnpinForget, Goto
<1>25. ASSUME NEW c \in Call, StartVersionFails(c) PROVE FailedHasReason'
  <2>1. Reject(c)
    BY <1>25 DEF StartVersionFails
  <2>2. QED
    BY <1>25, <2>1, RejectReason DEF StartVersionFails
<1>26. ASSUME NEW c \in Call, StartSwarmFails(c) PROVE FailedHasReason'
  <2>1. Reject(c)
    BY <1>26 DEF StartSwarmFails
  <2>2. QED
    BY <1>26, <2>1, RejectReason DEF StartSwarmFails
<1>27. ASSUME NEW c \in Call, StartBrokerFails(c) PROVE FailedHasReason'
  <2>1. Reject(c)
    BY <1>27 DEF StartBrokerFails
  <2>2. QED
    BY <1>27, <2>1, RejectReason DEF StartBrokerFails
<1>28. ASSUME NEW c \in Call, StopLeaveFails(c) PROVE FailedHasReason'
  <2>1. Reject(c)
    BY <1>28 DEF StopLeaveFails
  <2>2. QED
    BY <1>28, <2>1, RejectReason DEF StopLeaveFails
<1>29. ASSUME NEW c \in Call, BodyFails(c) PROVE FailedHasReason'
  <2>1. Reject(c)
    BY <1>29 DEF BodyFails
  <2>2. QED
    BY <1>29, <2>1, RejectReason DEF BodyFails
<1>30. ASSUME NEW c \in Call, BeginStop(c) PROVE FailedHasReason'
  BY <1>30 DEF BeginStop, Goto, Overlap, Request, InProgress
<1>31. ASSUME NEW c \in Call, StopWhenStopped(c) PROVE FailedHasReason'
  BY <1>31 DEF StopWhenStopped, Overlap, InProgress
<1>32. ASSUME NEW c \in Call, NEW o \in AllOperations, NEW d \in Cid \cup {None},
             NEW l \in Nat, BeginStarted(c, o, d, l)
      PROVE  FailedHasReason'
  BY <1>32 DEF BeginStarted, Goto, Request, FirstStep
<1>33. ASSUME NEW c \in Call, NEW o \in AllOperations, NEW d \in Cid \cup {None},
             NEW l \in Nat, BeginStart(c, o, d, l)
      PROVE  FailedHasReason'
  BY <1>33 DEF BeginStart, Goto, Overlap, Request, InProgress
<1>34. ASSUME Visibility PROVE FailedHasReason'
  BY <1>34 DEF Visibility
<1>35. ASSUME Reload PROVE FailedHasReason'
  BY <1>35 DEF Reload, NoPin
<1>36. CASE UNCHANGED vars
  BY <1>36 DEF vars
<1>37. QED
  BY <1>1, <1>2, <1>3, <1>4, <1>5, <1>6, <1>7, <1>8, <1>9, <1>10, <1>11,
     <1>12, <1>13, <1>14, <1>15, <1>16, <1>17, <1>18, <1>19, <1>20, <1>21,
     <1>22, <1>23, <1>24, <1>25, <1>26, <1>27, <1>28, <1>29, <1>30, <1>31,
     <1>32, <1>33, <1>34, <1>35, <1>36, Steps DEF Progress, Fault

(* A lifecycle of "failed" always comes with the error that explains it.   *)
THEOREM FailureExplained == Spec => []FailedHasReason
<1>1. Init => FailedHasReason
  BY DEF Init, FailedHasReason
<1>2. QED
  BY Invariant, ReasonStep, <1>1, PTL DEF Spec

-----------------------------------------------------------------------------
(* cat(): what was read is counted right. *)

Cats ==
  \A c \in Call : pc[c] = "cat" =>
    /\ todo[c] \subseteq Dag[cid[c]]
    /\ Length(c) <= limit[c] /\ Length(c) <= MAX_CAT_BYTES

LEMMA LengthIsNat ==
  ASSUME Inv, NEW c \in Call, pc[c] = "cat"
  PROVE  /\ IsFiniteSet(Dag[cid[c]] \ todo[c]) /\ Length(c) \in Nat
         /\ limit[c] \in Nat
<1>1. cid[c] \in Cid
  BY DEF Inv, TypeOK, Prepared, Body
<1>2. IsFiniteSet(Dag[cid[c]] \ todo[c])
  BY <1>1, FS_Subset, HeliaAssumption
<1>3. QED
  BY <1>2, FS_CardinalityType DEF Length, Inv, TypeOK

LEMMA CatBegins ==
  ASSUME NEW c \in Call, todo[c]' = Dag[cid[c]'], limit[c]' \in Nat
  PROVE  /\ todo[c]' \subseteq Dag[cid[c]']
         /\ Length(c)' <= limit[c]' /\ Length(c)' <= MAX_CAT_BYTES
<1>1. Dag[cid[c]'] \ todo[c]' = {}
  OBVIOUS
<1>2. Length(c)' = 0
  BY <1>1, FS_EmptySet DEF Length
<1>3. QED
  BY <1>2, HeliaAssumption

\* The calls that a step leaves alone.
Alone(e) == /\ pc'[e] = pc[e] /\ op'[e] = op[e] /\ cid'[e] = cid[e]
            /\ todo'[e] = todo[e] /\ block'[e] = block[e] /\ seen'[e] = seen[e]
            /\ limit'[e] = limit[e]

LEMMA AloneCats ==
  ASSUME Cats, NEW e \in Call, Alone(e), pc'[e] = "cat"
  PROVE  /\ todo'[e] \subseteq Dag[cid'[e]]
         /\ Length(e)' <= limit'[e] /\ Length(e)' <= MAX_CAT_BYTES
<1>1. Length(e)' = Length(e)
  BY DEF Length, Alone
<1>2. QED
  BY <1>1 DEF Cats, Alone

LEMMA StartFinishCats ==
  ASSUME Inv, Cats, NEW c \in Call, StartFinish(c)
  PROVE  Cats'
<1>1. \A e \in Call \ {c} : Alone(e)
  BY DEF StartFinish, Return, Goto, Inv, TypeOK, Alone, args
<1>2. pc'[c] = "cat" => todo[c]' = Dag[cid[c]'] /\ limit[c]' \in Nat
  BY HeliaAssumption
     DEF StartFinish, Return, Goto, FirstStep, Inv, TypeOK, Prepared, args, Starting,
         Contents
<1>3. QED
  BY <1>1, <1>2, AloneCats, CatBegins DEF Cats

LEMMA BeginStartedCats ==
  ASSUME Inv, Cats, NEW c \in Call, NEW o \in AllOperations, NEW d \in Cid \cup {None},
         NEW l \in Nat, BeginStarted(c, o, d, l)
  PROVE  Cats'
<1>1. \A e \in Call \ {c} : Alone(e)
  BY DEF BeginStarted, Request, Goto, Inv, TypeOK, Alone
<1>2. pc'[c] = "cat" => todo[c]' = Dag[cid[c]'] /\ limit[c]' \in Nat
  BY HeliaAssumption DEF BeginStarted, Request, Goto, FirstStep, Inv, TypeOK
<1>3. QED
  BY <1>1, <1>2, AloneCats, CatBegins DEF Cats

LEMMA CatChunkCats ==
  ASSUME Inv, Cats, NEW c \in Call, CatChunk(c)
  PROVE  Cats'
<1>1. \A e \in Call \ {c} : Alone(e)
  BY DEF CatChunk, Inv, TypeOK, Alone, args
<1>2. PICK b \in todo[c] : todo' = [todo EXCEPT ![c] = @ \ {b}]
  BY DEF CatChunk
<1>3. /\ pc[c] = "cat" /\ UNCHANGED <<cid, limit>>
      /\ Length(c) < Allowed(c)
  BY DEF CatChunk, args
<1>4. /\ todo[c]' = todo[c] \ {b} /\ todo[c] \subseteq Dag[cid[c]]
  BY <1>2, <1>3 DEF Inv, TypeOK, Cats
<1>5. /\ Dag[cid[c]'] \ todo[c]' = (Dag[cid[c]] \ todo[c]) \cup {b}
      /\ b \notin Dag[cid[c]] \ todo[c]
  BY <1>3, <1>4
<1>6. Length(c)' = Length(c) + 1
  BY <1>3, <1>5, LengthIsNat, FS_AddElement DEF Length
<1>7. Length(c)' <= limit[c]' /\ Length(c)' <= MAX_CAT_BYTES
  <2>1. Length(c) \in Nat /\ limit[c] \in Nat /\ MAX_CAT_BYTES \in Nat
    BY <1>3, LengthIsNat, HeliaAssumption
  <2>2. Length(c) < limit[c] /\ Length(c) < MAX_CAT_BYTES
    BY <1>3, <2>1 DEF Allowed
  <2>3. limit[c]' = limit[c]
    BY <1>3
  <2>4. QED
    BY <1>6, <2>1, <2>2, <2>3
<1>8. QED
  BY <1>1, <1>3, <1>4, <1>7, AloneCats DEF Cats

(* Every other step leaves a cat alone or ends it. *)

LEMMA CatStep ==
  ASSUME Inv, Cats, [Next]_vars
  PROVE  Cats'
<1> USE DEF Inv, TypeOK, Cats, Length, page, net, args, walk, calls, store, bounds, Starting
<1>1. ASSUME NEW c \in Call, StartVersion(c) PROVE Cats'
  <2>1. /\ UNCHANGED <<args, walk>> /\ \A e \in Call \ {c} : pc'[e] = pc[e]
        /\ pc'[c] \in {"create", "join", "bitswap"}
    BY <1>1 DEF StartVersion, Goto
  <2>2. QED
    BY <2>1
<1>2. ASSUME NEW c \in Call, StartUnopened(c) PROVE Cats'
  BY <1>2 DEF StartUnopened, Reject, Return, Goto, NoPin
<1>3. ASSUME NEW c \in Call, StartSwarm(c) PROVE Cats'
  BY <1>3 DEF StartSwarm, Goto
<1>4. ASSUME NEW c \in Call, StartBitswap(c) PROVE Cats'
  BY <1>4 DEF StartBitswap, Goto
<1>5. ASSUME NEW c \in Call, StartBroker(c) PROVE Cats'
  BY <1>5 DEF StartBroker, Goto
<1>6. ASSUME NEW c \in Call, StartFinish(c) PROVE Cats'
  BY <1>6, StartFinishCats
<1>7. ASSUME NEW c \in Call, StopLeave(c) PROVE Cats'
  BY <1>7 DEF StopLeave, Goto
<1>8. ASSUME NEW c \in Call, StopSettle(c) PROVE Cats'
  BY <1>8 DEF StopSettle, Return, Goto, NoPin
<1>9. ASSUME NEW c \in Call, Dial(c) PROVE Cats'
  BY <1>9 DEF Dial, Return, Goto, NoPin
<1>10. ASSUME NEW c \in Call, DialFails(c) PROVE Cats'
  BY <1>10 DEF DialFails, Reject, Return, Goto, NoPin
<1>11. ASSUME NEW c \in Call, StoreBlock(c) PROVE Cats'
  BY <1>11 DEF StoreBlock
<1>12. ASSUME NEW c \in Call, StoreEnds(c) PROVE Cats'
  BY <1>12 DEF StoreEnds, Return, Goto, NoPin
<1>13. ASSUME NEW c \in Call, CatChunk(c) PROVE Cats'
  BY <1>13, CatChunkCats
<1>14. ASSUME NEW c \in Call, CatExceeds(c) PROVE Cats'
  BY <1>14 DEF CatExceeds, Reject, Readable, Length, Allowed, CanFetch, Return, Goto,
      NoPin
<1>15. ASSUME NEW c \in Call, CatTimeout(c) PROVE Cats'
  BY <1>15 DEF CatTimeout, Reject, Return, Goto, NoPin
<1>16. ASSUME NEW c \in Call, CatEnds(c) PROVE Cats'
  BY <1>16 DEF CatEnds, Return, Goto, NoPin
<1>17. ASSUME NEW c \in Call, PinStart(c) PROVE Cats'
  BY <1>17 DEF PinStart, Goto, AtPin
<1>18. ASSUME NEW c \in Call, AlreadyPinned(c) PROVE Cats'
  BY <1>18 DEF AlreadyPinned, Reject, AtPin, Return, Goto, NoPin
<1>19. ASSUME NEW c \in Call, WalkBlock(c) PROVE Cats'
  BY <1>19 DEF WalkBlock, Goto, Readable, CanFetch
<1>20. ASSUME NEW c \in Call, WalkUpdate(c) PROVE Cats'
  BY <1>20 DEF WalkUpdate, Goto, Written, PinnedBlock, UnpinnedBlock, NoPin
<1>21. ASSUME NEW c \in Call, WalkEnds(c) PROVE Cats'
  BY <1>21 DEF WalkEnds, Return, Goto, NoPin
<1>22. ASSUME NEW c \in Call, UnpinRead(c) PROVE Cats'
  BY <1>22 DEF UnpinRead, Goto
<1>23. ASSUME NEW c \in Call, UnpinAbsent(c) PROVE Cats'
  BY <1>23 DEF UnpinAbsent, Reject, Return, Goto, NoPin
<1>24. ASSUME NEW c \in Call, UnpinForget(c) PROVE Cats'
  BY <1>24 DEF UnpinForget, Goto
<1>25. ASSUME NEW c \in Call, StartVersionFails(c) PROVE Cats'
  BY <1>25 DEF StartVersionFails, Reject, Return, Goto, NoPin
<1>26. ASSUME NEW c \in Call, StartSwarmFails(c) PROVE Cats'
  BY <1>26 DEF StartSwarmFails, Reject, Return, Goto, NoPin
<1>27. ASSUME NEW c \in Call, StartBrokerFails(c) PROVE Cats'
  BY <1>27 DEF StartBrokerFails, Reject, Return, Goto, NoPin
<1>28. ASSUME NEW c \in Call, StopLeaveFails(c) PROVE Cats'
  BY <1>28 DEF StopLeaveFails, Reject, Return, Goto, NoPin
<1>29. ASSUME NEW c \in Call, BodyFails(c) PROVE Cats'
  BY <1>29 DEF BodyFails, Reject, Return, Goto, NoPin
<1>30. ASSUME NEW c \in Call, BeginStop(c) PROVE Cats'
  <2>1. \A e \in Call \ {c} : pc'[e] = pc[e] /\ cid'[e] = cid[e] /\ limit'[e] = limit[e]
    BY <1>30 DEF BeginStop, Goto, Request
  <2>2. UNCHANGED walk /\ pc'[c] \in {"leave", "settle"}
    BY <1>30 DEF BeginStop, Goto
  <2>3. QED
    BY <2>1, <2>2
<1>31. ASSUME NEW c \in Call, StopWhenStopped(c) PROVE Cats'
  BY <1>31 DEF StopWhenStopped, Overlap, InProgress
<1>32. ASSUME NEW c \in Call, NEW o \in AllOperations, NEW d \in Cid \cup {None},
             NEW l \in Nat, BeginStarted(c, o, d, l)
      PROVE  Cats'
  BY <1>32, BeginStartedCats
<1>33. ASSUME NEW c \in Call, NEW o \in AllOperations, NEW d \in Cid \cup {None},
             NEW l \in Nat, BeginStart(c, o, d, l)
      PROVE  Cats'
  BY <1>33 DEF BeginStart, Goto, Overlap, Request, InProgress
<1>34. ASSUME Visibility PROVE Cats'
  BY <1>34 DEF Visibility
<1>35. ASSUME Reload PROVE Cats'
  BY <1>35 DEF Reload, NoPin
<1>36. CASE UNCHANGED vars
  BY <1>36 DEF vars
<1>37. QED
  BY <1>1, <1>2, <1>3, <1>4, <1>5, <1>6, <1>7, <1>8, <1>9, <1>10, <1>11,
     <1>12, <1>13, <1>14, <1>15, <1>16, <1>17, <1>18, <1>19, <1>20, <1>21,
     <1>22, <1>23, <1>24, <1>25, <1>26, <1>27, <1>28, <1>29, <1>30, <1>31,
     <1>32, <1>33, <1>34, <1>35, <1>36, Steps DEF Progress, Fault

(* cat() never holds more than its caller asked for or the module allows.  *)
THEOREM CatsBounded == Spec => []CatBounded
<1>1. Init => Cats
  BY DEF Init, Cats
<1>2. Cats => CatBounded
  BY DEF Cats, CatBounded
<1>3. QED
  BY Invariant, CatStep, <1>1, <1>2, PTL DEF Spec

-----------------------------------------------------------------------------
(* Pins.  Calls that pin or unpin at the same time have no block in common *)
(* (Serialised); the record of a block names each root once; a root with a *)
(* pin record has all its blocks pinned; a walk has done what it has left  *)
(* behind, and the record it has read is still the one it will overwrite.  *)

Walking == {"pin", "walk", "update", "unpin", "forget"}

Holds(d, b) == b \in stored /\ d \in blockPins[b].by

Exclusive ==
  \A c, e \in Call :
    c # e /\ op[c] \in Pinning /\ op[e] \in Pinning => Dag[cid[c]] \cap Dag[cid[e]] = {}

Sound(r) == /\ IsFiniteSet(r.by) /\ r.count = Cardinality(r.by)
            /\ r.present <=> r.by # {}

Counted == \A b \in Block : Sound(blockPins[b])

Roots == /\ acked \subseteq pins
         /\ \A d \in pins : \A b \in Dag[d] : Holds(d, b)

Works(c) ==
  /\ pc[c] \in {"walk", "update"} => op[c] \in Pinning /\ todo[c] \subseteq Dag[cid[c]]
  /\ pc[c] = "pin" => op[c] = "pin"
  /\ pc[c] \in {"unpin", "forget"} => op[c] = "unpin"
  /\ op[c] = "unpin" => cid[c] \notin acked
  /\ pc[c] = "forget" => cid[c] \in pins
  /\ pc[c] \in {"walk", "update"} /\ op[c] # "unpin" =>
       \A b \in Dag[cid[c]] \ todo[c] : Holds(cid[c], b)
  /\ pc[c] \in {"walk", "update"} /\ op[c] = "unpin" =>
       cid[c] \notin pins /\ \A b \in todo[c] : cid[c] \in blockPins[b].by
  /\ pc[c] = "update" =>
       block[c] \in todo[c] /\ block[c] \in stored /\ seen[c] = blockPins[block[c]]

Pinned == Exclusive /\ Counted /\ Roots /\ \A c \in Call : Works(c)

LEMMA PinnedRecord ==
  ASSUME NEW r \in Record, Sound(r), NEW d \in Cid, d \notin r.by
  PROVE  /\ Sound(PinnedBlock(r, d)) /\ PinnedBlock(r, d).count # 0
         /\ PinnedBlock(r, d).by = r.by \cup {d}
<1>1. /\ IsFiniteSet(r.by \cup {d}) /\ Cardinality(r.by \cup {d}) = Cardinality(r.by) + 1
      /\ Cardinality(r.by) \in Nat
  BY FS_AddElement, FS_CardinalityType DEF Sound
<1>2. PinnedBlock(r, d) = [present |-> TRUE, count |-> r.count + 1, by |-> r.by \cup {d}]
  BY DEF PinnedBlock
<1>3. QED
  BY <1>1, <1>2 DEF Sound

LEMMA UnpinnedRecord ==
  ASSUME NEW r \in Record, Sound(r), NEW d \in Cid, d \in r.by
  PROVE  LET q == UnpinnedBlock(r, d)
         IN  /\ IsFiniteSet(q.by) /\ q.count = Cardinality(q.by) /\ q.present
             /\ q.by = r.by \ {d} /\ (q.count = 0 <=> q.by = {})
<1>1. /\ IsFiniteSet(r.by \ {d}) /\ Cardinality(r.by \ {d}) = Cardinality(r.by) - 1
  BY FS_RemoveElement DEF Sound
<1>2. Cardinality(r.by \ {d}) = 0 <=> r.by \ {d} = {}
  BY <1>1, FS_EmptySet
<1>3. UnpinnedBlock(r, d) = [present |-> TRUE, count |-> r.count - 1, by |-> r.by \ {d}]
  BY DEF UnpinnedBlock
<1>4. QED
  BY <1>1, <1>2, <1>3 DEF Sound

(* A step of c may change the records of its own blocks and root only; then *)
(* the others go on as before.                                             *)
Keeps(c) ==
  /\ stored \subseteq stored'
  /\ \A b \in Block : blockPins'[b] = blockPins[b] \/ (op[c] \in Pinning /\ b \in Dag[cid[c]])
  /\ \A d \in Cid : \/ (d \in pins' <=> d \in pins) /\ (d \in acked' => d \in acked)
                    \/ op[c] \in Pinning /\ d = cid[c]

LEMMA OtherWorks ==
  ASSUME Inv, Pinned, NEW c \in Call, NEW e \in Call \ {c}, Alone(e), Keeps(c)
  PROVE  Works(e)'
<1>1. /\ op[e] \in Pinning => cid[e] \in Cid /\ Dag[cid[e]] \subseteq Block
      /\ op[e] = "unpin" => op[e] \in Pinning
      /\ pc[e] \in Walking => op[e] \in Pinning
  BY HeliaAssumption DEF Inv, Prepared, Contents, Pinning, Pinned, Works, Walking
<1>2. ASSUME op[e] \in Pinning
      PROVE  /\ \A b \in Dag[cid[e]] : blockPins'[b] = blockPins[b]
             /\ cid[e] \in pins' <=> cid[e] \in pins
             /\ cid[e] \in acked' => cid[e] \in acked
  <2>1. op[c] \in Pinning => Dag[cid[c]] \cap Dag[cid[e]] = {}
    BY <1>2 DEF Pinned, Exclusive
  <2>2. Dag[cid[e]] # {}
    BY <1>1, <1>2, HeliaAssumption
  <2>3. op[c] \in Pinning => cid[c] # cid[e]
    BY <2>1, <2>2
  <2>4. QED
    BY <1>1, <1>2, <2>1, <2>3 DEF Keeps
<1>3. Works(e) /\ stored \subseteq stored'
  BY DEF Pinned, Keeps
<1>4. CASE op[e] \notin Pinning
  BY <1>1, <1>3, <1>4 DEF Works, Alone, Walking
<1>5. CASE op[e] \in Pinning
  <2>1. /\ pc[e] \in {"walk", "update"} /\ op[e] # "unpin" =>
             \A b \in Dag[cid[e]] \ todo[e] : b \in stored' /\ cid[e] \in blockPins'[b].by
    BY <1>2, <1>3, <1>5 DEF Works, Holds
  <2>2. pc[e] \in {"walk", "update"} => todo[e] \subseteq Dag[cid[e]]
    BY <1>3 DEF Works
  <2>3. pc[e] \in {"walk", "update"} /\ op[e] = "unpin" =>
             cid[e] \notin pins' /\ \A b \in todo[e] : cid[e] \in blockPins'[b].by
    BY <1>2, <1>3, <1>5, <2>2 DEF Works
  <2>4. pc[e] = "update" =>
          block[e] \in todo[e] /\ block[e] \in stored' /\ seen[e] = blockPins'[block[e]]
    BY <1>2, <1>3, <1>5, <2>2 DEF Works
  <2>5. QED
    BY <1>2, <1>3, <1>5, <2>1, <2>2, <2>3, <2>4 DEF Works, Holds, Alone
<1>6. QED
  BY <1>4, <1>5

(* A step that writes no record and ends in no walk. *)
LEMMA OffWalk ==
  ASSUME Inv, Pinned, NEW c \in Call, \A e \in Call \ {c} : Alone(e),
         stored \subseteq stored', UNCHANGED <<pins, blockPins, acked>>,
         pc'[c] \notin Walking,
         op'[c] = None \/ (op'[c] = op[c] /\ cid'[c] = cid[c])
  PROVE  Pinned'
<1>1. None \notin Pinning /\ None # "unpin"
  BY HeliaAssumption DEF AllOperations, Pinning
<1>2. Keeps(c)
  BY DEF Keeps
<1>3. Works(c)'
  BY <1>1 DEF Works, Walking, Pinned
<1>4. \A e \in Call : Works(e)'
  BY <1>2, <1>3, OtherWorks
<1>5. Exclusive'
  BY <1>1 DEF Exclusive, Pinned, Alone
<1>6. Counted' /\ Roots'
  BY DEF Counted, Roots, Holds, Pinned
<1>7. QED
  BY <1>4, <1>5, <1>6 DEF Pinned

(* A step of a pinning call that goes on with its work. *)
LEMMA OnWalk ==
  ASSUME Inv, Pinned, NEW c \in Call, \A e \in Call \ {c} : Alone(e),
         Keeps(c), op'[c] = op[c], cid'[c] = cid[c], Counted', Roots', Works(c)'
  PROVE  Pinned'
<1>1. \A e \in Call : Works(e)'
  BY OtherWorks
<1>2. Exclusive'
  BY DEF Exclusive, Pinned, Alone
<1>3. QED
  BY <1>1, <1>2 DEF Pinned

LEMMA RequestPinned ==
  ASSUME Serialised, Inv, Pinned, NEW c \in Call, NEW o \in AllOperations,
         NEW d \in Cid \cup {None}, NEW l \in Nat, Request(c, o, d, l),
         \A e \in Call \ {c} : Alone(e),
         pc'[c] \in Walking => (pc'[c] = o /\ o \in {"pin", "unpin"})
  PROVE  Pinned'
<1>1. /\ op'[c] = o /\ cid'[c] = d /\ UNCHANGED <<stored, pins, blockPins>>
      /\ acked' \subseteq acked /\ (o = "unpin" => d \notin acked')
  BY DEF Request, Inv, TypeOK
<1>2. Keeps(c)
  BY <1>1 DEF Keeps
<1>3. Works(c)'
  BY <1>1 DEF Works, Walking
<1>4. \A e \in Call : Works(e)'
  BY <1>2, <1>3, OtherWorks
<1>5. Exclusive'
  <2>1. o \in Pinning => \A e \in Call : op[e] \in Pinning => Dag[cid[e]] \cap Dag[d] = {}
    BY DEF Request, Conflict
  <2>2. QED
    BY <1>1, <2>1 DEF Exclusive, Pinned, Alone
<1>6. Counted' /\ Roots'
  BY <1>1 DEF Counted, Roots, Holds, Pinned
<1>7. QED
  BY <1>4, <1>5, <1>6 DEF Pinned

LEMMA FirstStepWalks ==
  ASSUME NEW o \in AllOperations, FirstStep(o) \in Walking
  PROVE  FirstStep(o) = o /\ o \in {"pin", "unpin"}
BY DEF AllOperations, FirstStep, Walking

LEMMA StartFinishPinned ==
  ASSUME Inv, Pinned, NEW c \in Call, StartFinish(c)
  PROVE  Pinned'
<1>1. \A e \in Call \ {c} : Alone(e)
  BY DEF StartFinish, Return, Goto, Inv, TypeOK, Alone, args
<1>2. CASE op[c] = "start"
  <2>1. /\ stored' = stored /\ UNCHANGED <<pins, blockPins, acked>>
        /\ pc'[c] = "idle" /\ op'[c] = None
    BY <1>2 DEF StartFinish, Return, Goto, Inv, TypeOK, store
  <2>2. QED
    BY <1>1, <2>1, OffWalk DEF Walking
<1>3. CASE op[c] # "start"
  <2>1. op[c] \in AllOperations
    BY DEF StartFinish, Inv, TypeOK, Prepared, Starting
  <2>2. /\ pc'[c] = FirstStep(op[c]) /\ UNCHANGED <<op, cid, store>>
    BY <1>3 DEF StartFinish, Goto, Inv, TypeOK, args
  <2>3. Works(c)'
    BY <2>1, <2>2, FirstStepWalks DEF Works, Pinned, Walking, store
  <2>4. QED
    BY <1>1, <2>2, <2>3, OnWalk DEF Keeps, store, Counted, Roots, Holds, Pinned
<1>4. QED
  BY <1>2, <1>3

LEMMA PinStartPinned ==
  ASSUME Inv, Pinned, NEW c \in Call, PinStart(c)
  PROVE  Pinned'
<1>1. \A e \in Call \ {c} : Alone(e)
  BY DEF PinStart, Goto, Inv, TypeOK, Alone, args
<1>2. /\ pc'[c] = "walk" /\ todo'[c] = Dag[cid[c]]
      /\ UNCHANGED <<op, cid, store>>
  BY DEF PinStart, Goto, Inv, TypeOK, args
<1>3. op[c] \in {"pin", "add_pin"}
  BY DEF PinStart, AtPin, Pinned, Works
<1>4. Works(c)'
  BY <1>2, <1>3 DEF Works, Pinning
<1>5. QED
  BY <1>1, <1>2, <1>4, OnWalk DEF Keeps, store, Counted, Roots, Holds, Pinned

LEMMA WalkBlockPinned ==
  ASSUME Inv, Pinned, NEW c \in Call, WalkBlock(c)
  PROVE  Pinned'
<1>1. \A e \in Call \ {c} : Alone(e)
  BY DEF WalkBlock, Goto, Inv, TypeOK, Alone, args
<1>2. PICK b \in todo[c] :
        /\ stored' = stored \cup {b}
        /\ block' = [block EXCEPT ![c] = b] /\ seen' = [seen EXCEPT ![c] = blockPins[b]]
  BY DEF WalkBlock
<1>3. /\ pc[c] = "walk" /\ pc'[c] = "update" /\ block'[c] = b /\ seen'[c] = blockPins[b]
      /\ UNCHANGED <<op, cid, todo, pins, blockPins, acked>>
  BY <1>2 DEF WalkBlock, Goto, Inv, TypeOK, args
<1>4. Works(c)'
  BY <1>2, <1>3 DEF Works, Holds, Pinned
<1>5. Keeps(c) /\ Counted' /\ Roots'
  BY <1>2, <1>3 DEF Keeps, Counted, Roots, Holds, Pinned
<1>6. QED
  BY <1>1, <1>3, <1>4, <1>5, OnWalk

LEMMA WalkUpdatePinned ==
  ASSUME Inv, Pinned, NEW c \in Call, WalkUpdate(c)
  PROVE  Pinned'
<1> DEFINE d == cid[c]
           b == block[c]
           r == blockPins[b]
<1>1. \A e \in Call \ {c} : Alone(e)
  BY DEF WalkUpdate, Goto, Inv, TypeOK, Alone, args
<1>2. /\ pc[c] = "update" /\ op[c] \in Pinning /\ todo[c] \subseteq Dag[d] /\ b \in todo[c]
      /\ b \in stored /\ seen[c] = r
  BY DEF WalkUpdate, Pinned, Works
<1>3. /\ d \in Cid /\ b \in Block /\ r \in Record /\ Sound(r)
      /\ b \in Dag[d]
  BY <1>2, HeliaAssumption
     DEF Inv, TypeOK, Prepared, Pinning, Contents, Record, Pinned, Counted
<1>4. /\ pc'[c] = "walk" /\ todo'[c] = todo[c] \ {b}
      /\ UNCHANGED <<op, cid, stored, pins, acked>>
  BY DEF WalkUpdate, Goto, Inv, TypeOK, args
<1>5. \A x \in Block \ {b} : blockPins'[x] = blockPins[x]
  BY DEF WalkUpdate, Inv, TypeOK
<1>6. CASE op[c] # "unpin"
  <2>1. /\ Sound(blockPins'[b]) /\ r.by \subseteq blockPins'[b].by /\ d \in blockPins'[b].by
    <3>1. CASE d \in r.by
      BY <1>2, <1>3, <1>6, <3>1 DEF WalkUpdate
    <3>2. CASE d \notin r.by
      <4>1. blockPins'[b] = Written(b, PinnedBlock(r, d))
        BY <1>2, <1>3, <1>6, <3>2 DEF WalkUpdate, Inv, TypeOK
      <4>2. blockPins'[b] = PinnedBlock(r, d)
        BY <1>3, <3>2, <4>1, PinnedRecord DEF Written
      <4>3. QED
        BY <1>3, <3>2, <4>2, PinnedRecord
    <3>3. QED
      BY <3>1, <3>2
  <2>2. \A x \in Block : blockPins[x].by \subseteq blockPins'[x].by /\ Sound(blockPins'[x])
    BY <1>5, <2>1 DEF Pinned, Counted
  <2>3. \A e \in Cid : Dag[e] \subseteq Block
    BY HeliaAssumption
  <2>4. Counted' /\ Roots'
    BY <1>4, <2>2, <2>3 DEF Counted, Roots, Holds, Pinned, Inv, TypeOK
  <2>5. \A x \in Dag[d] \ todo'[c] : x \in stored' /\ d \in blockPins'[x].by
    <3>1. TAKE x \in Dag[d] \ todo'[c]
    <3>2. CASE x = b
      BY <1>2, <1>4, <2>1, <3>2
    <3>3. CASE x # b
      <4>1. x \in Dag[d] \ todo[c]
        BY <1>4, <3>3
      <4>2. x \in stored /\ d \in blockPins[x].by
        BY <1>2, <1>6, <4>1 DEF Pinned, Works, Holds
      <4>3. QED
        BY <1>3, <1>4, <2>2, <2>3, <4>2
    <3>4. QED
      BY <3>2, <3>3
  <2>6. Works(c)'
    BY <1>2, <1>4, <1>6, <2>5 DEF Works, Holds, Pinning
  <2>7. Keeps(c)
    BY <1>2, <1>3, <1>4, <1>5 DEF Keeps
  <2>8. QED
    BY <1>1, <1>4, <2>4, <2>6, <2>7, OnWalk
<1>7. CASE op[c] = "unpin"
  <2>1. d \notin pins /\ d \notin acked /\ \A x \in todo[c] : d \in blockPins[x].by
    BY <1>2, <1>7 DEF Pinned, Works
  <2>2. blockPins'[b] = Written(b, UnpinnedBlock(r, d))
    BY <1>2, <1>3, <1>7 DEF WalkUpdate, Inv, TypeOK
  <2>3. Sound(blockPins'[b]) /\ blockPins'[b].by = r.by \ {d}
    <3>1. d \in r.by /\ r.present
      BY <1>2, <1>3, <2>1 DEF Sound
    <3>2. CASE UnpinnedBlock(r, d).count = 0
      <4>1. blockPins'[b] = NoPin
        BY <2>2, <3>1, <3>2 DEF Written
      <4>2. r.by \ {d} = {}
        BY <1>3, <3>1, <3>2, UnpinnedRecord
      <4>3. QED
        BY <4>1, <4>2, FS_EmptySet DEF NoPin, Sound
    <3>3. CASE UnpinnedBlock(r, d).count # 0
      <4>1. blockPins'[b] = UnpinnedBlock(r, d)
        BY <2>2, <3>3 DEF Written
      <4>2. QED
        BY <1>3, <3>1, <3>3, <4>1, UnpinnedRecord DEF Sound
    <3>4. QED
      BY <3>2, <3>3
  <2>4. \A x \in Block : Sound(blockPins'[x]) /\ blockPins[x].by \ {d} \subseteq blockPins'[x].by
    BY <1>5, <2>3 DEF Pinned, Counted
  <2>5. \A e \in Cid : Dag[e] \subseteq Block
    BY HeliaAssumption
  <2>6. Roots'
    <3>1. \A e \in pins : e # d
      BY <2>1
    <3>2. \A e \in pins : \A x \in Dag[e] : x \in stored /\ e \in blockPins'[x].by
      BY <2>4, <2>5, <3>1 DEF Pinned, Roots, Holds, Inv, TypeOK
    <3>3. QED
      BY <1>4, <3>2 DEF Roots, Holds, Pinned
  <2>7. Counted'
    BY <2>4 DEF Counted
  <2>8. Works(c)'
    <3>1. \A x \in todo'[c] : d \in blockPins'[x].by
      BY <1>2, <1>3, <1>4, <1>5, <2>1, <2>5
    <3>2. QED
      BY <1>2, <1>4, <1>7, <2>1, <3>1 DEF Works, Pinning
  <2>9. Keeps(c)
    BY <1>2, <1>3, <1>4, <1>5 DEF Keeps
  <2>10. QED
    BY <1>1, <1>4, <2>6, <2>7, <2>8, <2>9, OnWalk
<1>8. QED
  BY <1>6, <1>7

LEMMA WalkEndsPinned ==
  ASSUME Inv, Pinned, NEW c \in Call, WalkEnds(c)
  PROVE  Pinned'
<1>1. \A e \in Call \ {c} : Alone(e)
  BY DEF WalkEnds, Return, Goto, Inv, TypeOK, Alone
<1>2. /\ pc'[c] = "idle" /\ op'[c] = None /\ UNCHANGED <<stored, blockPins>>
  BY DEF WalkEnds, Return, Goto, Inv, TypeOK
<1>3. CASE op[c] = "unpin"
  BY <1>1, <1>2, <1>3, OffWalk DEF WalkEnds, Walking
<1>4. CASE op[c] # "unpin"
  <2>1. pins' = pins \cup {cid[c]} /\ acked' = acked \cup {cid[c]}
    BY <1>4 DEF WalkEnds
  <2>2. op[c] \in Pinning /\ \A b \in Dag[cid[c]] : Holds(cid[c], b)
    BY <1>4 DEF WalkEnds, Pinned, Works
  <2>3. Keeps(c)
    BY <1>2, <2>1, <2>2 DEF Keeps
  <2>4. None \notin Pinning /\ None # "unpin"
    BY HeliaAssumption DEF AllOperations, Pinning
  <2>5. Works(c)'
    BY <1>2, <2>4 DEF Works
  <2>6. \A e \in Call : Works(e)'
    BY <1>1, <2>3, <2>5, OtherWorks
  <2>7. Exclusive'
    BY <1>1, <1>2, <2>4 DEF Exclusive, Pinned, Alone
  <2>8. Counted' /\ Roots'
    BY <1>2, <2>1, <2>2 DEF Counted, Roots, Holds, Pinned
  <2>9. QED
    BY <2>6, <2>7, <2>8 DEF Pinned
<1>5. QED
  BY <1>3, <1>4

LEMMA UnpinReadPinned ==
  ASSUME Inv, Pinned, NEW c \in Call, UnpinRead(c)
  PROVE  Pinned'
<1>1. \A e \in Call \ {c} : Alone(e)
  BY DEF UnpinRead, Goto, Inv, TypeOK, Alone, args, walk
<1>2. /\ pc[c] = "unpin" /\ cid[c] \in pins /\ pc'[c] = "forget"
      /\ UNCHANGED <<op, cid, store>>
  BY DEF UnpinRead, Goto, Inv, TypeOK, args
<1>3. Works(c)'
  BY <1>2 DEF Works, Pinned, store
<1>4. QED
  BY <1>1, <1>2, <1>3, OnWalk DEF Keeps, store, Counted, Roots, Holds, Pinned

LEMMA UnpinForgetPinned ==
  ASSUME Inv, Pinned, NEW c \in Call, UnpinForget(c)
  PROVE  Pinned'
<1>1. \A e \in Call \ {c} : Alone(e)
  BY DEF UnpinForget, Goto, Inv, TypeOK, Alone, args
<1>2. /\ pc[c] = "forget" /\ pc'[c] = "walk" /\ todo'[c] = Dag[cid[c]]
      /\ pins' = pins \ {cid[c]}
      /\ UNCHANGED <<op, cid, stored, blockPins, acked>>
  BY DEF UnpinForget, Goto, Inv, TypeOK, args
<1>3. /\ op[c] = "unpin" /\ op[c] \in Pinning /\ cid[c] \notin acked /\ cid[c] \in pins
  BY <1>2 DEF Pinned, Works, Pinning
<1>4. \A b \in Dag[cid[c]] : cid[c] \in blockPins[b].by
  BY <1>3 DEF Pinned, Roots, Holds
<1>5. Works(c)'
  BY <1>2, <1>3, <1>4 DEF Works
<1>6. Keeps(c) /\ Counted' /\ Roots'
  BY <1>2, <1>3 DEF Keeps, Counted, Roots, Holds, Pinned
<1>7. QED
  BY <1>1, <1>2, <1>5, <1>6, OnWalk

LEMMA BeginStartedPinned ==
  ASSUME Serialised, Inv, Pinned, NEW c \in Call, NEW o \in AllOperations,
         NEW d \in Cid \cup {None}, NEW l \in Nat, BeginStarted(c, o, d, l)
  PROVE  Pinned'
<1>1. \A e \in Call \ {c} : Alone(e)
  BY DEF BeginStarted, Request, Goto, Inv, TypeOK, Alone
<1>2. Request(c, o, d, l) /\ pc'[c] = FirstStep(o)
  BY DEF BeginStarted, Goto, Inv, TypeOK
<1>3. QED
  BY <1>1, <1>2, RequestPinned, FirstStepWalks

LEMMA BeginStartPinned ==
  ASSUME Serialised, Inv, Pinned, NEW c \in Call, NEW o \in AllOperations,
         NEW d \in Cid \cup {None}, NEW l \in Nat, BeginStart(c, o, d, l)
  PROVE  Pinned'
<1>1. \A e \in Call \ {c} : Alone(e)
  BY DEF BeginStart, Request, Goto, Inv, TypeOK, Alone, walk
<1>2. Request(c, o, d, l) /\ pc'[c] \notin Walking
  BY DEF BeginStart, Goto, Inv, TypeOK, Walking
<1>3. QED
  BY <1>1, <1>2, RequestPinned

LEMMA BeginStopPinned ==
  ASSUME Serialised, Inv, Pinned, NEW c \in Call, BeginStop(c)
  PROVE  Pinned'
<1>1. \A e \in Call \ {c} : Alone(e)
  BY DEF BeginStop, Request, Goto, Inv, TypeOK, Alone, walk
<1>2. Request(c, "stop", None, 0) /\ pc'[c] \notin Walking
  BY DEF BeginStop, Goto, Inv, TypeOK, Walking
<1>3. "stop" \in AllOperations /\ None \in Cid \cup {None} /\ 0 \in Nat
  BY DEF AllOperations
<1>4. QED
  BY <1>1, <1>2, <1>3, RequestPinned

(* A step that moves no call and writes no record. *)
LEMMA IdlePinned ==
  ASSUME Pinned, UNCHANGED <<pc, op, cid, todo, block, seen, store>>
  PROVE  Pinned'
BY DEF Pinned, Exclusive, Counted, Sound, Roots, Works, Holds, store

LEMMA ReloadPinned ==
  ASSUME Pinned, Reload
  PROVE  Pinned'
<1>1. None \notin Pinning /\ None # "unpin"
  BY HeliaAssumption DEF AllOperations, Pinning
<1>2. \A c \in Call : pc'[c] = "idle" /\ op'[c] = None
  BY DEF Reload
<1>3. UNCHANGED store
  BY DEF Reload
<1>4. (\A c \in Call : Works(c))' /\ Exclusive'
  BY <1>1, <1>2 DEF Works, Exclusive
<1>5. Counted' /\ Roots'
  BY <1>3 DEF Pinned, Counted, Sound, Roots, Holds, store
<1>6. QED
  BY <1>4, <1>5 DEF Pinned

LEMMA PinnedStep ==
  ASSUME Serialised, Inv, Pinned, [Next]_vars
  PROVE  Pinned'
<1>1. ASSUME NEW c \in Call, StartVersion(c) PROVE Pinned'
  <2>1. \A e \in Call \ {c} : Alone(e)
    BY <1>1 DEF StartVersion, Goto, NoSwarm, SwarmIsDown, Inv, TypeOK, Alone, args, walk, calls
  <2>2. /\ stored \subseteq stored' /\ UNCHANGED <<pins, blockPins, acked>>
        /\ pc'[c] \notin Walking
        /\ op'[c] = None \/ (op'[c] = op[c] /\ cid'[c] = cid[c])
    BY <1>1
       DEF StartVersion, Goto, NoSwarm, SwarmIsDown, Inv, TypeOK, Walking, Starting,
           args, calls, store
  <2>3. QED
    BY <2>1, <2>2, OffWalk
<1>2. ASSUME NEW c \in Call, StartUnopened(c) PROVE Pinned'
  <2>1. \A e \in Call \ {c} : Alone(e)
    BY <1>2 DEF StartUnopened, Reject, Return, Goto, Inv, TypeOK, Alone, args, walk, calls
  <2>2. /\ stored \subseteq stored' /\ UNCHANGED <<pins, blockPins, acked>>
        /\ pc'[c] \notin Walking
        /\ op'[c] = None \/ (op'[c] = op[c] /\ cid'[c] = cid[c])
    BY <1>2
       DEF StartUnopened, Reject, Return, Goto, Inv, TypeOK, Walking, Starting, args,
           calls, store
  <2>3. QED
    BY <2>1, <2>2, OffWalk
<1>3. ASSUME NEW c \in Call, StartSwarm(c) PROVE Pinned'
  <2>1. \A e \in Call \ {c} : Alone(e)
    BY <1>3 DEF StartSwarm, Goto, Inv, TypeOK, Alone, args, walk, calls
  <2>2. /\ stored \subseteq stored' /\ UNCHANGED <<pins, blockPins, acked>>
        /\ pc'[c] \notin Walking
        /\ op'[c] = None \/ (op'[c] = op[c] /\ cid'[c] = cid[c])
    BY <1>3 DEF StartSwarm, Goto, Inv, TypeOK, Walking, Starting, args, calls, store
  <2>3. QED
    BY <2>1, <2>2, OffWalk
<1>4. ASSUME NEW c \in Call, StartBitswap(c) PROVE Pinned'
  <2>1. \A e \in Call \ {c} : Alone(e)
    BY <1>4 DEF StartBitswap, Goto, Inv, TypeOK, Alone, args, walk, calls
  <2>2. /\ stored \subseteq stored' /\ UNCHANGED <<pins, blockPins, acked>>
        /\ pc'[c] \notin Walking
        /\ op'[c] = None \/ (op'[c] = op[c] /\ cid'[c] = cid[c])
    BY <1>4 DEF StartBitswap, Goto, Inv, TypeOK, Walking, Starting, args, calls, store
  <2>3. QED
    BY <2>1, <2>2, OffWalk
<1>5. ASSUME NEW c \in Call, StartBroker(c) PROVE Pinned'
  <2>1. \A e \in Call \ {c} : Alone(e)
    BY <1>5 DEF StartBroker, Goto, Inv, TypeOK, Alone, args, walk, calls
  <2>2. /\ stored \subseteq stored' /\ UNCHANGED <<pins, blockPins, acked>>
        /\ pc'[c] \notin Walking
        /\ op'[c] = None \/ (op'[c] = op[c] /\ cid'[c] = cid[c])
    BY <1>5 DEF StartBroker, Goto, Inv, TypeOK, Walking, Starting, args, calls, store
  <2>3. QED
    BY <2>1, <2>2, OffWalk
<1>6. ASSUME NEW c \in Call, StartFinish(c) PROVE Pinned'
  BY <1>6, StartFinishPinned
<1>7. ASSUME NEW c \in Call, StopLeave(c) PROVE Pinned'
  <2>1. \A e \in Call \ {c} : Alone(e)
    BY <1>7 DEF StopLeave, Goto, Inv, TypeOK, Alone, args, walk, calls
  <2>2. /\ stored \subseteq stored' /\ UNCHANGED <<pins, blockPins, acked>>
        /\ pc'[c] \notin Walking
        /\ op'[c] = None \/ (op'[c] = op[c] /\ cid'[c] = cid[c])
    BY <1>7 DEF StopLeave, Goto, Inv, TypeOK, Walking, Starting, args, calls, store
  <2>3. QED
    BY <2>1, <2>2, OffWalk
<1>8. ASSUME NEW c \in Call, StopSettle(c) PROVE Pinned'
  <2>1. \A e \in Call \ {c} : Alone(e)
    BY <1>8 DEF StopSettle, Return, Goto, Inv, TypeOK, Alone, args, walk, calls
  <2>2. /\ stored \subseteq stored' /\ UNCHANGED <<pins, blockPins, acked>>
        /\ pc'[c] \notin Walking
        /\ op'[c] = None \/ (op'[c] = op[c] /\ cid'[c] = cid[c])
    BY <1>8 DEF StopSettle, Return, Goto, Inv, TypeOK, Walking, Starting, args, calls, store
  <2>3. QED
    BY <2>1, <2>2, OffWalk
<1>9. ASSUME NEW c \in Call, Dial(c) PROVE Pinned'
  <2>1. \A e \in Call \ {c} : Alone(e)
    BY <1>9 DEF Dial, Return, Goto, Inv, TypeOK, Alone, args, walk, calls
  <2>2. /\ stored \subseteq stored' /\ UNCHANGED <<pins, blockPins, acked>>
        /\ pc'[c] \notin Walking
        /\ op'[c] = None \/ (op'[c] = op[c] /\ cid'[c] = cid[c])
    BY <1>9 DEF Dial, Return, Goto, Inv, TypeOK, Walking, Starting, args, calls, store
  <2>3. QED
    BY <2>1, <2>2, OffWalk
<1>10. ASSUME NEW c \in Call, DialFails(c) PROVE Pinned'
  <2>1. \A e \in Call \ {c} : Alone(e)
    BY <1>10 DEF DialFails, Reject, Return, Goto, Inv, TypeOK, Alone, args, walk, calls
  <2>2. /\ stored \subseteq stored' /\ UNCHANGED <<pins, blockPins, acked>>
        /\ pc'[c] \notin Walking
        /\ op'[c] = None \/ (op'[c] = op[c] /\ cid'[c] = cid[c])
    BY <1>10
       DEF DialFails, Reject, Return, Goto, Inv, TypeOK, Walking, Starting, args, calls,
           store
  <2>3. QED
    BY <2>1, <2>2, OffWalk
<1>11. ASSUME NEW c \in Call, StoreBlock(c) PROVE Pinned'
  <2>1. \A e \in Call \ {c} : Alone(e)
    BY <1>11 DEF StoreBlock, Inv, TypeOK, Alone, args, walk, calls
  <2>2. /\ stored \subseteq stored' /\ UNCHANGED <<pins, blockPins, acked>>
        /\ pc'[c] \notin Walking
        /\ op'[c] = None \/ (op'[c] = op[c] /\ cid'[c] = cid[c])
    BY <1>11 DEF StoreBlock, Inv, TypeOK, Walking, Starting, args, calls, store
  <2>3. QED
    BY <2>1, <2>2, OffWalk
<1>12. ASSUME NEW c \in Call, StoreEnds(c) PROVE Pinned'
  <2>1. \A e \in Call \ {c} : Alone(e)
    BY <1>12 DEF StoreEnds, Return, Goto, Inv, TypeOK, Alone, args, walk, calls
  <2>2. /\ stored \subseteq stored' /\ UNCHANGED <<pins, blockPins, acked>>
        /\ pc'[c] \notin Walking
        /\ op'[c] = None \/ (op'[c] = op[c] /\ cid'[c] = cid[c])
    BY <1>12 DEF StoreEnds, Return, Goto, Inv, TypeOK, Walking, Starting, args, calls, store
  <2>3. QED
    BY <2>1, <2>2, OffWalk
<1>13. ASSUME NEW c \in Call, CatChunk(c) PROVE Pinned'
  <2>1. \A e \in Call \ {c} : Alone(e)
    BY <1>13 DEF CatChunk, Inv, TypeOK, Alone, args, walk, calls
  <2>2. /\ stored \subseteq stored' /\ UNCHANGED <<pins, blockPins, acked>>
        /\ pc'[c] \notin Walking
        /\ op'[c] = None \/ (op'[c] = op[c] /\ cid'[c] = cid[c])
    BY <1>13 DEF CatChunk, Inv, TypeOK, Walking, Starting, args, calls, store
  <2>3. QED
    BY <2>1, <2>2, OffWalk
<1>14. ASSUME NEW c \in Call, CatExceeds(c) PROVE Pinned'
  <2>1. \A e \in Call \ {c} : Alone(e)
    BY <1>14 DEF CatExceeds, Reject, Return, Goto, Inv, TypeOK, Alone, args, walk, calls
  <2>2. /\ stored \subseteq stored' /\ UNCHANGED <<pins, blockPins, acked>>
        /\ pc'[c] \notin Walking
        /\ op'[c] = None \/ (op'[c] = op[c] /\ cid'[c] = cid[c])
    BY <1>14
       DEF CatExceeds, Reject, Return, Goto, Inv, TypeOK, Walking, Starting, args,
           calls, store
  <2>3. QED
    BY <2>1, <2>2, OffWalk
<1>15. ASSUME NEW c \in Call, CatTimeout(c) PROVE Pinned'
  <2>1. \A e \in Call \ {c} : Alone(e)
    BY <1>15 DEF CatTimeout, Reject, Return, Goto, Inv, TypeOK, Alone, args, walk, calls
  <2>2. /\ stored \subseteq stored' /\ UNCHANGED <<pins, blockPins, acked>>
        /\ pc'[c] \notin Walking
        /\ op'[c] = None \/ (op'[c] = op[c] /\ cid'[c] = cid[c])
    BY <1>15
       DEF CatTimeout, Reject, Return, Goto, Inv, TypeOK, Walking, Starting, args,
           calls, store
  <2>3. QED
    BY <2>1, <2>2, OffWalk
<1>16. ASSUME NEW c \in Call, CatEnds(c) PROVE Pinned'
  <2>1. \A e \in Call \ {c} : Alone(e)
    BY <1>16 DEF CatEnds, Return, Goto, Inv, TypeOK, Alone, args, walk, calls
  <2>2. /\ stored \subseteq stored' /\ UNCHANGED <<pins, blockPins, acked>>
        /\ pc'[c] \notin Walking
        /\ op'[c] = None \/ (op'[c] = op[c] /\ cid'[c] = cid[c])
    BY <1>16 DEF CatEnds, Return, Goto, Inv, TypeOK, Walking, Starting, args, calls, store
  <2>3. QED
    BY <2>1, <2>2, OffWalk
<1>17. ASSUME NEW c \in Call, PinStart(c) PROVE Pinned'
  BY <1>17, PinStartPinned
<1>18. ASSUME NEW c \in Call, AlreadyPinned(c) PROVE Pinned'
  <2>1. \A e \in Call \ {c} : Alone(e)
    BY <1>18 DEF AlreadyPinned, Reject, Return, Goto, Inv, TypeOK, Alone, args, walk, calls
  <2>2. /\ stored \subseteq stored' /\ UNCHANGED <<pins, blockPins, acked>>
        /\ pc'[c] \notin Walking
        /\ op'[c] = None \/ (op'[c] = op[c] /\ cid'[c] = cid[c])
    BY <1>18
       DEF AlreadyPinned, Reject, Return, Goto, Inv, TypeOK, Walking, Starting, args,
           calls, store
  <2>3. QED
    BY <2>1, <2>2, OffWalk
<1>19. ASSUME NEW c \in Call, WalkBlock(c) PROVE Pinned'
  BY <1>19, WalkBlockPinned
<1>20. ASSUME NEW c \in Call, WalkUpdate(c) PROVE Pinned'
  BY <1>20, WalkUpdatePinned
<1>21. ASSUME NEW c \in Call, WalkEnds(c) PROVE Pinned'
  BY <1>21, WalkEndsPinned
<1>22. ASSUME NEW c \in Call, UnpinRead(c) PROVE Pinned'
  BY <1>22, UnpinReadPinned
<1>23. ASSUME NEW c \in Call, UnpinAbsent(c) PROVE Pinned'
  <2>1. \A e \in Call \ {c} : Alone(e)
    BY <1>23 DEF UnpinAbsent, Reject, Return, Goto, Inv, TypeOK, Alone, args, walk, calls
  <2>2. /\ stored \subseteq stored' /\ UNCHANGED <<pins, blockPins, acked>>
        /\ pc'[c] \notin Walking
        /\ op'[c] = None \/ (op'[c] = op[c] /\ cid'[c] = cid[c])
    BY <1>23
       DEF UnpinAbsent, Reject, Return, Goto, Inv, TypeOK, Walking, Starting, args,
           calls, store
  <2>3. QED
    BY <2>1, <2>2, OffWalk
<1>24. ASSUME NEW c \in Call, UnpinForget(c) PROVE Pinned'
  BY <1>24, UnpinForgetPinned
<1>25. ASSUME NEW c \in Call, StartVersionFails(c) PROVE Pinned'
  <2>1. \A e \in Call \ {c} : Alone(e)
    BY <1>25 DEF StartVersionFails, Reject, Return, Goto, Inv, TypeOK, Alone, args, walk, calls
  <2>2. /\ stored \subseteq stored' /\ UNCHANGED <<pins, blockPins, acked>>
        /\ pc'[c] \notin Walking
        /\ op'[c] = None \/ (op'[c] = op[c] /\ cid'[c] = cid[c])
    BY <1>25
       DEF StartVersionFails, Reject, Return, Goto, Inv, TypeOK, Walking, Starting,
           args, calls, store
  <2>3. QED
    BY <2>1, <2>2, OffWalk
<1>26. ASSUME NEW c \in Call, StartSwarmFails(c) PROVE Pinned'
  <2>1. \A e \in Call \ {c} : Alone(e)
    BY <1>26 DEF StartSwarmFails, Reject, Return, Goto, Inv, TypeOK, Alone, args, walk, calls
  <2>2. /\ stored \subseteq stored' /\ UNCHANGED <<pins, blockPins, acked>>
        /\ pc'[c] \notin Walking
        /\ op'[c] = None \/ (op'[c] = op[c] /\ cid'[c] = cid[c])
    BY <1>26
       DEF StartSwarmFails, Reject, Return, Goto, Inv, TypeOK, Walking, Starting, args,
           calls, store
  <2>3. QED
    BY <2>1, <2>2, OffWalk
<1>27. ASSUME NEW c \in Call, StartBrokerFails(c) PROVE Pinned'
  <2>1. \A e \in Call \ {c} : Alone(e)
    BY <1>27 DEF StartBrokerFails, Reject, Return, Goto, Inv, TypeOK, Alone, args, walk, calls
  <2>2. /\ stored \subseteq stored' /\ UNCHANGED <<pins, blockPins, acked>>
        /\ pc'[c] \notin Walking
        /\ op'[c] = None \/ (op'[c] = op[c] /\ cid'[c] = cid[c])
    BY <1>27
       DEF StartBrokerFails, Reject, Return, Goto, Inv, TypeOK, Walking, Starting, args,
           calls, store
  <2>3. QED
    BY <2>1, <2>2, OffWalk
<1>28. ASSUME NEW c \in Call, StopLeaveFails(c) PROVE Pinned'
  <2>1. \A e \in Call \ {c} : Alone(e)
    BY <1>28 DEF StopLeaveFails, Reject, Return, Goto, Inv, TypeOK, Alone, args, walk, calls
  <2>2. /\ stored \subseteq stored' /\ UNCHANGED <<pins, blockPins, acked>>
        /\ pc'[c] \notin Walking
        /\ op'[c] = None \/ (op'[c] = op[c] /\ cid'[c] = cid[c])
    BY <1>28
       DEF StopLeaveFails, Reject, Return, Goto, Inv, TypeOK, Walking, Starting, args,
           calls, store
  <2>3. QED
    BY <2>1, <2>2, OffWalk
<1>29. ASSUME NEW c \in Call, BodyFails(c) PROVE Pinned'
  <2>1. \A e \in Call \ {c} : Alone(e)
    BY <1>29 DEF BodyFails, Reject, Return, Goto, Inv, TypeOK, Alone, args, walk, calls
  <2>2. /\ stored \subseteq stored' /\ UNCHANGED <<pins, blockPins, acked>>
        /\ pc'[c] \notin Walking
        /\ op'[c] = None \/ (op'[c] = op[c] /\ cid'[c] = cid[c])
    BY <1>29
       DEF BodyFails, Reject, Return, Goto, Inv, TypeOK, Walking, Starting, args, calls,
           store
  <2>3. QED
    BY <2>1, <2>2, OffWalk
<1>30. ASSUME NEW c \in Call, BeginStop(c) PROVE Pinned'
  BY <1>30, BeginStopPinned
<1>31. ASSUME NEW c \in Call, StopWhenStopped(c) PROVE Pinned'
  BY <1>31, IdlePinned DEF StopWhenStopped, calls, args, walk
<1>32. ASSUME NEW c \in Call, NEW o \in AllOperations, NEW d \in Cid \cup {None},
             NEW l \in Nat, BeginStarted(c, o, d, l)
      PROVE  Pinned'
  BY <1>32, BeginStartedPinned
<1>33. ASSUME NEW c \in Call, NEW o \in AllOperations, NEW d \in Cid \cup {None},
             NEW l \in Nat, BeginStart(c, o, d, l)
      PROVE  Pinned'
  BY <1>33, BeginStartPinned
<1>34. ASSUME Visibility PROVE Pinned'
  BY <1>34, IdlePinned DEF Visibility, calls, args, walk
<1>35. ASSUME Reload PROVE Pinned'
  BY <1>35, ReloadPinned
<1>36. CASE UNCHANGED vars
  BY <1>36, IdlePinned DEF vars, calls, args, walk
<1>37. QED
  BY <1>1, <1>2, <1>3, <1>4, <1>5, <1>6, <1>7, <1>8, <1>9, <1>10, <1>11,
     <1>12, <1>13, <1>14, <1>15, <1>16, <1>17, <1>18, <1>19, <1>20,
     <1>21, <1>22, <1>23, <1>24, <1>25, <1>26, <1>27, <1>28, <1>29,
     <1>30, <1>31, <1>32, <1>33, <1>34, <1>35, <1>36, Steps DEF
     Progress, Fault

(* If callers wait for a pin or unpin of content that shares blocks, what  *)
(* was acknowledged stays pinned: for any contents, any calls under way,   *)
(* failures half-way and pages closed at any step.                         *)
THEOREM PinsProtected == ASSUME Serialised PROVE Spec => []PinnedIsProtected
<1>1. Init => Pinned
  <2>1. None \notin Pinning /\ None # "unpin"
    BY HeliaAssumption DEF AllOperations, Pinning
  <2>2. Sound(NoPin)
    BY FS_EmptySet DEF Sound, NoPin
  <2>3. QED
    BY <2>1, <2>2 DEF Init, Pinned, Exclusive, Counted, Roots, Works
<1>2. Inv /\ Pinned => PinnedIsProtected
  BY HeliaAssumption DEF Inv, TypeOK, Pinned, Counted, Sound, Roots, Holds, PinnedIsProtected
<1>3. Inv /\ Pinned /\ [Next]_vars => Pinned'
  BY PinnedStep
<1>4. QED
  BY Invariant, <1>1, <1>2, <1>3, PTL DEF Spec

-----------------------------------------------------------------------------
(* The lifecycle that status() reports is the truth about the node of the    *)
(* page, as long as nothing has disturbed it: no stop has overlapped another *)
(* call, no start failed beside another, and the page was not hidden.  And   *)
(* what the stores of the bundle make of it.                                 *)

(* The inductive invariant of the lifecycle. *)

\* At most one stop is under way, with no start beside it; when calm, one start.
Turns ==
  /\ \A c, e \in Call : pc[c] \in Stopping /\ pc[e] \in Starting \cup Stopping => c = e
  /\ \A c \in Call : pc[c] \in Stopping => node = "stopping"
  /\ node = "stopping" => InProgress(Stopping)
  /\ \A c \in Call : pc[c] \in Starting => node \in {"starting", "started"}
  /\ history = "calm" => \A c, e \in Call :
       pc[c] \in Starting => node = "starting" /\ (pc[e] \in Starting => c = e)

\* What status() reports follows the node.
Reported ==
  /\ node = "started" => lifecycle = "running"
  /\ lifecycle = "running" => node \in {"started", "stopping"}
  /\ lifecycle = "stopped" => node \in {"absent", "stopped"}

\* What becomes of the libp2p of the node, and of those being made.
Joined ==
  /\ current # 0 /\ swarms[current] = "starting" => InProgress({"join"})
  /\ current # 0 /\ swarms[current] = "stopping" => InProgress({"leave"})
  /\ \A c \in Call : pc[c] = "join" => swarm[c] = current /\ swarms[current] = "starting"
  /\ \A c, e \in Call : pc[c] = "join" /\ pc[e] = "join" => c = e
  /\ \A c \in Call : pc[c] = "leave" => swarm[c] = current
  /\ \A c \in Call : pc[c] = "create" =>
       /\ swarm[c] # current /\ swarms[swarm[c]] = "starting"
       /\ current = 0 \/ swarms[current] = "started"
       /\ \A e \in Call \ {c} : pc[e] = "create" => swarm[e] # swarm[c]
  /\ InProgress({"bitswap", "broker", "finish"}) \/ node = "started" =>
       swarms[current] \in {"started", "starting"}
  /\ InProgress({"settle"}) \/ node \in {"absent", "stopped"} =>
       current = 0 \/ swarms[current] = "stopped"

\* The brokers fetch through the libp2p of the node or one left running.
Brokered ==
  /\ \A s \in brokers : s = current \/ swarms[s] = "started"
  /\ \A c \in Call : pc[c] = "broker" =>
       swarm[c] = current \/ swarms[swarm[c]] = "started"
  /\ InProgress({"finish"}) \/ node = "started" => brokers # {}

\* With one start at a time there is one libp2p and one broker, on it.
Single ==
  /\ brokers \subseteq {current}
  /\ \A c \in Call : /\ pc[c] = "broker" => swarm[c] = current
                     /\ pc[c] = "create" => current = 0
  /\ \A s \in 1..Len(swarms) :
       \/ s = current \/ swarms[s] = "stopped"
       \/ \E c \in Call : pc[c] = "create" /\ swarm[c] = s

Orderly == Turns /\ Reported /\ Joined /\ Brokered /\ (history = "calm" => Single)
OrderInv == Inv /\ (history # "disturbed" => Orderly)

-----------------------------------------------------------------------------
(* How a step of call c changes what the invariant speaks of. *)

\* The other calls stay where they are.
Moves(c, label) ==
  /\ pc' = [pc EXCEPT ![c] = label]
  /\ \A e \in Call \ {c} : swarm'[e] = swarm[e]

Bounded ==
  /\ pc \in [Call -> {"idle"} \cup Starting \cup Stopping \cup Body]
  /\ swarm \in [Call -> 0..Len(swarms)]
  /\ swarms \in Seq(Statuses) /\ Len(swarms) \in Nat
  /\ current \in 0..Len(swarms)
  /\ brokers \subseteq 1..Len(swarms)
  /\ history \in {"calm", "overlapped", "disturbed"}
  /\ node = "started" => current # 0
  /\ \A c \in Call :
       /\ pc[c] \in {"join", "bitswap", "broker", "finish"} => current # 0
       /\ pc[c] \in {"create", "join", "leave", "broker"} => swarm[c] # 0

LEMMA InvBounded == Inv => Bounded
BY TypeGroups
   DEF Inv, Prepared, Connected, Bounded, PageType, NetType, CallType, Body

LEMMA StepMoves ==
  ASSUME CallType, NetType, NEW c \in Call
  PROVE  /\ \A label : Goto(c, label) /\ UNCHANGED swarm => Moves(c, label)
         /\ Return(c) => Moves(c, "idle")
         /\ Reject(c) => Moves(c, "idle")
BY DEF CallType, NetType, Moves, Goto, Return, Reject

\* A step of the body of a call, its beginning and its end.
LEMMA Aside ==
  ASSUME Bounded, Orderly, NEW c \in Call, NEW label \in {"idle"} \cup Body, Moves(c, label),
         pc[c] \in {"idle"} \cup Body, UNCHANGED <<lifecycle, node, net, history>>
  PROVE  Orderly'
<1> USE DEF Bounded, Moves, Starting, Stopping, Body, InProgress, net
<1>1. Turns'
  BY DEF Orderly, Turns
<1>2. Reported'
  BY DEF Orderly, Reported
<1>3. Joined'
  BY DEF Orderly, Joined
<1>4. Brokered'
  BY DEF Orderly, Brokered
<1>5. history' = "calm" => Single'
  BY DEF Orderly, Single
<1>6. QED
  BY <1>1, <1>2, <1>3, <1>4, <1>5 DEF Orderly

LEMMA BeginStartOrder ==
  ASSUME Inv, Orderly, NEW c \in Call, NEW o, NEW d, NEW l, BeginStart(c, o, d, l),
         history' # "disturbed"
  PROVE  Orderly'
<1> USE DEF Starting, Stopping, Body, InProgress, page, net, args, walk, store, bounds
<1>1. Bounded /\ CallType /\ NetType
  BY InvBounded, TypeGroups DEF Inv
<1>2. /\ pc[c] = "idle" /\ node # "started" /\ lifecycle' = "starting" /\ node' = "starting"
      /\ pc' = [pc EXCEPT ![c] = "version"] /\ UNCHANGED <<swarms, current, brokers, swarm>>
      /\ history' = Overlap(FALSE)
  BY DEF BeginStart, Request, Goto
<1>3. /\ history # "disturbed" /\ \A e \in Call : pc[e] \notin Stopping
      /\ history' = "calm" => history = "calm" /\ \A e \in Call : pc[e] \notin Starting
  BY <1>1, <1>2 DEF Overlap
<1>4. Turns'
  <2>1. pc'[c] = "version" /\ \A e \in Call \ {c} : pc'[e] = pc[e]
    BY <1>1, <1>2 DEF Bounded
  <2>2. QED
    BY <1>2, <1>3, <2>1 DEF Turns
<1>5. Reported'
  BY <1>1, <1>2, <1>3 DEF Orderly, Reported, Bounded, Turns
<1>6. Joined'
  BY <1>1, <1>2, <1>3 DEF Orderly, Joined, Bounded, Turns
<1>7. Brokered'
  BY <1>1, <1>2, <1>3 DEF Orderly, Brokered, Bounded, Turns
<1>8. history' = "calm" => Single'
  BY <1>1, <1>2, <1>3 DEF Orderly, Single, Bounded, Turns
<1>9. QED
  BY <1>4, <1>5, <1>6, <1>7, <1>8 DEF Orderly

LEMMA BeginStopOrder ==
  ASSUME Inv, Orderly, NEW c \in Call, BeginStop(c), history' # "disturbed"
  PROVE  Orderly'
<1> USE DEF Starting, Stopping, Body, InProgress, page, net, args, walk, store, bounds
<1>1. Bounded /\ CallType /\ NetType
  BY InvBounded, TypeGroups DEF Inv
<1>2. /\ pc[c] = "idle" /\ node \notin {"absent", "stopped"} /\ node' = "stopping"
      /\ UNCHANGED <<lifecycle, current, brokers>> /\ history' = Overlap(TRUE)
  BY DEF BeginStop, Request
<1>3. /\ history # "disturbed" /\ history' = history
      /\ \A e \in Call : pc[e] \notin Starting \cup Stopping
  BY <1>1, <1>2 DEF Overlap
<1>4. \/ /\ current # 0 /\ swarms[current] = "started"
         /\ swarms' = [swarms EXCEPT ![current] = "stopping"]
         /\ swarm' = [swarm EXCEPT ![c] = current]
         /\ pc' = [pc EXCEPT ![c] = "leave"]
      \/ /\ current = 0 \/ swarms[current] = "stopped"
         /\ UNCHANGED <<swarms, swarm>> /\ pc' = [pc EXCEPT ![c] = "settle"]
  <2>1. current # 0 => swarms[current] \in Statuses
    BY <1>1 DEF Bounded
  <2>2. current # 0 /\ swarms[current] # "started" => swarms[current] = "stopped"
    BY <1>3, <2>1 DEF Orderly, Joined, Statuses
  <2>3. QED
    BY <2>2 DEF BeginStop, Goto
<1>5. Turns'
  <2>1. pc'[c] \in Stopping /\ \A e \in Call \ {c} : pc'[e] = pc[e]
    BY <1>1, <1>4 DEF Bounded
  <2>2. QED
    BY <1>2, <1>3, <2>1 DEF Turns
<1>6. Reported'
  BY <1>1, <1>2, <1>3, <1>4 DEF Orderly, Reported, Bounded, Turns
<1>7. Joined'
  BY <1>1, <1>2, <1>3, <1>4 DEF Orderly, Joined, Bounded, Turns
<1>8. Brokered'
  BY <1>1, <1>2, <1>3, <1>4 DEF Orderly, Brokered, Bounded, Turns
<1>9. history' = "calm" => Single'
  BY <1>1, <1>2, <1>3, <1>4 DEF Orderly, Single, Bounded, Turns
<1>10. QED
  BY <1>5, <1>6, <1>7, <1>8, <1>9 DEF Orderly

LEMMA StopWhenStoppedOrder ==
  ASSUME Inv, Orderly, NEW c \in Call, StopWhenStopped(c), history' # "disturbed"
  PROVE  Orderly'
<1> USE DEF Starting, Stopping, Body, InProgress, page, net, args, walk, store, bounds
<1>1. Bounded /\ CallType /\ NetType
  BY InvBounded, TypeGroups DEF Inv
<1>2. /\ node \in {"absent", "stopped"} /\ lifecycle' = "stopped" /\ history' = Overlap(TRUE)
      /\ UNCHANGED <<node, swarms, current, brokers, swarm, pc>>
  BY DEF StopWhenStopped, calls
<1>3. history # "disturbed" /\ history' = history
  BY <1>1, <1>2 DEF Overlap
<1>4. Turns'
  BY <1>1, <1>2, <1>3 DEF Orderly, Turns, Bounded
<1>5. Reported'
  BY <1>1, <1>2, <1>3 DEF Orderly, Reported, Bounded, Turns
<1>6. Joined'
  BY <1>1, <1>2, <1>3 DEF Orderly, Joined, Bounded, Turns
<1>7. Brokered'
  BY <1>1, <1>2, <1>3 DEF Orderly, Brokered, Bounded, Turns
<1>8. history' = "calm" => Single'
  BY <1>1, <1>2, <1>3 DEF Orderly, Single, Bounded, Turns
<1>9. QED
  BY <1>4, <1>5, <1>6, <1>7, <1>8 DEF Orderly

LEMMA StartVersionOrder ==
  ASSUME Inv, Orderly, NEW c \in Call, StartVersion(c), history' # "disturbed"
  PROVE  Orderly'
<1> USE DEF Starting, Stopping, Body, InProgress, page, net, args, walk, store, bounds
<1>1. Bounded /\ CallType /\ NetType
  BY InvBounded, TypeGroups DEF Inv
<1>2. /\ pc[c] = "version" /\ UNCHANGED <<lifecycle, node, current, brokers, history>>
      /\ \/ /\ current = 0 /\ swarms' = Append(swarms, "starting")
            /\ swarm' = [swarm EXCEPT ![c] = Len(swarms) + 1]
            /\ pc' = [pc EXCEPT ![c] = "create"]
         \/ /\ current # 0 /\ swarms[current] = "stopped"
            /\ swarms' = [swarms EXCEPT ![current] = "starting"]
            /\ swarm' = [swarm EXCEPT ![c] = current] /\ pc' = [pc EXCEPT ![c] = "join"]
         \/ /\ current # 0 /\ swarms[current] # "stopped"
            /\ pc' = [pc EXCEPT ![c] = "bitswap"] /\ UNCHANGED <<swarms, swarm>>
  BY DEF StartVersion, Goto, NoSwarm, SwarmIsDown
<1>3. Turns'
  BY <1>1, <1>2 DEF Orderly, Turns, Bounded
<1>4. Reported'
  BY <1>1, <1>2 DEF Orderly, Reported, Bounded, Turns
<1>5. Joined'
  <2>1. CASE current = 0 /\ swarms' = Append(swarms, "starting")
    <3>1. /\ Len(swarms') = Len(swarms) + 1 /\ swarms'[Len(swarms) + 1] = "starting"
          /\ \A s \in 1..Len(swarms) : swarms'[s] = swarms[s]
      BY <1>1, <2>1 DEF Bounded
    <3>2. /\ swarm' = [swarm EXCEPT ![c] = Len(swarms) + 1]
          /\ pc' = [pc EXCEPT ![c] = "create"]
      BY <1>2, <2>1
    <3>3. QED
      BY <1>1, <1>2, <2>1, <3>1, <3>2 DEF Orderly, Joined, Turns, Bounded
  <2>2. CASE current # 0 /\ swarms[current] = "stopped"
    <3>1. /\ current \in 1..Len(swarms) /\ Len(swarms') = Len(swarms)
          /\ \A s \in 1..Len(swarms) :
               swarms'[s] = IF s = current THEN "starting" ELSE swarms[s]
      BY <1>1, <1>2, <2>2 DEF Bounded
    <3>2. /\ swarm' = [swarm EXCEPT ![c] = current] /\ pc' = [pc EXCEPT ![c] = "join"]
          /\ UNCHANGED <<node, current, brokers, history>> /\ pc[c] = "version"
      BY <1>2, <2>2
    <3>3. QED
      BY <1>1, <2>2, <3>1, <3>2 DEF Orderly, Joined, Turns, Bounded
  <2>3. CASE current # 0 /\ swarms[current] # "stopped"
    <3>1. swarms[current] \in {"starting", "started"}
      <4>1. swarms[current] \in Statuses
        BY <1>1, <2>3 DEF Bounded
      <4>2. \A e \in Call : pc[e] # "leave"
        BY <1>2 DEF Orderly, Turns
      <4>3. QED
        BY <2>3, <4>1, <4>2 DEF Statuses, Orderly, Joined
    <3>2. /\ UNCHANGED <<node, current, brokers, history, swarms, swarm>>
          /\ pc' = [pc EXCEPT ![c] = "bitswap"] /\ pc[c] = "version"
      BY <1>2, <2>3
    <3>3. QED
      BY <1>1, <2>3, <3>1, <3>2 DEF Orderly, Joined, Turns, Bounded
  <2>4. QED
    BY <1>2, <2>1, <2>2, <2>3
<1>6. Brokered'
  BY <1>1, <1>2 DEF Orderly, Brokered, Bounded, Turns
<1>7. history' = "calm" => Single'
  <2>1. CASE current = 0 /\ swarms' = Append(swarms, "starting")
    <3>1. /\ Len(swarms') = Len(swarms) + 1 /\ swarms'[Len(swarms) + 1] = "starting"
          /\ \A s \in 1..Len(swarms) : swarms'[s] = swarms[s]
      BY <1>1, <2>1 DEF Bounded
    <3>2. /\ swarm' = [swarm EXCEPT ![c] = Len(swarms) + 1]
          /\ pc' = [pc EXCEPT ![c] = "create"]
      BY <1>2, <2>1
    <3>3. QED
      BY <1>1, <1>2, <2>1, <3>1, <3>2 DEF Orderly, Single, Turns, Bounded
  <2>2. CASE current # 0 /\ swarms[current] = "stopped"
    <3>1. /\ current \in 1..Len(swarms) /\ Len(swarms') = Len(swarms)
          /\ \A s \in 1..Len(swarms) :
               swarms'[s] = IF s = current THEN "starting" ELSE swarms[s]
      BY <1>1, <1>2, <2>2 DEF Bounded
    <3>2. /\ swarm' = [swarm EXCEPT ![c] = current] /\ pc' = [pc EXCEPT ![c] = "join"]
          /\ UNCHANGED <<node, current, brokers, history>> /\ pc[c] = "version"
      BY <1>2, <2>2
    <3>3. QED
      BY <1>1, <2>2, <3>1, <3>2 DEF Orderly, Single, Turns, Bounded
  <2>3. CASE current # 0 /\ swarms[current] # "stopped"
    <3>1. swarms[current] \in {"starting", "started"}
      <4>1. swarms[current] \in Statuses
        BY <1>1, <2>3 DEF Bounded
      <4>2. \A e \in Call : pc[e] # "leave"
        BY <1>2 DEF Orderly, Turns
      <4>3. QED
        BY <2>3, <4>1, <4>2 DEF Statuses, Orderly, Joined
    <3>2. /\ UNCHANGED <<node, current, brokers, history, swarms, swarm>>
          /\ pc' = [pc EXCEPT ![c] = "bitswap"] /\ pc[c] = "version"
      BY <1>2, <2>3
    <3>3. QED
      BY <1>1, <2>3, <3>1, <3>2 DEF Orderly, Single, Turns, Bounded
  <2>4. QED
    BY <1>2, <2>1, <2>2, <2>3
<1>8. QED
  BY <1>3, <1>4, <1>5, <1>6, <1>7 DEF Orderly

LEMMA StartSwarmOrder ==
  ASSUME Inv, Orderly, NEW c \in Call, StartSwarm(c), history' # "disturbed"
  PROVE  Orderly'
<1> USE DEF Starting, Stopping, Body, InProgress, page, net, args, walk, store, bounds
<1>1. Bounded /\ CallType /\ NetType
  BY InvBounded, TypeGroups DEF Inv
<1>2. /\ pc[c] \in {"create", "join"} /\ UNCHANGED <<lifecycle, node, brokers, history, swarm>>
      /\ swarms' = [swarms EXCEPT ![swarm[c]] = "started"]
      /\ current' = IF pc[c] = "create" THEN swarm[c] ELSE current
      /\ pc' = [pc EXCEPT ![c] = "bitswap"]
  BY DEF StartSwarm, Goto
<1>3. /\ swarm[c] \in 1..Len(swarms) /\ Len(swarms') = Len(swarms)
      /\ \A s \in 1..Len(swarms) :
           swarms'[s] = IF s = swarm[c] THEN "started" ELSE swarms[s]
  BY <1>1, <1>2 DEF Bounded
<1>4. pc[c] = "join" => swarm[c] = current
  BY <1>2 DEF Orderly, Joined
<1>5. Turns'
  BY <1>1, <1>2, <1>3, <1>4 DEF Orderly, Turns, Bounded
<1>6. Reported'
  BY <1>1, <1>2, <1>3, <1>4 DEF Orderly, Reported, Bounded, Turns
<1>7. Joined'
  BY <1>1, <1>2, <1>3, <1>4 DEF Orderly, Joined, Bounded, Turns
<1>8. Brokered'
  <2>1. CASE pc[c] = "create"
    BY <1>1, <1>2, <1>3, <2>1 DEF Orderly, Brokered, Joined, Turns, Bounded
  <2>2. CASE pc[c] = "join"
    BY <1>1, <1>2, <1>3, <1>4, <2>2 DEF Orderly, Brokered, Joined, Turns, Bounded
  <2>3. QED
    BY <1>2, <2>1, <2>2
<1>9. history' = "calm" => Single'
  <2>1. CASE pc[c] = "create"
    BY <1>1, <1>2, <1>3, <2>1 DEF Orderly, Single, Turns, Joined, Bounded
  <2>2. CASE pc[c] = "join"
    BY <1>1, <1>2, <1>3, <1>4, <2>2 DEF Orderly, Single, Turns, Joined, Bounded
  <2>3. QED
    BY <1>2, <2>1, <2>2
<1>10. QED
  BY <1>5, <1>6, <1>7, <1>8, <1>9 DEF Orderly

\* A failing start is the only one, or the lifecycle is given up.
LEMMA StartSwarmFailsOrder ==
  ASSUME Inv, Orderly, NEW c \in Call, StartSwarmFails(c), history' # "disturbed"
  PROVE  Orderly'
<1> USE DEF Starting, Stopping, Body, InProgress, page, net, args, walk, store, bounds
<1>1. Bounded /\ CallType /\ NetType
  BY InvBounded, TypeGroups DEF Inv
<1>2. /\ pc[c] \in {"create", "join"} /\ UNCHANGED <<node, brokers, current>>
      /\ swarms' = [swarms EXCEPT ![swarm[c]] = "stopped"]
      /\ lifecycle' = "failed" /\ history = "calm" /\ history' = "calm"
      /\ pc' = [pc EXCEPT ![c] = "idle"] /\ swarm' = [swarm EXCEPT ![c] = 0]
  BY DEF StartSwarmFails, Reject, Return, Goto
<1>3. /\ swarm[c] \in 1..Len(swarms) /\ Len(swarms') = Len(swarms)
      /\ \A s \in 1..Len(swarms) :
           swarms'[s] = IF s = swarm[c] THEN "stopped" ELSE swarms[s]
  BY <1>1, <1>2 DEF Bounded
<1>4. Turns'
  BY <1>1, <1>2, <1>3 DEF Orderly, Turns, Bounded
<1>5. Reported'
  BY <1>1, <1>2, <1>3 DEF Orderly, Reported, Bounded, Turns
<1>6. Joined'
  BY <1>1, <1>2, <1>3 DEF Orderly, Joined, Bounded, Turns
<1>7. Brokered'
  BY <1>1, <1>2, <1>3 DEF Orderly, Brokered, Joined, Turns, Bounded
<1>8. history' = "calm" => Single'
  BY <1>1, <1>2, <1>3 DEF Orderly, Single, Bounded, Turns
<1>9. QED
  BY <1>4, <1>5, <1>6, <1>7, <1>8 DEF Orderly

\* The same for a start that fails before or after that.
LEMMA StartFailsOrder ==
  ASSUME Inv, Orderly, NEW c \in Call, pc[c] \in {"version", "broker"}, Reject(c),
         UNCHANGED <<node, net>>, history' # "disturbed"
  PROVE  Orderly'
<1> USE DEF Starting, Stopping, Body, InProgress, page, net, args, walk, store, bounds
<1>1. Bounded /\ CallType /\ NetType
  BY InvBounded, TypeGroups DEF Inv
<1>2. /\ UNCHANGED <<node, brokers, current, swarms>>
      /\ lifecycle' = "failed" /\ history = "calm" /\ history' = "calm"
      /\ pc' = [pc EXCEPT ![c] = "idle"] /\ swarm' = [swarm EXCEPT ![c] = 0]
  BY DEF Reject, Return, Goto
<1>3. Turns'
  BY <1>1, <1>2 DEF Orderly, Turns, Bounded
<1>4. Reported'
  BY <1>1, <1>2 DEF Orderly, Reported, Bounded, Turns
<1>5. Joined'
  BY <1>1, <1>2 DEF Orderly, Joined, Bounded, Turns
<1>6. Brokered'
  BY <1>1, <1>2 DEF Orderly, Brokered, Bounded, Turns
<1>7. history' = "calm" => Single'
  BY <1>1, <1>2 DEF Orderly, Single, Bounded, Turns
<1>8. QED
  BY <1>3, <1>4, <1>5, <1>6, <1>7 DEF Orderly

LEMMA StartBitswapOrder ==
  ASSUME Inv, Orderly, NEW c \in Call, StartBitswap(c), history' # "disturbed"
  PROVE  Orderly'
<1> USE DEF Starting, Stopping, Body, InProgress, page, net, args, walk, store, bounds
<1>1. Bounded /\ CallType /\ NetType
  BY InvBounded, TypeGroups DEF Inv
<1>2. /\ pc[c] = "bitswap" /\ UNCHANGED <<lifecycle, node, history, swarms, current, brokers>>
      /\ swarm' = [swarm EXCEPT ![c] = current]
      /\ \/ pc' = [pc EXCEPT ![c] = "broker"]
         \/ /\ node # "starting" \/ brokers # {}
            /\ pc' = [pc EXCEPT ![c] = "finish"]
  BY DEF StartBitswap, Goto
<1>3. Turns'
  BY <1>1, <1>2 DEF Orderly, Turns, Bounded
<1>4. Reported'
  BY <1>1, <1>2 DEF Orderly, Reported, Bounded, Turns
<1>5. Joined'
  BY <1>1, <1>2 DEF Orderly, Joined, Bounded, Turns
<1>6. Brokered'
  BY <1>1, <1>2 DEF Orderly, Brokered, Bounded, Turns
<1>7. history' = "calm" => Single'
  BY <1>1, <1>2 DEF Orderly, Single, Bounded, Turns
<1>8. QED
  BY <1>3, <1>4, <1>5, <1>6, <1>7 DEF Orderly

LEMMA StartBrokerOrder ==
  ASSUME Inv, Orderly, NEW c \in Call, StartBroker(c), history' # "disturbed"
  PROVE  Orderly'
<1> USE DEF Starting, Stopping, Body, InProgress, page, net, args, walk, store, bounds
<1>1. Bounded /\ CallType /\ NetType
  BY InvBounded, TypeGroups DEF Inv
<1>2. /\ pc[c] = "broker" /\ UNCHANGED <<lifecycle, node, history, swarms, current, swarm>>
      /\ brokers' = brokers \cup {swarm[c]} /\ pc' = [pc EXCEPT ![c] = "finish"]
  BY DEF StartBroker, Goto
<1>3. Turns'
  BY <1>1, <1>2 DEF Orderly, Turns, Bounded
<1>4. Reported'
  BY <1>1, <1>2 DEF Orderly, Reported, Bounded, Turns
<1>5. Joined'
  BY <1>1, <1>2 DEF Orderly, Joined, Bounded, Turns
<1>6. Brokered'
  BY <1>1, <1>2 DEF Orderly, Brokered, Bounded, Turns
<1>7. history' = "calm" => Single'
  BY <1>1, <1>2 DEF Orderly, Single, Bounded, Turns
<1>8. QED
  BY <1>3, <1>4, <1>5, <1>6, <1>7 DEF Orderly

LEMMA StartFinishOrder ==
  ASSUME Inv, Orderly, NEW c \in Call, StartFinish(c), history' # "disturbed"
  PROVE  Orderly'
<1> USE DEF Starting, Stopping, Body, InProgress, page, net, args, walk, store, bounds
<1>1. Bounded /\ CallType /\ NetType
  BY InvBounded, TypeGroups DEF Inv
<1>2. /\ pc[c] = "finish" /\ node' = "started" /\ lifecycle' = "running"
      /\ UNCHANGED <<history, swarms, current, brokers>> /\ swarm' = [swarm EXCEPT ![c] = 0]
      /\ \E label \in {"idle"} \cup Body : pc' = [pc EXCEPT ![c] = label]
  <2>1. op[c] # "start" => FirstStep(op[c]) \in Body
    BY <1>1, FirstStepType DEF Inv, Prepared, CallType, StartFinish
  <2>2. QED
    BY <2>1 DEF StartFinish, Return, Goto
<1>3. Turns'
  BY <1>1, <1>2 DEF Orderly, Turns, Bounded
<1>4. Reported'
  BY <1>1, <1>2 DEF Orderly, Reported, Bounded, Turns
<1>5. Joined'
  BY <1>1, <1>2 DEF Orderly, Joined, Bounded, Turns
<1>6. Brokered'
  BY <1>1, <1>2 DEF Orderly, Brokered, Bounded, Turns
<1>7. history' = "calm" => Single'
  BY <1>1, <1>2 DEF Orderly, Single, Bounded, Turns
<1>8. QED
  BY <1>3, <1>4, <1>5, <1>6, <1>7 DEF Orderly

LEMMA StopLeaveOrder ==
  ASSUME Inv, Orderly, NEW c \in Call, StopLeave(c), history' # "disturbed"
  PROVE  Orderly'
<1> USE DEF Starting, Stopping, Body, InProgress, page, net, args, walk, store, bounds
<1>1. Bounded /\ CallType /\ NetType
  BY InvBounded, TypeGroups DEF Inv
<1>2. /\ pc[c] = "leave" /\ UNCHANGED <<lifecycle, node, history, current, brokers, swarm>>
      /\ swarms' = [swarms EXCEPT ![swarm[c]] = "stopped"]
      /\ pc' = [pc EXCEPT ![c] = "settle"]
  BY DEF StopLeave, Goto
<1>3. /\ swarm[c] \in 1..Len(swarms) /\ Len(swarms') = Len(swarms)
      /\ \A s \in 1..Len(swarms) :
           swarms'[s] = IF s = swarm[c] THEN "stopped" ELSE swarms[s]
  BY <1>1, <1>2 DEF Bounded
<1>4. Turns'
  BY <1>1, <1>2, <1>3 DEF Orderly, Turns, Bounded
<1>5. Reported'
  BY <1>1, <1>2, <1>3 DEF Orderly, Reported, Bounded, Turns
<1>6. Joined'
  BY <1>1, <1>2, <1>3 DEF Orderly, Joined, Bounded, Turns
<1>7. Brokered'
  BY <1>1, <1>2, <1>3 DEF Orderly, Brokered, Joined, Turns, Bounded
<1>8. history' = "calm" => Single'
  BY <1>1, <1>2, <1>3 DEF Orderly, Single, Bounded, Turns
<1>9. QED
  BY <1>4, <1>5, <1>6, <1>7, <1>8 DEF Orderly

LEMMA StopSettleOrder ==
  ASSUME Inv, Orderly, NEW c \in Call, StopSettle(c), history' # "disturbed"
  PROVE  Orderly'
<1> USE DEF Starting, Stopping, Body, InProgress, page, net, args, walk, store, bounds
<1>1. Bounded /\ CallType /\ NetType
  BY InvBounded, TypeGroups DEF Inv
<1>2. /\ pc[c] = "settle" /\ node' = "stopped" /\ lifecycle' = "stopped"
      /\ UNCHANGED <<history, swarms, current, brokers>>
      /\ pc' = [pc EXCEPT ![c] = "idle"] /\ swarm' = [swarm EXCEPT ![c] = 0]
  BY DEF StopSettle, Return, Goto
<1>3. Turns'
  BY <1>1, <1>2 DEF Orderly, Turns, Bounded
<1>4. Reported'
  BY <1>1, <1>2 DEF Orderly, Reported, Bounded, Turns
<1>5. Joined'
  BY <1>1, <1>2 DEF Orderly, Joined, Bounded, Turns
<1>6. Brokered'
  BY <1>1, <1>2 DEF Orderly, Brokered, Bounded, Turns
<1>7. history' = "calm" => Single'
  BY <1>1, <1>2 DEF Orderly, Single, Bounded, Turns
<1>8. QED
  BY <1>3, <1>4, <1>5, <1>6, <1>7 DEF Orderly

\* The page opens with nothing under way.
LEMMA Fresh ==
  ASSUME lifecycle = "stopped", node = "absent", swarms = <<>>, current = 0, brokers = {},
         pc = [c \in Call |-> "idle"]
  PROVE  Orderly
BY DEF Orderly, Turns, Reported, Joined, Brokered, Single, Starting, Stopping, InProgress

LEMMA ReloadOrder == ASSUME Reload PROVE Orderly'
BY DEF Reload, Orderly, Turns, Reported, Joined, Brokered, Single, Starting, Stopping,
   InProgress

BodyStep(c) ==
  \/ Dial(c) \/ DialFails(c)
  \/ StoreBlock(c) \/ StoreEnds(c)
  \/ CatChunk(c) \/ CatExceeds(c) \/ CatTimeout(c) \/ CatEnds(c)
  \/ PinStart(c) \/ AlreadyPinned(c)
  \/ WalkBlock(c) \/ WalkUpdate(c) \/ WalkEnds(c)
  \/ UnpinRead(c) \/ UnpinAbsent(c) \/ UnpinForget(c)
  \/ BodyFails(c)

LEMMA BodyMoves ==
  ASSUME CallType, NetType, NEW c \in Call, BodyStep(c)
  PROVE  /\ pc[c] \in {"idle"} \cup Body
         /\ \E label \in {"idle"} \cup Body : Moves(c, label)
         /\ UNCHANGED <<lifecycle, node, net, history>>
<1> USE DEF page, net, args, calls, Body, Starting, Stopping
<1>1. CASE StoreBlock(c) \/ CatChunk(c)
  <2>1. UNCHANGED <<pc, swarm>> /\ pc[c] \in Body
    BY <1>1 DEF StoreBlock, CatChunk
  <2>2. Moves(c, pc[c])
    BY <2>1 DEF CallType, Moves
  <2>3. QED
    BY <1>1, <2>1, <2>2 DEF StoreBlock, CatChunk
<1>2. CASE StoreEnds(c) \/ CatEnds(c) \/ WalkEnds(c) \/ Dial(c)
  BY <1>2, StepMoves DEF StoreEnds, CatEnds, WalkEnds, Dial
<1>3. CASE \/ DialFails(c) \/ CatExceeds(c) \/ CatTimeout(c)
           \/ AlreadyPinned(c) \/ UnpinAbsent(c) \/ BodyFails(c)
  BY <1>3, StepMoves
     DEF DialFails, CatExceeds, CatTimeout, AlreadyPinned, UnpinAbsent, BodyFails, Reject,
         AtPin
<1>4. CASE \/ PinStart(c) \/ WalkBlock(c) \/ WalkUpdate(c)
           \/ UnpinRead(c) \/ UnpinForget(c)
  BY <1>4, StepMoves DEF PinStart, WalkBlock, WalkUpdate, UnpinRead, UnpinForget, Goto, AtPin
<1>5. QED
  BY <1>1, <1>2, <1>3, <1>4 DEF BodyStep

LEMMA OrderStep ==
  ASSUME OrderInv, [Next]_vars, history' # "disturbed"
  PROVE  Orderly'
<1>1. Inv /\ Bounded /\ CallType /\ NetType /\ (history # "disturbed" => Orderly)
  BY InvBounded, TypeGroups DEF OrderInv, Inv
<1>2. ASSUME NEW c \in Call, NEW label \in {"idle"} \cup Body, Moves(c, label),
             pc[c] \in {"idle"} \cup Body, UNCHANGED <<lifecycle, node, net, history>>
      PROVE  Orderly'
  BY <1>1, <1>2, Aside
<1>3. ASSUME NEW c \in Call, Progress(c) \/ Fault(c) PROVE Orderly'
  <2>1. CASE BodyStep(c)
    BY <1>1, <1>2, <2>1, BodyMoves
  <2>2. CASE StartVersion(c)
    BY <1>1, <2>2, StartVersionOrder DEF StartVersion
  <2>3. CASE StartSwarm(c)
    BY <1>1, <2>3, StartSwarmOrder DEF StartSwarm
  <2>4. CASE StartBitswap(c)
    BY <1>1, <2>4, StartBitswapOrder DEF StartBitswap, page
  <2>5. CASE StartBroker(c)
    BY <1>1, <2>5, StartBrokerOrder DEF StartBroker
  <2>6. CASE StartFinish(c)
    BY <1>1, <2>6, StartFinishOrder DEF StartFinish
  <2>7. CASE StopLeave(c)
    BY <1>1, <2>7, StopLeaveOrder DEF StopLeave
  <2>8. CASE StopSettle(c)
    BY <1>1, <2>8, StopSettleOrder DEF StopSettle
  <2>9. CASE StartSwarmFails(c)
    <3>1. history # "disturbed"
      BY <2>9 DEF StartSwarmFails, Reject, Starting
    <3>2. QED
      BY <1>1, <2>9, <3>1, StartSwarmFailsOrder
  <2>10. CASE StartUnopened(c) \/ StartVersionFails(c) \/ StartBrokerFails(c)
    <3>1. pc[c] \in {"version", "broker"} /\ Reject(c) /\ UNCHANGED <<node, net>>
      BY <2>10 DEF StartUnopened, StartVersionFails, StartBrokerFails
    <3>2. history # "disturbed"
      BY <3>1 DEF Reject, Starting
    <3>3. QED
      BY <1>1, <3>1, <3>2, StartFailsOrder
  <2>11. CASE StopLeaveFails(c)
    BY <2>11 DEF StopLeaveFails, Reject, Stopping
  <2>12. QED
    BY <1>3, <2>1, <2>2, <2>3, <2>4, <2>5, <2>6, <2>7, <2>8, <2>9, <2>10, <2>11
       DEF Progress, Fault, BodyStep
<1>4. ASSUME NEW c \in Call, BeginStop(c) \/ StopWhenStopped(c) PROVE Orderly'
  <2>1. history # "disturbed"
    BY <1>1, <1>4 DEF BeginStop, StopWhenStopped, Overlap
  <2>2. QED
    BY <1>1, <1>4, <2>1, BeginStopOrder, StopWhenStoppedOrder
<1>5. ASSUME NEW c \in Call, NEW o \in AllOperations, NEW d \in Cid \cup {None}, NEW l \in Nat,
             BeginStarted(c, o, d, l)
      PROVE  Orderly'
  <2>1. o \in AllOperations \ {"start", "stop"} /\ UNCHANGED <<page, swarm>>
    BY <1>5 DEF BeginStarted
  <2>2. FirstStep(o) \in Body /\ pc[c] = "idle" /\ Moves(c, FirstStep(o))
    BY <1>1, <1>5, <2>1, FirstStepType, StepMoves DEF BeginStarted, Request
  <2>3. QED
    BY <1>2, <2>1, <2>2 DEF page
<1>6. ASSUME NEW c \in Call, NEW o \in AllOperations, NEW d \in Cid \cup {None}, NEW l \in Nat,
             BeginStart(c, o, d, l)
      PROVE  Orderly'
  <2>1. history # "disturbed"
    BY <1>1, <1>6 DEF BeginStart, Overlap
  <2>2. QED
    BY <1>1, <1>6, <2>1, BeginStartOrder
<1>7. CASE Visibility
  BY <1>7 DEF Visibility
<1>8. CASE UNCHANGED vars
  <2>1. UNCHANGED <<lifecycle, node, swarms, current, brokers, history, pc, swarm>>
    BY <1>8 DEF vars, page, net, calls
  <2>2. QED
    BY <1>1, <2>1
       DEF Orderly, Turns, Reported, Joined, Brokered, Single, InProgress
<1>9. QED
  BY <1>3, <1>4, <1>5, <1>6, <1>7, <1>8, ReloadOrder, Steps

LEMMA OrderTells == OrderInv => HonestLifecycle
<1> SUFFICES ASSUME OrderInv, Quiet, history # "disturbed"
             PROVE  /\ lifecycle = "running" <=> node = "started"
                    /\ lifecycle = "running" => swarms[current] = "started" /\ CanFetch
                    /\ history = "calm" /\ lifecycle = "running" => current \in brokers
                    /\ history = "calm" /\ lifecycle = "stopped" =>
                         \A s \in DOMAIN swarms : swarms[s] = "stopped"
  BY DEF HonestLifecycle
<1>1. Orderly /\ Bounded /\ \A labels : "idle" \notin labels => ~InProgress(labels)
  BY InvBounded DEF OrderInv, Quiet, InProgress
<1>2. node # "stopping"
  BY <1>1 DEF Orderly, Turns, Stopping
<1>3. lifecycle = "running" <=> node = "started"
  BY <1>1, <1>2 DEF Orderly, Reported
<1>4. node = "started" => /\ swarms[current] = "started" /\ brokers # {}
                          /\ CanFetch
  BY <1>1 DEF Orderly, Joined, Brokered, Bounded, CanFetch
<1>5. history = "calm" /\ node = "started" => current \in brokers
  BY <1>1, <1>4 DEF Orderly, Single
<1>6. ASSUME history = "calm", lifecycle = "stopped", NEW s \in DOMAIN swarms
      PROVE  swarms[s] = "stopped"
  <2>1. current = 0 \/ swarms[current] = "stopped"
    BY <1>1, <1>6 DEF Orderly, Reported, Joined
  <2>2. s \in 1..Len(swarms)
    BY <1>1 DEF Bounded
  <2>3. QED
    BY <1>6, <2>1, <2>2, <1>1 DEF Orderly, Single, Quiet, Bounded
<1>7. QED
  BY <1>3, <1>4, <1>5, <1>6

\* Once no call is under way, status() says "running" of a started node on a running
\* libp2p with a broker that can fetch, and of no other; when no calls overlapped,
\* that broker is on the libp2p connect() dials, and "stopped" leaves none behind.
\* Any number of calls, failures of a lone start and closed pages are covered.
THEOREM Honest == Spec => []HonestLifecycle
<1>1. Init => OrderInv
  BY InitInv, Fresh DEF Init, OrderInv
<1>2. OrderInv /\ [Next]_vars => OrderInv'
  BY TypeStep, PreparedStep, ConnectedStep, OrderStep DEF OrderInv, Inv
<1>3. QED
  BY <1>1, <1>2, OrderTells, PTL DEF Spec

-----------------------------------------------------------------------------
(* What a walk waits for.  Nothing removes a block: a content with a pin    *)
(* record is stored as a whole, so that an unpin finds what it walks, and   *)
(* so does the pin of what was just added.                                  *)

Supplied(c) ==
  /\ pc[c] = "store" => op[c] \in {"add", "add_pin"}
  /\ pc[c] = "pin" => op[c] = "pin"
  /\ pc[c] \in {"unpin", "forget"} => op[c] = "unpin"
  /\ pc[c] \in {"walk", "update"} => op[c] \in Pinning
  /\ pc[c] \in {"store", "walk", "update"} => Dag[cid[c]] \ todo[c] \subseteq stored
  /\ pc[c] \in {"walk", "update"} /\ op[c] # "pin" => Dag[cid[c]] \subseteq stored
  /\ pc[c] \in {"store", "walk", "update"} => todo[c] \subseteq Dag[cid[c]]
  /\ pc[c] = "update" => block[c] \in stored
  /\ pc[c] = "forget" => Dag[cid[c]] \subseteq stored

Complete == \A d \in pins : Dag[d] \subseteq stored

Supply == Complete /\ \A c \in Call : Supplied(c)

Busy == {"store"} \cup Walking

LEMMA OtherSupplied ==
  ASSUME Supply, NEW e \in Call, Alone(e), stored \subseteq stored'
  PROVE  Supplied(e)'
<1>1. Supplied(e)
  BY DEF Supply
<1>2. QED
  BY <1>1 DEF Supplied, Alone

(* A step that pins nothing and leaves its call where it needs no block. *)
LEMMA OffSupply ==
  ASSUME Supply, NEW c \in Call, \A e \in Call \ {c} : Alone(e),
         stored \subseteq stored', pins' \subseteq pins, pc'[c] \notin Busy
  PROVE  Supply'
<1>1. Supplied(c)'
  BY DEF Supplied, Busy, Walking
<1>2. \A e \in Call : Supplied(e)'
  BY <1>1, OtherSupplied
<1>3. Complete'
  BY DEF Supply, Complete
<1>4. QED
  BY <1>2, <1>3 DEF Supply

LEMMA OnSupply ==
  ASSUME Supply, NEW c \in Call, \A e \in Call \ {c} : Alone(e),
         stored \subseteq stored', pins' \subseteq pins, Supplied(c)'
  PROVE  Supply'
<1>1. \A e \in Call : Supplied(e)'
  BY OtherSupplied
<1>2. Complete'
  BY DEF Supply, Complete
<1>3. QED
  BY <1>1, <1>2 DEF Supply

LEMMA FirstStepSupply ==
  ASSUME NEW o \in AllOperations, FirstStep(o) \in Busy
  PROVE  /\ FirstStep(o) \in {"store", "pin", "unpin"}
         /\ FirstStep(o) = "store" => o \in {"add", "add_pin"}
         /\ FirstStep(o) # "store" => o = FirstStep(o)
BY DEF AllOperations, FirstStep, Busy, Walking

LEMMA StartFinishSupply ==
  ASSUME Inv, Supply, NEW c \in Call, StartFinish(c)
  PROVE  Supply'
<1>1. \A e \in Call \ {c} : Alone(e)
  BY DEF StartFinish, Return, Goto, Inv, TypeOK, Alone, args
<1>2. stored' = stored /\ pins' = pins
  BY DEF StartFinish, store
<1>3. CASE op[c] = "start"
  <2>1. pc'[c] = "idle"
    BY <1>3 DEF StartFinish, Return, Goto, Inv, TypeOK
  <2>2. QED
    BY <1>1, <1>2, <2>1, OffSupply DEF Busy, Walking
<1>4. CASE op[c] # "start"
  <2>1. op[c] \in AllOperations
    BY DEF StartFinish, Inv, TypeOK, Prepared, Starting
  <2>2. /\ pc'[c] = FirstStep(op[c]) /\ UNCHANGED <<op, cid>>
        /\ todo'[c] = IF cid[c] = None THEN {} ELSE Dag[cid[c]]
    BY <1>4 DEF StartFinish, Goto, Inv, TypeOK, args
  <2>3. op[c] \in {"add", "add_pin"} => cid[c] # None
    BY HeliaAssumption DEF Inv, Prepared, Contents
  <2>4. Supplied(c)' \/ pc'[c] \notin Busy
    BY <2>1, <2>2, <2>3, FirstStepSupply DEF Supplied
  <2>5. QED
    BY <1>1, <1>2, <2>4, OnSupply, OffSupply
<1>5. QED
  BY <1>3, <1>4

LEMMA BeginStartedSupply ==
  ASSUME Inv, Supply, NEW c \in Call, NEW o \in AllOperations,
         NEW d \in Cid \cup {None}, NEW l \in Nat, BeginStarted(c, o, d, l)
  PROVE  Supply'
<1>1. \A e \in Call \ {c} : Alone(e)
  BY DEF BeginStarted, Request, Goto, Inv, TypeOK, Alone
<1>2. stored' = stored /\ pins' = pins
  BY DEF BeginStarted, Request
<1>3. /\ pc'[c] = FirstStep(o) /\ op'[c] = o /\ cid'[c] = d
      /\ todo'[c] = IF d = None THEN {} ELSE Dag[d]
  BY DEF BeginStarted, Request, Goto, Inv, TypeOK
<1>4. o \in {"add", "add_pin"} => d # None
  BY DEF BeginStarted, Request
<1>5. Supplied(c)' \/ pc'[c] \notin Busy
  BY <1>3, <1>4, FirstStepSupply DEF Supplied
<1>6. QED
  BY <1>1, <1>2, <1>5, OnSupply, OffSupply

LEMMA StoreBlockSupply ==
  ASSUME Inv, Supply, NEW c \in Call, StoreBlock(c)
  PROVE  Supply'
<1>1. \A e \in Call \ {c} : Alone(e)
  BY DEF StoreBlock, Inv, TypeOK, Alone, args
<1>2. PICK b \in todo[c] : stored' = stored \cup {b} /\ todo'[c] = todo[c] \ {b}
  BY DEF StoreBlock, Inv, TypeOK
<1>3. pc[c] = "store" /\ UNCHANGED <<pc, op, cid, pins>>
  BY DEF StoreBlock, args
<1>4. Supplied(c)'
  BY <1>2, <1>3 DEF Supply, Supplied
<1>5. QED
  BY <1>1, <1>2, <1>3, <1>4, OnSupply

LEMMA PinStartSupply ==
  ASSUME Inv, Supply, NEW c \in Call, PinStart(c)
  PROVE  Supply'
<1>1. \A e \in Call \ {c} : Alone(e)
  BY DEF PinStart, Goto, Inv, TypeOK, Alone, args
<1>2. /\ pc'[c] = "walk" /\ todo'[c] = Dag[cid[c]]
      /\ UNCHANGED <<op, cid, store>>
  BY DEF PinStart, Goto, Inv, TypeOK, args
<1>3. \/ op[c] = "pin"
      \/ op[c] = "add_pin" /\ Dag[cid[c]] \subseteq stored
  BY DEF PinStart, AtPin, Supply, Supplied
<1>4. Supplied(c)'
  BY <1>2, <1>3 DEF Supplied, Pinning, store
<1>5. QED
  BY <1>1, <1>2, <1>4, OnSupply DEF store

LEMMA WalkBlockSupply ==
  ASSUME Inv, Supply, NEW c \in Call, WalkBlock(c)
  PROVE  Supply'
<1>1. \A e \in Call \ {c} : Alone(e)
  BY DEF WalkBlock, Goto, Inv, TypeOK, Alone, args
<1>2. PICK b \in todo[c] : stored' = stored \cup {b} /\ block'[c] = b
  BY DEF WalkBlock, Inv, TypeOK
<1>3. /\ pc[c] = "walk" /\ pc'[c] = "update" /\ UNCHANGED <<op, cid, todo, pins>>
  BY DEF WalkBlock, Goto, Inv, TypeOK, args
<1>4. Supplied(c)'
  BY <1>2, <1>3 DEF Supply, Supplied
<1>5. QED
  BY <1>1, <1>2, <1>3, <1>4, OnSupply

LEMMA WalkUpdateSupply ==
  ASSUME Inv, Supply, NEW c \in Call, WalkUpdate(c)
  PROVE  Supply'
<1>1. \A e \in Call \ {c} : Alone(e)
  BY DEF WalkUpdate, Goto, Inv, TypeOK, Alone, args
<1>2. /\ pc[c] = "update" /\ pc'[c] = "walk" /\ todo'[c] = todo[c] \ {block[c]}
      /\ UNCHANGED <<op, cid, stored, pins>>
  BY DEF WalkUpdate, Goto, Inv, TypeOK, args
<1>3. Supplied(c)'
  BY <1>2 DEF Supply, Supplied
<1>4. QED
  BY <1>1, <1>2, <1>3, OnSupply

LEMMA WalkEndsSupply ==
  ASSUME Inv, Supply, NEW c \in Call, WalkEnds(c)
  PROVE  Supply'
<1>1. \A e \in Call \ {c} : Alone(e)
  BY DEF WalkEnds, Return, Goto, Inv, TypeOK, Alone
<1>2. /\ pc'[c] = "idle" /\ stored' = stored
      /\ pins' = pins \/ pins' = pins \cup {cid[c]}
  BY DEF WalkEnds, Return, Goto, Inv, TypeOK
<1>3. Dag[cid[c]] \subseteq stored
  BY DEF WalkEnds, Supply, Supplied
<1>4. Complete'
  BY <1>2, <1>3 DEF Supply, Complete
<1>5. \A e \in Call : Supplied(e)'
  BY <1>1, <1>2, OtherSupplied DEF Supplied
<1>6. QED
  BY <1>4, <1>5 DEF Supply

LEMMA UnpinReadSupply ==
  ASSUME Inv, Supply, NEW c \in Call, UnpinRead(c)
  PROVE  Supply'
<1>1. \A e \in Call \ {c} : Alone(e)
  BY DEF UnpinRead, Goto, Inv, TypeOK, Alone, args, walk
<1>2. /\ pc[c] = "unpin" /\ cid[c] \in pins /\ pc'[c] = "forget"
      /\ UNCHANGED <<op, cid, stored, pins>>
  BY DEF UnpinRead, Goto, Inv, TypeOK, args, store
<1>3. Supplied(c)'
  BY <1>2 DEF Supply, Supplied, Complete
<1>4. QED
  BY <1>1, <1>2, <1>3, OnSupply

LEMMA UnpinForgetSupply ==
  ASSUME Inv, Supply, NEW c \in Call, UnpinForget(c)
  PROVE  Supply'
<1>1. \A e \in Call \ {c} : Alone(e)
  BY DEF UnpinForget, Goto, Inv, TypeOK, Alone, args
<1>2. /\ pc[c] = "forget" /\ pc'[c] = "walk" /\ todo'[c] = Dag[cid[c]]
      /\ pins' \subseteq pins /\ UNCHANGED <<op, cid, stored>>
  BY DEF UnpinForget, Goto, Inv, TypeOK, args
<1>3. Supplied(c)'
  BY <1>2 DEF Supply, Supplied, Pinning
<1>4. QED
  BY <1>1, <1>2, <1>3, OnSupply

(* A step that moves no call and stores nothing. *)
LEMMA IdleSupply ==
  ASSUME Supply, UNCHANGED <<pc, op, cid, todo, block, stored, pins>>
  PROVE  Supply'
BY DEF Supply, Supplied, Complete

LEMMA SupplyStep ==
  ASSUME Inv, Supply, [Next]_vars
  PROVE  Supply'
<1>1. ASSUME NEW c \in Call, StartVersion(c) PROVE Supply'
  <2>1. \A e \in Call \ {c} : Alone(e)
    BY <1>1
       DEF StartVersion, NoSwarm, SwarmIsDown, Goto, Inv, TypeOK, Alone, args, walk,
           calls
  <2>2. stored \subseteq stored' /\ pins' = pins /\ pc'[c] \notin Busy
    BY <1>1
       DEF StartVersion, NoSwarm, SwarmIsDown, Goto, Inv, TypeOK, Busy, Walking,
           Starting, args, calls, store
  <2>3. QED
    BY <2>1, <2>2, OffSupply
<1>2. ASSUME NEW c \in Call, StartUnopened(c) PROVE Supply'
  <2>1. \A e \in Call \ {c} : Alone(e)
    BY <1>2
       DEF StartUnopened, Reject, Return, Goto, Inv, TypeOK, Alone, args, walk, calls
  <2>2. stored \subseteq stored' /\ pins' = pins /\ pc'[c] \notin Busy
    BY <1>2
       DEF StartUnopened, Reject, Return, Goto, Inv, TypeOK, Busy, Walking, Starting,
           args, calls, store
  <2>3. QED
    BY <2>1, <2>2, OffSupply
<1>3. ASSUME NEW c \in Call, StartSwarm(c) PROVE Supply'
  <2>1. \A e \in Call \ {c} : Alone(e)
    BY <1>3
       DEF StartSwarm, Goto, Inv, TypeOK, Alone, args, walk, calls
  <2>2. stored \subseteq stored' /\ pins' = pins /\ pc'[c] \notin Busy
    BY <1>3
       DEF StartSwarm, Goto, Inv, TypeOK, Busy, Walking, Starting, args, calls, store
  <2>3. QED
    BY <2>1, <2>2, OffSupply
<1>4. ASSUME NEW c \in Call, StartBitswap(c) PROVE Supply'
  <2>1. \A e \in Call \ {c} : Alone(e)
    BY <1>4
       DEF StartBitswap, Goto, Inv, TypeOK, Alone, args, walk, calls
  <2>2. stored \subseteq stored' /\ pins' = pins /\ pc'[c] \notin Busy
    BY <1>4
       DEF StartBitswap, Goto, Inv, TypeOK, Busy, Walking, Starting, args, calls, store
  <2>3. QED
    BY <2>1, <2>2, OffSupply
<1>5. ASSUME NEW c \in Call, StartBroker(c) PROVE Supply'
  <2>1. \A e \in Call \ {c} : Alone(e)
    BY <1>5
       DEF StartBroker, Goto, Inv, TypeOK, Alone, args, walk, calls
  <2>2. stored \subseteq stored' /\ pins' = pins /\ pc'[c] \notin Busy
    BY <1>5
       DEF StartBroker, Goto, Inv, TypeOK, Busy, Walking, Starting, args, calls, store
  <2>3. QED
    BY <2>1, <2>2, OffSupply
<1>6. ASSUME NEW c \in Call, StartFinish(c) PROVE Supply'
  BY <1>6, StartFinishSupply
<1>7. ASSUME NEW c \in Call, StopLeave(c) PROVE Supply'
  <2>1. \A e \in Call \ {c} : Alone(e)
    BY <1>7
       DEF StopLeave, Goto, Inv, TypeOK, Alone, args, walk, calls
  <2>2. stored \subseteq stored' /\ pins' = pins /\ pc'[c] \notin Busy
    BY <1>7
       DEF StopLeave, Goto, Inv, TypeOK, Busy, Walking, Starting, args, calls, store
  <2>3. QED
    BY <2>1, <2>2, OffSupply
<1>8. ASSUME NEW c \in Call, StopSettle(c) PROVE Supply'
  <2>1. \A e \in Call \ {c} : Alone(e)
    BY <1>8
       DEF StopSettle, Return, Goto, Inv, TypeOK, Alone, args, walk, calls
  <2>2. stored \subseteq stored' /\ pins' = pins /\ pc'[c] \notin Busy
    BY <1>8
       DEF StopSettle, Return, Goto, Inv, TypeOK, Busy, Walking, Starting, args, calls,
           store
  <2>3. QED
    BY <2>1, <2>2, OffSupply
<1>9. ASSUME NEW c \in Call, Dial(c) PROVE Supply'
  <2>1. \A e \in Call \ {c} : Alone(e)
    BY <1>9
       DEF Dial, Return, Goto, Inv, TypeOK, Alone, args, walk, calls
  <2>2. stored \subseteq stored' /\ pins' = pins /\ pc'[c] \notin Busy
    BY <1>9
       DEF Dial, Return, Goto, Inv, TypeOK, Busy, Walking, Starting, args, calls, store
  <2>3. QED
    BY <2>1, <2>2, OffSupply
<1>10. ASSUME NEW c \in Call, DialFails(c) PROVE Supply'
  <2>1. \A e \in Call \ {c} : Alone(e)
    BY <1>10
       DEF DialFails, Reject, Return, Goto, Inv, TypeOK, Alone, args, walk, calls
  <2>2. stored \subseteq stored' /\ pins' = pins /\ pc'[c] \notin Busy
    BY <1>10
       DEF DialFails, Reject, Return, Goto, Inv, TypeOK, Busy, Walking, Starting, args,
           calls, store
  <2>3. QED
    BY <2>1, <2>2, OffSupply
<1>11. ASSUME NEW c \in Call, StoreBlock(c) PROVE Supply'
  BY <1>11, StoreBlockSupply
<1>12. ASSUME NEW c \in Call, StoreEnds(c) PROVE Supply'
  <2>1. \A e \in Call \ {c} : Alone(e)
    BY <1>12
       DEF StoreEnds, Return, Goto, Inv, TypeOK, Alone, args, walk, calls
  <2>2. stored \subseteq stored' /\ pins' = pins /\ pc'[c] \notin Busy
    BY <1>12
       DEF StoreEnds, Return, Goto, Inv, TypeOK, Busy, Walking, Starting, args, calls,
           store
  <2>3. QED
    BY <2>1, <2>2, OffSupply
<1>13. ASSUME NEW c \in Call, CatChunk(c) PROVE Supply'
  <2>1. \A e \in Call \ {c} : Alone(e)
    BY <1>13
       DEF CatChunk, Goto, Inv, TypeOK, Alone, args, walk, calls
  <2>2. stored \subseteq stored' /\ pins' = pins /\ pc'[c] \notin Busy
    BY <1>13
       DEF CatChunk, Goto, Inv, TypeOK, Busy, Walking, Starting, args, calls, store
  <2>3. QED
    BY <2>1, <2>2, OffSupply
<1>14. ASSUME NEW c \in Call, CatExceeds(c) PROVE Supply'
  <2>1. \A e \in Call \ {c} : Alone(e)
    BY <1>14
       DEF CatExceeds, Reject, Return, Goto, Inv, TypeOK, Alone, args, walk, calls
  <2>2. stored \subseteq stored' /\ pins' = pins /\ pc'[c] \notin Busy
    BY <1>14
       DEF CatExceeds, Reject, Return, Goto, Inv, TypeOK, Busy, Walking, Starting,
           args, calls, store
  <2>3. QED
    BY <2>1, <2>2, OffSupply
<1>15. ASSUME NEW c \in Call, CatTimeout(c) PROVE Supply'
  <2>1. \A e \in Call \ {c} : Alone(e)
    BY <1>15
       DEF CatTimeout, Reject, Return, Goto, Inv, TypeOK, Alone, args, walk, calls
  <2>2. stored \subseteq stored' /\ pins' = pins /\ pc'[c] \notin Busy
    BY <1>15
       DEF CatTimeout, Reject, Return, Goto, Inv, TypeOK, Busy, Walking, Starting,
           args, calls, store
  <2>3. QED
    BY <2>1, <2>2, OffSupply
<1>16. ASSUME NEW c \in Call, CatEnds(c) PROVE Supply'
  <2>1. \A e \in Call \ {c} : Alone(e)
    BY <1>16
       DEF CatEnds, Return, Goto, Inv, TypeOK, Alone, args, walk, calls
  <2>2. stored \subseteq stored' /\ pins' = pins /\ pc'[c] \notin Busy
    BY <1>16
       DEF CatEnds, Return, Goto, Inv, TypeOK, Busy, Walking, Starting, args, calls,
           store
  <2>3. QED
    BY <2>1, <2>2, OffSupply
<1>17. ASSUME NEW c \in Call, PinStart(c) PROVE Supply'
  BY <1>17, PinStartSupply
<1>18. ASSUME NEW c \in Call, AlreadyPinned(c) PROVE Supply'
  <2>1. \A e \in Call \ {c} : Alone(e)
    BY <1>18
       DEF AlreadyPinned, Reject, Return, Goto, Inv, TypeOK, Alone, args, walk, calls
  <2>2. stored \subseteq stored' /\ pins' = pins /\ pc'[c] \notin Busy
    BY <1>18
       DEF AlreadyPinned, Reject, Return, Goto, Inv, TypeOK, Busy, Walking, Starting,
           args, calls, store
  <2>3. QED
    BY <2>1, <2>2, OffSupply
<1>19. ASSUME NEW c \in Call, WalkBlock(c) PROVE Supply'
  BY <1>19, WalkBlockSupply
<1>20. ASSUME NEW c \in Call, WalkUpdate(c) PROVE Supply'
  BY <1>20, WalkUpdateSupply
<1>21. ASSUME NEW c \in Call, WalkEnds(c) PROVE Supply'
  BY <1>21, WalkEndsSupply
<1>22. ASSUME NEW c \in Call, UnpinRead(c) PROVE Supply'
  BY <1>22, UnpinReadSupply
<1>23. ASSUME NEW c \in Call, UnpinAbsent(c) PROVE Supply'
  <2>1. \A e \in Call \ {c} : Alone(e)
    BY <1>23
       DEF UnpinAbsent, Reject, Return, Goto, Inv, TypeOK, Alone, args, walk, calls
  <2>2. stored \subseteq stored' /\ pins' = pins /\ pc'[c] \notin Busy
    BY <1>23
       DEF UnpinAbsent, Reject, Return, Goto, Inv, TypeOK, Busy, Walking, Starting,
           args, calls, store
  <2>3. QED
    BY <2>1, <2>2, OffSupply
<1>24. ASSUME NEW c \in Call, UnpinForget(c) PROVE Supply'
  BY <1>24, UnpinForgetSupply
<1>25. ASSUME NEW c \in Call, StartVersionFails(c) PROVE Supply'
  <2>1. \A e \in Call \ {c} : Alone(e)
    BY <1>25
       DEF StartVersionFails, Reject, Return, Goto, Inv, TypeOK, Alone, args, walk,
           calls
  <2>2. stored \subseteq stored' /\ pins' = pins /\ pc'[c] \notin Busy
    BY <1>25
       DEF StartVersionFails, Reject, Return, Goto, Inv, TypeOK, Busy, Walking,
           Starting, args, calls, store
  <2>3. QED
    BY <2>1, <2>2, OffSupply
<1>26. ASSUME NEW c \in Call, StartSwarmFails(c) PROVE Supply'
  <2>1. \A e \in Call \ {c} : Alone(e)
    BY <1>26
       DEF StartSwarmFails, Reject, Return, Goto, Inv, TypeOK, Alone, args, walk, calls
  <2>2. stored \subseteq stored' /\ pins' = pins /\ pc'[c] \notin Busy
    BY <1>26
       DEF StartSwarmFails, Reject, Return, Goto, Inv, TypeOK, Busy, Walking, Starting,
           args, calls, store
  <2>3. QED
    BY <2>1, <2>2, OffSupply
<1>27. ASSUME NEW c \in Call, StartBrokerFails(c) PROVE Supply'
  <2>1. \A e \in Call \ {c} : Alone(e)
    BY <1>27
       DEF StartBrokerFails, Reject, Return, Goto, Inv, TypeOK, Alone, args, walk,
           calls
  <2>2. stored \subseteq stored' /\ pins' = pins /\ pc'[c] \notin Busy
    BY <1>27
       DEF StartBrokerFails, Reject, Return, Goto, Inv, TypeOK, Busy, Walking,
           Starting, args, calls, store
  <2>3. QED
    BY <2>1, <2>2, OffSupply
<1>28. ASSUME NEW c \in Call, StopLeaveFails(c) PROVE Supply'
  <2>1. \A e \in Call \ {c} : Alone(e)
    BY <1>28
       DEF StopLeaveFails, Reject, Return, Goto, Inv, TypeOK, Alone, args, walk, calls
  <2>2. stored \subseteq stored' /\ pins' = pins /\ pc'[c] \notin Busy
    BY <1>28
       DEF StopLeaveFails, Reject, Return, Goto, Inv, TypeOK, Busy, Walking, Starting,
           args, calls, store
  <2>3. QED
    BY <2>1, <2>2, OffSupply
<1>29. ASSUME NEW c \in Call, BodyFails(c) PROVE Supply'
  <2>1. \A e \in Call \ {c} : Alone(e)
    BY <1>29
       DEF BodyFails, Reject, Return, Goto, Inv, TypeOK, Alone, args, walk, calls
  <2>2. stored \subseteq stored' /\ pins' = pins /\ pc'[c] \notin Busy
    BY <1>29
       DEF BodyFails, Reject, Return, Goto, Inv, TypeOK, Busy, Walking, Starting, args,
           calls, store
  <2>3. QED
    BY <2>1, <2>2, OffSupply
<1>30. ASSUME NEW c \in Call, BeginStop(c) PROVE Supply'
  <2>1. \A e \in Call \ {c} : Alone(e)
    BY <1>30
       DEF BeginStop, Request, Goto, Inv, TypeOK, Alone, args, walk, calls
  <2>2. stored \subseteq stored' /\ pins' = pins /\ pc'[c] \notin Busy
    BY <1>30
       DEF BeginStop, Request, Goto, Inv, TypeOK, Busy, Walking, Starting, args, calls,
           store
  <2>3. QED
    BY <2>1, <2>2, OffSupply
<1>31. ASSUME NEW c \in Call, StopWhenStopped(c) PROVE Supply'
  BY <1>31, IdleSupply DEF StopWhenStopped, calls, args, walk, store
<1>32. ASSUME NEW c \in Call, NEW o \in AllOperations, NEW d \in Cid \cup {None},
             NEW l \in Nat, BeginStarted(c, o, d, l)
      PROVE  Supply'
  BY <1>32, BeginStartedSupply
<1>33. ASSUME NEW c \in Call, NEW o \in AllOperations, NEW d \in Cid \cup {None},
             NEW l \in Nat, BeginStart(c, o, d, l)
      PROVE  Supply'
  <2>1. \A e \in Call \ {c} : Alone(e)
    BY <1>33 DEF BeginStart, Request, Goto, Inv, TypeOK, Alone, walk
  <2>2. stored' = stored /\ pins' = pins /\ pc'[c] \notin Busy
    BY <1>33 DEF BeginStart, Request, Goto, Inv, TypeOK, Busy, Walking
  <2>3. QED
    BY <2>1, <2>2, OffSupply
<1>34. ASSUME Visibility PROVE Supply'
  BY <1>34, IdleSupply DEF Visibility, calls, args, walk, store
<1>35. ASSUME Reload PROVE Supply'
  BY <1>35 DEF Reload, Supply, Supplied, Complete, store
<1>36. CASE UNCHANGED vars
  BY <1>36, IdleSupply DEF vars, calls, args, walk, store
<1>37. QED
  BY <1>1, <1>2, <1>3, <1>4, <1>5, <1>6, <1>7, <1>8, <1>9, <1>10, <1>11, <1>12,
     <1>13, <1>14, <1>15, <1>16, <1>17, <1>18, <1>19, <1>20, <1>21, <1>22, <1>23,
     <1>24, <1>25, <1>26, <1>27, <1>28, <1>29, <1>30, <1>31, <1>32, <1>33, <1>34,
     <1>35, <1>36, Steps DEF Progress, Fault

LEMMA Supplies == Spec => [](Inv /\ Supply)
<1>1. Init => Supply
  BY DEF Init, Supply, Supplied, Complete
<1>2. QED
  BY Invariant, SupplyStep, <1>1, PTL DEF Spec

(* What has a pin record is stored as a whole, whichever calls overlap or  *)
(* fail and whenever the page is closed, also when two pins of contents    *)
(* with common blocks spoil one another's records.                         *)
THEOREM PinsStored == Spec => []Complete
<1>1. Inv /\ Supply => Complete
  BY DEF Supply
<1>2. QED
  BY Supplies, <1>1, PTL

\* The awaits that could wait for ever: what a call at this label waits for is
\* there, or it has nothing left to wait for.  The steps from every other label
\* are bound to no condition.
CanGoOn(c) ==
  /\ pc[c] = "store" => todo[c] # {} \/ op[c] \in {"add", "add_pin"}
  /\ pc[c] = "walk" => todo[c] = {} \/ \E b \in todo[c] : Readable(b)

(* No call but a pin is ever left waiting for a block: an unpin, which has *)
(* no timeout either, finds all it walks in the store.                     *)
THEOREM NothingHangs ==
  Spec => [](\A c \in Call : op[c] # "pin" => CanGoOn(c))
<1>1. ASSUME Inv, Supply, NEW c \in Call, op[c] # "pin"
      PROVE  CanGoOn(c)
  <2>1. pc[c] = "walk" => todo[c] \subseteq stored
    BY <1>1 DEF Supply, Supplied
  <2>2. pc[c] = "store" => op[c] \in {"add", "add_pin"}
    BY <1>1 DEF Supply, Supplied
  <2>3. QED
    BY <2>1, <2>2 DEF CanGoOn, Readable
<1>2. Inv /\ Supply => \A c \in Call : op[c] # "pin" => CanGoOn(c)
  BY <1>1
<1>3. QED
  BY Supplies, <1>2, PTL

-----------------------------------------------------------------------------
(* The stores as the bundle has them need an open() that nobody calls.       *)

Unopened ==
  /\ opened = FALSE /\ node # "started" /\ current = 0
  /\ \A c \in Call : pc[c] \in {"idle", "version", "settle"}
  /\ stored = {} /\ acked = {}

LEMMA UnopenedStep ==
  ASSUME CallType, Unopened, [Next]_vars
  PROVE  Unopened'
<1> USE DEF CallType, Unopened, page, net, calls, store, bounds
<1>1. ASSUME NEW c \in Call, Progress(c) \/ Fault(c) PROVE Unopened'
  <2>1. pc[c] \in {"idle", "version", "settle"}
    OBVIOUS
  <2>2. CASE StartUnopened(c)
    BY <2>2 DEF StartUnopened, Reject, Return, Goto
  <2>3. CASE StopSettle(c)
    BY <2>3 DEF StopSettle, Return, Goto
  <2>4. StartUnopened(c) \/ StopSettle(c)
    BY <1>1, <2>1
       DEF Progress, Fault, StartVersion, StartSwarm, StartBitswap, StartBroker,
           StartFinish, StopLeave, Dial, DialFails, StoreBlock, StoreEnds, CatChunk,
           CatExceeds, CatTimeout, CatEnds, PinStart, AlreadyPinned, AtPin, WalkBlock,
           WalkUpdate, WalkEnds, UnpinRead, UnpinAbsent, UnpinForget, StartVersionFails,
           StartSwarmFails, StartBrokerFails, StopLeaveFails, BodyFails, Body
  <2>5. QED
    BY <2>2, <2>3, <2>4
<1>2. ASSUME NEW c \in Call, BeginStop(c) \/ StopWhenStopped(c) PROVE Unopened'
  <2>1. CASE BeginStop(c)
    <3>1. /\ UNCHANGED <<opened, stored, current>> /\ acked' = acked /\ node' = "stopping"
          /\ pc' = [pc EXCEPT ![c] = "settle"]
      BY <2>1 DEF BeginStop, Request, Goto
    <3>2. QED
      BY <3>1
  <2>2. CASE StopWhenStopped(c)
    BY <2>2 DEF StopWhenStopped
  <2>3. QED
    BY <1>2, <2>1, <2>2
<1>3. ASSUME NEW c \in Call, NEW o \in AllOperations, NEW d \in Cid \cup {None}, NEW l \in Nat,
             BeginStarted(c, o, d, l) \/ BeginStart(c, o, d, l)
      PROVE  Unopened'
  <2>1. /\ UNCHANGED <<opened, stored, current>> /\ node' = "starting"
        /\ acked' \subseteq acked /\ pc' = [pc EXCEPT ![c] = "version"]
    BY <1>3 DEF BeginStarted, BeginStart, Request, Goto
  <2>2. QED
    BY <2>1
<1>4. CASE Visibility
  BY <1>4 DEF Visibility
<1>5. CASE Reload
  BY <1>5 DEF Reload
<1>6. CASE UNCHANGED vars
  BY <1>6 DEF vars
<1>7. QED
  BY <1>1, <1>2, <1>3, <1>4, <1>5, <1>6, Steps

\* With the stores of the bundle no start ever succeeds and no content is ever stored
\* or acknowledged as pinned, whatever callers do and however often the page is opened:
\* it is not a matter of timing or of failures.
THEOREM NeverStarted ==
  ASSUME Opened = {FALSE}
  PROVE  Spec => [](node # "started" /\ stored = {} /\ acked = {})
<1>1. Init => Unopened
  BY DEF Init, Unopened
<1>2. Inv /\ Unopened /\ [Next]_vars => Unopened'
  BY UnopenedStep, TypeGroups DEF Inv
<1>3. Unopened => node # "started" /\ stored = {} /\ acked = {}
  BY DEF Unopened
<1>4. QED
  BY <1>1, <1>2, <1>3, Invariant, PTL DEF Spec
=============================================================================
