------------------------------- MODULE HeliaNode -------------------------------
(***************************************************************************)
(* The IPFS node of the browser build,                                     *)
(* src/flutter_app/web_node/src/helia_node.js, with what its bundle        *)
(* src/flutter_app/web/helia_node.js contains of the libraries it calls.   *)
(*                                                                         *)
(* The page runs one thread: a step is what happens between two awaits.    *)
(* Any number of calls (of Dart, of scripts, of the page events) are under *)
(* way at a time.  start() and the start every other call begins with are  *)
(* the steps "version" to "finish", stop() the steps "leave" and "settle", *)
(* the rest is the body of a call.                                         *)
(*                                                                         *)
(* A swarm is one libp2p instance; current is the one node.libp2p answers, *)
(* brokers the swarms a Bitswap broker was made for.  A block pin counts   *)
(* the roots that pin a block.  Sizes are counted in blocks.  What is in   *)
(* IndexedDB outlives the page.  The traffic counters, the texts of errors *)
(* and the other fields of status() are left out.                          *)
(***************************************************************************)
EXTENDS Integers, FiniteSets, Sequences

CONSTANTS Call,
          Cid, Block,
          Dag,         \* the blocks of each content
          Operations,  \* what callers ask for
          Opened,      \* whether the stores need no open(): the choices
          Faults,      \* whether libraries, storage and peers may fail
          Serialised,  \* callers wait for a pin or unpin of content that
                       \* shares blocks before they ask for another
          MAX_CAT_BYTES,
          Limits,      \* the values of maxBytes
          MaxRequests, \* bound on calls begun
          MaxCrashes,  \* bound on pages closed
          None

AllOperations == {"start", "stop", "connect", "add", "add_pin", "cat", "pin", "unpin"}

Pinning == {"add_pin", "pin", "unpin"}

ASSUME HeliaAssumption ==
  /\ Dag \in [Cid -> SUBSET Block]
  /\ \A d \in Cid : Dag[d] # {} /\ IsFiniteSet(Dag[d])
  /\ Operations \subseteq AllOperations
  /\ Opened \subseteq BOOLEAN /\ Faults \in BOOLEAN /\ Serialised \in BOOLEAN
  /\ MAX_CAT_BYTES \in Nat /\ Limits \subseteq Nat
  /\ MaxRequests \in Nat /\ MaxCrashes \in Nat
  /\ None \notin Call \cup Cid \cup Block \cup AllOperations

VARIABLES
  opened,      \* the stores answer without open()
  lifecycle,   \* the state status() reports
  lastError,   \* an error is remembered
  node,        \* the status of the Helia node
  swarms,      \* the status of every libp2p made by this page
  current,     \* the number of the one the node uses, 0 if none
  brokers,
  hidden,      \* the page is in the background
  pc, op, cid, \* the calls: where each is, what it does, on what
  swarm,       \* the libp2p it is making, starting or stopping
  todo, block, seen, limit,  \* blocks left, the one at hand, the pin record
                             \* read for it, the limit of a cat
  stored,      \* blocks in IndexedDB
  pins,        \* contents with a pin record
  blockPins,   \* the pin record of each block
  history,     \* of this page: have starts overlapped, or has more gone wrong
  acked,       \* contents whose pin was acknowledged and not given up since
  requests, crashes

net    == <<swarms, current, brokers>>
page   == <<lifecycle, lastError, node, net, history>>
args   == <<op, cid, limit>>
walk   == <<todo, block, seen>>
calls  == <<pc, args, swarm, walk>>
store  == <<stored, pins, blockPins, acked>>
bounds == <<opened, hidden, requests, crashes>>
vars   == <<page, calls, store, bounds>>

-----------------------------------------------------------------------------
Starting == {"version", "create", "join", "bitswap", "broker", "finish"}
Stopping == {"leave", "settle"}
Body     == {"dial", "store", "cat", "pin", "walk", "update", "unpin", "forget"}

NoPin == [present |-> FALSE, count |-> 0, by |-> {}]

\* Mutant: the step of its own name.
FirstStepNamed(o) == o

\* Where a call goes once the node is started.
FirstStep(o) ==
  CASE o = "connect"            -> "dial"
    [] o \in {"add", "add_pin"} -> "store"
    [] OTHER                    -> o

TypeOK ==
  /\ opened \in BOOLEAN /\ lastError \in BOOLEAN /\ hidden \in BOOLEAN
  /\ lifecycle \in {"stopped", "starting", "running", "failed", "background_degraded"}
  /\ node \in {"absent", "stopped", "starting", "started", "stopping"}
  /\ swarms \in Seq({"starting", "started", "stopping", "stopped"})
  /\ current \in 0..Len(swarms)
  /\ brokers \subseteq 1..Len(swarms)
  /\ pc \in [Call -> {"idle"} \cup Starting \cup Stopping \cup Body]
  /\ op \in [Call -> AllOperations \cup {None}]
  /\ cid \in [Call -> Cid \cup {None}]
  /\ swarm \in [Call -> 0..Len(swarms)]
  /\ todo \in [Call -> SUBSET Block]
  /\ block \in [Call -> Block \cup {None}]
  /\ seen \in [Call -> [present : BOOLEAN, count : Int, by : SUBSET Cid]]
  /\ limit \in [Call -> Nat]
  /\ stored \subseteq Block
  /\ pins \subseteq Cid /\ acked \subseteq Cid
  /\ blockPins \in [Block -> [present : BOOLEAN, count : Int, by : SUBSET Cid]]
  /\ history \in {"calm", "overlapped", "disturbed"}
  /\ requests \in 0..MaxRequests /\ crashes \in 0..MaxCrashes

Init ==
  /\ opened \in Opened
  /\ lifecycle = "stopped" /\ lastError = FALSE
  /\ node = "absent" /\ swarms = <<>> /\ current = 0 /\ brokers = {}
  /\ hidden = FALSE
  /\ pc = [c \in Call |-> "idle"] /\ op = [c \in Call |-> None]
  /\ cid = [c \in Call |-> None] /\ swarm = [c \in Call |-> 0]
  /\ todo = [c \in Call |-> {}] /\ block = [c \in Call |-> None]
  /\ seen = [c \in Call |-> NoPin] /\ limit = [c \in Call |-> 0]
  /\ history = "calm"
  /\ stored = {} /\ pins = {} /\ blockPins = [b \in Block |-> NoPin]
  /\ acked = {}
  /\ requests = 0 /\ crashes = 0

-----------------------------------------------------------------------------
(***************************************************************************)
(* Begin and end of a call.                                                *)
(***************************************************************************)
Goto(c, label) == pc' = [pc EXCEPT ![c] = label]

\* The promise of c is resolved or rejected; jsonCall() makes an answer of it.
Return(c) ==
  /\ Goto(c, "idle")
  /\ op' = [op EXCEPT ![c] = None] /\ cid' = [cid EXCEPT ![c] = None]
  /\ swarm' = [swarm EXCEPT ![c] = 0]
  /\ todo' = [todo EXCEPT ![c] = {}] /\ block' = [block EXCEPT ![c] = None]
  /\ seen' = [seen EXCEPT ![c] = NoPin] /\ limit' = [limit EXCEPT ![c] = 0]

InProgress(Labels) == \E c \in Call : pc[c] \in Labels

Overlap(stop) ==
  IF InProgress(Stopping) \/ (stop /\ InProgress(Starting)) THEN "disturbed"
  ELSE IF InProgress(Starting) /\ history = "calm" THEN "overlapped" ELSE history

Conflict(o, d) ==
  /\ Serialised /\ o \in Pinning
  /\ \E c \in Call : op[c] \in Pinning /\ Dag[cid[c]] \cap Dag[d] # {}

\* What a caller asks for; unpinning gives a pin up when it is asked for.
Request(c, o, d, l) ==
  /\ pc[c] = "idle" /\ requests < MaxRequests /\ requests' = requests + 1
  /\ o \in Operations
  /\ (d = None) <=> o \in {"start", "stop", "connect"}
  /\ ~Conflict(o, d)
  /\ op' = [op EXCEPT ![c] = o] /\ cid' = [cid EXCEPT ![c] = d]
  /\ limit' = [limit EXCEPT ![c] = l]
  /\ acked' = IF o = "unpin" THEN acked \ {d} ELSE acked
  /\ UNCHANGED <<stored, pins, blockPins, opened, hidden, crashes>>

\* start() when the node is running: the call goes on at once.
BeginStarted(c, o, d, l) ==
  /\ o \notin {"start", "stop"} /\ node = "started"
  /\ Request(c, o, d, l)
  /\ Goto(c, FirstStep(o))
  /\ todo' = [todo EXCEPT ![c] = IF d = None THEN {} ELSE Dag[d]]
  /\ UNCHANGED <<page, swarm, block, seen>>

\* start(): makes the node if there is none and calls its start(), which
\* reads the version of the data store first.
BeginStart(c, o, d, l) ==
  /\ o # "stop" /\ node # "started"
  /\ Request(c, o, d, l)
  /\ lifecycle' = "starting" /\ lastError' = FALSE /\ node' = "starting"
  /\ Goto(c, "version")
  /\ history' = Overlap(FALSE)
  /\ UNCHANGED <<net, swarm, walk>>

\* stop() of a node that runs or is on its way: the first mixin stops the
\* current libp2p if that is running.
BeginStop(c) ==
  /\ node \notin {"absent", "stopped"}
  /\ Request(c, "stop", None, 0)
  /\ node' = "stopping"
  /\ IF current # 0 /\ swarms[current] = "started"
     THEN /\ swarms' = [swarms EXCEPT ![current] = "stopping"]
          /\ swarm' = [swarm EXCEPT ![c] = current]
          /\ Goto(c, "leave")
     ELSE Goto(c, "settle") /\ UNCHANGED <<swarms, swarm>>
  /\ history' = Overlap(TRUE)
  /\ UNCHANGED <<lifecycle, lastError, current, brokers, walk>>

\* stop() of a node that is stopped or was never made answers at once.
StopWhenStopped(c) ==
  /\ node \in {"absent", "stopped"}
  /\ pc[c] = "idle" /\ requests < MaxRequests /\ requests' = requests + 1
  /\ "stop" \in Operations
  /\ lifecycle' = "stopped"
  /\ history' = Overlap(TRUE)
  /\ UNCHANGED <<lastError, node, net, calls, store, opened, hidden, crashes>>

\* An error reaches jsonCall(), through the catch of start() if it is one of
\* the steps of start().  A stop may be the page's own (pagehide), which has no
\* jsonCall() to remember its error; a start of the page (pageshow) has the catch.
Reject(c) ==
  /\ Return(c)
  /\ lastError' = TRUE \/ (pc[c] \in Stopping /\ UNCHANGED lastError)
  /\ lifecycle' = IF pc[c] \in Starting THEN "failed" ELSE lifecycle
  /\ history' = IF pc[c] \in Stopping \/ (pc[c] \in Starting /\ history # "calm")
                THEN "disturbed" ELSE history

-----------------------------------------------------------------------------
(***************************************************************************)
(* start()                                                                 *)
(***************************************************************************)
\* Mutants: only the first start of a page makes a libp2p; a libp2p that was
\* stopped is left as it is.
NoSwarmYet     == swarms = <<>>
SwarmNeverDown == FALSE

\* What the first mixin looks at: is there a libp2p, and was it stopped?
NoSwarm     == current = 0
SwarmIsDown == current # 0 /\ swarms[current] = "stopped"

\* A data store that needs open() rejects; otherwise the first mixin makes a
\* libp2p if the node has none, or starts the one that was stopped.
StartVersion(c) ==
  /\ pc[c] = "version" /\ opened
  /\ CASE NoSwarm ->
            /\ swarms' = Append(swarms, "starting")
            /\ swarm' = [swarm EXCEPT ![c] = Len(swarms) + 1]
            /\ Goto(c, "create")
       [] SwarmIsDown ->
            /\ swarms' = [swarms EXCEPT ![current] = "starting"]
            /\ swarm' = [swarm EXCEPT ![c] = current]
            /\ Goto(c, "join")
       [] OTHER -> Goto(c, "bitswap") /\ UNCHANGED <<swarms, swarm>>
  /\ UNCHANGED <<lifecycle, lastError, node, current, brokers, history,
                args, walk, store, bounds>>

StartUnopened(c) ==
  /\ pc[c] = "version" /\ ~opened
  /\ Reject(c)
  /\ UNCHANGED <<node, net, store, bounds>>

StartVersionFails(c) ==
  /\ pc[c] = "version" /\ opened /\ Faults
  /\ Reject(c)
  /\ UNCHANGED <<node, net, store, bounds>>

\* The libp2p runs; one that was made becomes the node's.
StartSwarm(c) ==
  /\ pc[c] \in {"create", "join"}
  /\ swarms' = [swarms EXCEPT ![swarm[c]] = "started"]
  /\ current' = IF pc[c] = "create" THEN swarm[c] ELSE current
  /\ Goto(c, "bitswap")
  /\ UNCHANGED <<lifecycle, lastError, node, brokers, history,
                args, swarm, walk, store, bounds>>

StartSwarmFails(c) ==
  /\ pc[c] \in {"create", "join"} /\ Faults
  /\ swarms' = [swarms EXCEPT ![swarm[c]] = "stopped"]
  /\ Reject(c)
  /\ UNCHANGED <<node, current, brokers, store, bounds>>

\* The second mixin makes a Bitswap broker unless there is one or the node is
\* not starting any more.
StartBitswap(c) ==
  /\ pc[c] = "bitswap"
  /\ Goto(c, IF node = "starting" /\ brokers = {} THEN "broker" ELSE "finish")
  /\ swarm' = [swarm EXCEPT ![c] = current]
  /\ UNCHANGED <<page, args, walk, store, bounds>>

StartBroker(c) ==
  /\ pc[c] = "broker"
  /\ brokers' = brokers \cup {swarm[c]}
  /\ Goto(c, "finish")
  /\ UNCHANGED <<lifecycle, lastError, node, swarms, current, history,
                args, swarm, walk, store, bounds>>

StartBrokerFails(c) ==
  /\ pc[c] = "broker" /\ Faults
  /\ Reject(c)
  /\ UNCHANGED <<node, net, store, bounds>>

\* The node is started whatever has become of it since, and the call goes on.
StartFinish(c) ==
  /\ pc[c] = "finish"
  /\ node' = "started" /\ lifecycle' = "running"
  /\ IF op[c] = "start" THEN Return(c)
     ELSE /\ Goto(c, FirstStep(op[c]))
          /\ todo' = [todo EXCEPT ![c] = IF cid[c] = None THEN {} ELSE Dag[cid[c]]]
          /\ swarm' = [swarm EXCEPT ![c] = 0]
          /\ UNCHANGED <<args, block, seen>>
  /\ UNCHANGED <<lastError, net, history, store, bounds>>

-----------------------------------------------------------------------------
(***************************************************************************)
(* stop()                                                                  *)
(***************************************************************************)
StopLeave(c) ==
  /\ pc[c] = "leave"
  /\ swarms' = [swarms EXCEPT ![swarm[c]] = "stopped"]
  /\ Goto(c, "settle")
  /\ UNCHANGED <<lifecycle, lastError, node, current, brokers, history,
                args, swarm, walk, store, bounds>>

StopLeaveFails(c) ==
  /\ pc[c] = "leave" /\ Faults
  /\ Reject(c)
  /\ UNCHANGED <<node, net, store, bounds>>

StopSettle(c) ==
  /\ pc[c] = "settle"
  /\ node' = "stopped"
  /\ lifecycle' = "stopped"
  /\ Return(c)
  /\ UNCHANGED <<lastError, net, history, store, bounds>>

-----------------------------------------------------------------------------
(***************************************************************************)
(* The bodies of the calls.                                                *)
(***************************************************************************)
\* Any await of a body may reject: storage, a peer, a timeout, an answer such
\* as "Already pinned", a content larger than its limit.
BodyFails(c) ==
  /\ pc[c] \in Body /\ Faults
  /\ Reject(c)
  /\ UNCHANGED <<node, net, store, bounds>>

\* connect(): dials on whatever libp2p the node has by now.
Dial(c) ==
  /\ pc[c] = "dial" /\ swarms[current] = "started"
  /\ Return(c)
  /\ UNCHANGED <<page, store, bounds>>

DialFails(c) ==
  /\ pc[c] = "dial" /\ swarms[current] # "started"
  /\ Reject(c)
  /\ UNCHANGED <<node, net, store, bounds>>

\* addBytes(): one block put, and after the last the answer or the pin.
StoreBlock(c) ==
  /\ pc[c] = "store"
  /\ \E b \in todo[c] : /\ stored' = stored \cup {b}
                        /\ todo' = [todo EXCEPT ![c] = @ \ {b}]
  /\ UNCHANGED <<page, pc, args, swarm, block, seen, pins, blockPins, acked, bounds>>

StoreEnds(c) ==
  /\ pc[c] = "store" /\ todo[c] = {} /\ op[c] = "add"
  /\ Return(c)
  /\ UNCHANGED <<page, store, bounds>>

\* The blocks a walk or a cat can read: what is stored, or what a broker
\* finds, which is then stored.
CanFetch == \E s \in brokers : swarms[s] = "started"
Readable(b) == b \in stored \/ CanFetch

\* cat(): a chunk is counted, and refused when it passes the limit.
Length(c) == Cardinality(Dag[cid[c]] \ todo[c])
Allowed(c) == IF limit[c] < MAX_CAT_BYTES THEN limit[c] ELSE MAX_CAT_BYTES

CatChunk(c) ==
  /\ pc[c] = "cat" /\ Length(c) < Allowed(c)
  /\ \E b \in todo[c] : /\ Readable(b)
                        /\ stored' = stored \cup {b}
                        /\ todo' = [todo EXCEPT ![c] = @ \ {b}]
  /\ UNCHANGED <<page, pc, args, swarm, block, seen, pins, blockPins, acked, bounds>>

CatExceeds(c) ==
  /\ pc[c] = "cat" /\ todo[c] # {} /\ Length(c) >= Allowed(c)
  /\ \E b \in todo[c] : Readable(b) /\ stored' = stored \cup {b}
  /\ Reject(c)
  /\ UNCHANGED <<node, net, pins, blockPins, acked, bounds>>

\* Mutant: a node with a broker waits without end.
CatTimeoutOffline(c) ==
  /\ pc[c] = "cat" /\ brokers = {} /\ \E b \in todo[c] : b \notin stored
  /\ Reject(c)
  /\ UNCHANGED <<node, net, store, bounds>>

\* The timeout of 30 seconds: a block that nobody provides.
CatTimeout(c) ==
  /\ pc[c] = "cat" /\ \E b \in todo[c] : b \notin stored
  /\ Reject(c)
  /\ UNCHANGED <<node, net, store, bounds>>

CatEnds(c) ==
  /\ pc[c] = "cat" /\ todo[c] = {}
  /\ Return(c)
  /\ UNCHANGED <<page, store, bounds>>

-----------------------------------------------------------------------------
(***************************************************************************)
(* Pins: a record per root, and per block the roots that pin it, both in   *)
(* the data store.                                                         *)
(***************************************************************************)
PinnedBlock(r, d) ==
  IF d \in r.by THEN r
  ELSE [present |-> TRUE, count |-> r.count + 1, by |-> r.by \cup {d}]

UnpinnedBlock(r, d) == [present |-> TRUE, count |-> r.count - 1, by |-> r.by \ {d}]

\* Mutant: deletes a record with one root left.
WrittenOffByOne(b, r) == IF r.count <= 1 THEN NoPin ELSE r

\* A record whose count is zero is deleted, if there is one to delete.
Written(b, r) ==
  IF r.count = 0 /\ blockPins[b].present THEN NoPin ELSE r

AtPin(c) == pc[c] = "pin" \/ (pc[c] = "store" /\ todo[c] = {} /\ op[c] = "add_pin")

PinStart(c) ==
  /\ AtPin(c) /\ cid[c] \notin pins
  /\ todo' = [todo EXCEPT ![c] = Dag[cid[c]]]
  /\ Goto(c, "walk")
  /\ UNCHANGED <<page, args, swarm, block, seen, store, bounds>>

AlreadyPinned(c) ==
  /\ AtPin(c) /\ cid[c] \in pins
  /\ Reject(c)
  /\ UNCHANGED <<node, net, store, bounds>>

\* The walk of pin and unpin: a block is read, and its pin record.
WalkBlock(c) ==
  /\ pc[c] = "walk"
  /\ \E b \in todo[c] :
       /\ Readable(b) /\ stored' = stored \cup {b}
       /\ block' = [block EXCEPT ![c] = b]
       /\ seen' = [seen EXCEPT ![c] = blockPins[b]]
  /\ Goto(c, "update")
  /\ UNCHANGED <<page, args, swarm, todo, pins, blockPins, acked, bounds>>

\* The changed record is written over whatever it is by now.
WalkUpdate(c) ==
  /\ pc[c] = "update"
  /\ LET d == cid[c]
         r == IF op[c] = "unpin" THEN UnpinnedBlock(seen[c], d)
                                 ELSE PinnedBlock(seen[c], d)
     IN blockPins' = IF op[c] # "unpin" /\ d \in seen[c].by THEN blockPins
                     ELSE [blockPins EXCEPT ![block[c]] = Written(block[c], r)]
  /\ todo' = [todo EXCEPT ![c] = @ \ {block[c]}]
  /\ block' = [block EXCEPT ![c] = None] /\ seen' = [seen EXCEPT ![c] = NoPin]
  /\ Goto(c, "walk")
  /\ UNCHANGED <<page, args, swarm, stored, pins, acked, bounds>>

\* The record of a root is written when all its blocks are pinned; then the
\* call is answered.
WalkEnds(c) ==
  /\ pc[c] = "walk" /\ todo[c] = {}
  /\ IF op[c] = "unpin" THEN UNCHANGED <<pins, acked>>
     ELSE pins' = pins \cup {cid[c]} /\ acked' = acked \cup {cid[c]}
  /\ Return(c)
  /\ UNCHANGED <<page, stored, blockPins, bounds>>

UnpinRead(c) ==
  /\ pc[c] = "unpin" /\ cid[c] \in pins
  /\ Goto(c, "forget")
  /\ UNCHANGED <<page, args, swarm, walk, store, bounds>>

UnpinAbsent(c) ==
  /\ pc[c] = "unpin" /\ cid[c] \notin pins
  /\ Reject(c)
  /\ UNCHANGED <<node, net, store, bounds>>

UnpinForget(c) ==
  /\ pc[c] = "forget"
  /\ pins' = pins \ {cid[c]}
  /\ todo' = [todo EXCEPT ![c] = Dag[cid[c]]]
  /\ Goto(c, "walk")
  /\ UNCHANGED <<page, args, swarm, block, seen, stored, blockPins, acked, bounds>>

-----------------------------------------------------------------------------
(***************************************************************************)
(* The page.                                                               *)
(***************************************************************************)
\* visibilitychange writes the lifecycle whatever the node does.
Visibility ==
  /\ requests < MaxRequests /\ requests' = requests + 1
  /\ hidden' = ~hidden
  /\ lifecycle' = IF hidden' THEN "background_degraded" ELSE "running"
  /\ history' = "disturbed"
  /\ UNCHANGED <<lastError, node, net, calls, store, opened, crashes>>

\* The page is closed, at any step, and opened again: the module starts over.
Reload ==
  /\ crashes < MaxCrashes /\ crashes' = crashes + 1
  /\ lifecycle' = "stopped" /\ lastError' = FALSE
  /\ node' = "absent" /\ swarms' = <<>> /\ current' = 0 /\ brokers' = {}
  /\ hidden' = FALSE
  /\ pc' = [c \in Call |-> "idle"] /\ op' = [c \in Call |-> None]
  /\ cid' = [c \in Call |-> None] /\ swarm' = [c \in Call |-> 0]
  /\ todo' = [c \in Call |-> {}] /\ block' = [c \in Call |-> None]
  /\ seen' = [c \in Call |-> NoPin] /\ limit' = [c \in Call |-> 0]
  /\ history' = "calm"
  /\ UNCHANGED <<store, opened, requests>>

-----------------------------------------------------------------------------
Progress(c) ==
  \/ StartVersion(c) \/ StartUnopened(c) \/ StartSwarm(c) \/ StartBitswap(c)
  \/ StartBroker(c) \/ StartFinish(c)
  \/ StopLeave(c) \/ StopSettle(c)
  \/ Dial(c) \/ DialFails(c)
  \/ StoreBlock(c) \/ StoreEnds(c)
  \/ CatChunk(c) \/ CatExceeds(c) \/ CatTimeout(c) \/ CatEnds(c)
  \/ PinStart(c) \/ AlreadyPinned(c)
  \/ WalkBlock(c) \/ WalkUpdate(c) \/ WalkEnds(c)
  \/ UnpinRead(c) \/ UnpinAbsent(c) \/ UnpinForget(c)

Fault(c) == \/ StartVersionFails(c) \/ StartSwarmFails(c) \/ StartBrokerFails(c)
            \/ StopLeaveFails(c) \/ BodyFails(c)

\* maxBytes is an argument of cat only.
Ask(c) ==
  \/ BeginStop(c) \/ StopWhenStopped(c)
  \/ \E o \in AllOperations, d \in Cid \cup {None} :
       \E l \in IF o = "cat" THEN Limits ELSE {0} :
         BeginStarted(c, o, d, l) \/ BeginStart(c, o, d, l)

Next == \/ \E c \in Call : Progress(c) \/ Fault(c) \/ Ask(c)
        \/ Visibility
        \/ Reload

Spec == Init /\ [][Next]_vars

\* The promises of the libraries settle and the page runs what waits for them.
\* Nothing is assumed of callers, of the page or of peers.
FairSpec == Spec /\ \A c \in Call : WF_vars(Progress(c) \/ Fault(c))

-----------------------------------------------------------------------------
\* status() reads node.libp2p, a getter that throws while there is none, when
\* the node says "started" (helia_node.js:68).  Starts, stops and failures in
\* any order never leave a started node without a libp2p.
StatusAnswers == node = "started" => current # 0

\* A lifecycle of "failed" comes with last_error, although one start() clears
\* the error of another that is failing.
FailedHasReason == lifecycle = "failed" => lastError

\* When nothing is under way, status() tells the truth, unless a stop or a
\* failure overlapped another call or the page was hidden: "running" is a
\* started node on a running libp2p with a broker that can fetch; when no
\* calls overlapped at all, the broker is on the libp2p that connect() dials,
\* and "stopped" leaves no libp2p behind.
Quiet == \A c \in Call : pc[c] = "idle"

HonestLifecycle ==
  Quiet /\ history # "disturbed" =>
    /\ lifecycle = "running" <=> node = "started"
    /\ lifecycle = "running" => swarms[current] = "started" /\ CanFetch
    /\ history = "calm" /\ lifecycle = "running" => current \in brokers
    /\ history = "calm" /\ lifecycle = "stopped" =>
         \A s \in DOMAIN swarms : swarms[s] = "stopped"

\* What pin() or addBytes() acknowledged stays pinned, block by block, until a
\* caller asks to unpin it: failures half-way, closing the page and the pins
\* of other contents with the same blocks included.
PinnedIsProtected ==
  \A d \in acked :
    /\ d \in pins
    /\ \A b \in Dag[d] : b \in stored /\ blockPins[b].present /\ d \in blockPins[b].by

\* cat() holds no more than its caller and the module allow.
CatBounded ==
  \A c \in Call : pc[c] = "cat" => Length(c) <= limit[c] /\ Length(c) <= MAX_CAT_BYTES

\* No call waits for ever, except a pin, whose walk has no timeout: whatever the
\* others have done, a call under way can go on without a failure to wake it.
NoCallHangs ==
  \A c \in Call : pc[c] # "idle" /\ op[c] # "pin" => ENABLED Progress(c)

\* A start is followed by a started node.
NodeStarts == \A c \in Call : op[c] = "start" ~> node = "started"
=============================================================================
