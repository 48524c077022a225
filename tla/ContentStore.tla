----------------------------- MODULE ContentStore -----------------------------
(***************************************************************************)
(* What the content repository promises the rest of the system: content    *)
(* that is durable or pinned stays readable until it is taken over by a    *)
(* weaker request, cached content may go at any time, and every operation  *)
(* is atomic.  NodeRepository implements it.                               *)
(***************************************************************************)
CONSTANTS Cid

VARIABLE level   \* what may be read, and how well it is kept

Level == {"absent", "cached", "durable", "pinned"}

Init == level \in [Cid -> {"absent", "pinned"}]

Set(c, l) == level' = [level EXCEPT ![c] = l]

\* Content that arrives is kept the way the request that brought it asks for.
Put(c) == \E l \in Level \ {"absent"} : Set(c, l)

Pin(c)   == level[c] # "absent" /\ Set(c, "pinned")
Unpin(c) == level[c] = "pinned" /\ Set(c, "durable")

\* Nothing but cached content ever disappears.
Evict(c) == level[c] = "cached" /\ Set(c, "absent")

Next == \E c \in Cid : Put(c) \/ Pin(c) \/ Unpin(c) \/ Evict(c)

Spec == Init /\ [][Next]_level
=============================================================================
