----------------------------- MODULE PcmRingProofs -----------------------------
(***************************************************************************)
(* Theorems about PcmRing, for every capacity, width of the cursors,       *)
(* number of sessions and size of a period: the claims of the SAFETY       *)
(* comments of ring.rs, under the condition they need.                     *)
(***************************************************************************)
EXTENDS PcmRing, SequenceTheorems, TLAPS

-----------------------------------------------------------------------------
(* Division, and the slots of a ring. *)

LEMMA Remainder ==
  ASSUME NEW x \in Nat, NEW C \in Nat \ {0}
  PROVE  /\ x % C \in 0..(C - 1) /\ x \div C \in Int
         /\ x = C * (x \div C) + (x % C)
<1> DEFINE m == C * (x \div C)
<1>1. x % C \in 0..(C - 1)
  OBVIOUS
<1>2. x \div C \in Int
  OBVIOUS
<1>3. x % C = x - m
  BY Z3
<1>4. m \in Int
  BY <1>2
<1> HIDE DEF m
<1>5. x = m + (x % C)
  BY <1>1, <1>3, <1>4
<1>6. QED
  BY <1>1, <1>2, <1>5 DEF m

LEMMA Distributes ==
  ASSUME NEW C \in Int, NEW q \in Int, NEW k \in Int
  PROVE  C * (q + k) = C * q + C * k /\ C * (q - k) = C * q - C * k
OBVIOUS

LEMMA RemainderUnique ==
  ASSUME NEW C \in Nat \ {0}, NEW q \in Int, NEW r \in 0..(C - 1)
  PROVE  (C * q + r) % C = r
OBVIOUS

LEMMA NoMultiple ==
  ASSUME NEW C \in Nat \ {0}, NEW q \in Int, 0 < C * q
  PROVE  C <= C * q
<1>1. CASE q >= 1
  BY <1>1
<1>2. CASE q <= 0
  BY <1>2
<1>3. QED
  BY <1>1, <1>2

LEMMA SlotIsSlot ==
  ASSUME NEW x \in Nat
  PROVE  Slot(x) \in Slots
BY Remainder, CounterAssumption DEF Slot, Slots

(* The slots do not jump where a cursor wraps. *)
LEMMA SlotWraps ==
  ASSUME NEW x \in Nat
  PROVE  Slot(x + Wrap) = Slot(x)
<1> DEFINE k == Wrap \div Capacity
           q == x \div Capacity
<1>1. Wrap = Capacity * k /\ k \in Int
  BY Remainder, CounterAssumption
<1>2. x = Capacity * q + (x % Capacity) /\ q \in Int /\ x % Capacity \in 0..(Capacity - 1)
  BY Remainder, CounterAssumption
<1> HIDE DEF k, q
<1>3. Capacity * (q + k) = Capacity * q + Capacity * k
  BY <1>1, <1>2, Distributes, CounterAssumption
<1> DEFINE r == x % Capacity
           a == Capacity * q
           b == Capacity * k
           j == q + k
<1>4. /\ x = a + r /\ Wrap = b /\ Capacity * j = a + b /\ j \in Int
      /\ a \in Int /\ b \in Int /\ r \in 0..(Capacity - 1)
  BY <1>1, <1>2, <1>3, CounterAssumption
<1> HIDE DEF r, a, b, j
<1>5. x + Wrap = Capacity * j + r /\ x + Wrap \in Int
  BY <1>4
<1>6. (Capacity * j + r) % Capacity = r
  BY <1>4, RemainderUnique, CounterAssumption
<1>7. QED
  BY <1>5, <1>6 DEF Slot, r

(* Positions less than a capacity apart have different slots. *)
LEMMA SlotsDiffer ==
  ASSUME NEW x \in Nat, NEW y \in Nat, x < y, y - x < Capacity
  PROVE  Slot(x) # Slot(y)
<1> DEFINE p == x \div Capacity
           q == y \div Capacity
<1>1. /\ x = Capacity * p + (x % Capacity) /\ p \in Int
      /\ y = Capacity * q + (y % Capacity) /\ q \in Int
      /\ x % Capacity \in Int /\ y % Capacity \in Int
  BY Remainder, CounterAssumption
<1> HIDE DEF p, q
<1>2. SUFFICES ASSUME x % Capacity = y % Capacity PROVE FALSE
  BY DEF Slot
<1>3. Capacity * (q - p) = Capacity * q - Capacity * p
  BY <1>1, Distributes, CounterAssumption
<1>4. Capacity * p \in Int /\ Capacity * q \in Int
  BY <1>1, CounterAssumption
<1> DEFINE a == Capacity * p
           b == Capacity * q
<1>5. x = a + (x % Capacity) /\ y = b + (x % Capacity) /\ a \in Int /\ b \in Int
      /\ Capacity * (q - p) = b - a /\ q - p \in Int
  BY <1>1, <1>2, <1>3, <1>4
<1> HIDE DEF a, b
<1>6. Capacity * (q - p) = y - x
  BY <1>1, <1>5
<1>7. QED
  BY <1>5, <1>6, NoMultiple, CounterAssumption

(* The same for a cursor and an offset, at a distance that wraps. *)
LEMMA SlotAhead ==
  ASSUME NEW h \in Cursor, NEW t \in Cursor, NEW i \in Nat, NEW k \in Nat,
         k < WrappingSub(h, t), WrappingSub(h, t) + i < Capacity + k
  PROVE  Slot(h + i) # Slot(t + k)
<1>1. CASE t <= h
  BY <1>1, SlotsDiffer, CounterAssumption DEF Cursor, WrappingSub
<1>2. CASE h < t
  <2>1. h + i + Wrap \in Nat /\ Slot(h + i + Wrap) = Slot(h + i)
    BY SlotWraps, CounterAssumption DEF Cursor
  <2>2. t + k < h + i + Wrap /\ h + i + Wrap - (t + k) < Capacity
    BY <1>2, CounterAssumption DEF Cursor, WrappingSub
  <2>3. QED
    BY <2>1, <2>2, SlotsDiffer, CounterAssumption DEF Cursor
<1>3. QED
  BY <1>1, <1>2 DEF Cursor

(* Slots of a cursor that has advanced. *)
LEMMA SlotAdvanced ==
  ASSUME NEW t \in Cursor, NEW n \in 0..Capacity, NEW k \in Nat
  PROVE  /\ WrappingAdd(t, n) \in Cursor
         /\ Slot(WrappingAdd(t, n) + k) = Slot(t + n + k)
<1>1. WrappingAdd(t, n) \in Cursor
  BY CounterAssumption DEF Cursor, WrappingAdd
<1>2. CASE t + n < Wrap
  BY <1>2, CounterAssumption DEF Cursor, WrappingAdd
<1>3. CASE t + n >= Wrap
  <2>1. WrappingAdd(t, n) + k + Wrap = t + n + k
    BY <1>3, CounterAssumption DEF Cursor, WrappingAdd
  <2>2. QED
    BY <1>1, <2>1, SlotWraps DEF Cursor
<1>4. QED
  BY <1>1, <1>2, <1>3, CounterAssumption DEF Cursor

(* Advancing the writer by n adds n to what is available, advancing the    *)
(* reader takes n away.                                                    *)
LEMMA Advances ==
  ASSUME NEW h \in Cursor, NEW t \in Cursor, NEW n \in Nat
  PROVE  /\ WrappingSub(h, t) \in 0..(Wrap - 1)
         /\ WrappingSub(h, t) + n <= Capacity =>
              WrappingSub(WrappingAdd(h, n), t) = WrappingSub(h, t) + n
         /\ n <= WrappingSub(h, t) =>
              WrappingSub(h, WrappingAdd(t, n)) = WrappingSub(h, t) - n
         /\ WrappingSub(h, h) = 0
BY CounterAssumption DEF Cursor, WrappingSub, WrappingAdd

-----------------------------------------------------------------------------
(* Types.  A pump never has more to copy than is left of its session, and   *)
(* a cursor never turns round more than once.                              *)

Paced ==
  /\ \A s \in Session :
       /\ sent[s] <= Samples
       /\ wpc[s] = "copy" => sent[s] + wn[s] <= Samples /\ wn[s] < Wrap
  /\ rpc = "copy" => rn < Wrap

LEMMA ToldType ==
  ASSUME NEW n \in Nat
  PROVE  Told(n) \in Nat /\ Told(n) <= n
<1> DEFINE q == n \div Channels
           m == Channels * q
<1>1. n = m + (n % Channels) /\ n % Channels \in 0..(Channels - 1) /\ q \in Int
  BY Remainder, RingAssumption
<1>2. Told(n) = m /\ m \in Int
  BY <1>1, RingAssumption DEF Told
<1>3. q >= 0
  <2>1. SUFFICES ASSUME q <= -1 PROVE FALSE
    BY <1>1
  <2>2. 0 - q >= 1 /\ 0 - q \in Int
    BY <1>1, <2>1
  <2>3. Channels * (0 - q) = 0 - m
    BY <1>1, Distributes, RingAssumption
  <2>4. Channels * (0 - q) >= Channels
    <3> DEFINE k == 0 - q
    <3>1. k >= 1 /\ k \in Int
      BY <2>2
    <3> HIDE DEF k
    <3>2. Channels * k >= Channels
      BY <3>1, RingAssumption
    <3>3. QED
      BY <3>2 DEF k
  <2> HIDE DEF m, q
  <2>5. QED
    BY <1>1, <1>2, <2>3, <2>4, RingAssumption
<1>4. m >= 0
  BY <1>1, <1>3, RingAssumption
<1> HIDE DEF m, q
<1>5. QED
  BY <1>1, <1>2, <1>4, RingAssumption

LEMMA SmallerType ==
  ASSUME NEW a \in Nat, NEW b \in Nat
  PROVE  Smaller(a, b) \in Nat /\ Smaller(a, b) <= a /\ Smaller(a, b) <= b
BY DEF Smaller

LEMMA SpaceType ==
  ASSUME TypeOK, NEW s \in Session
  PROVE  Space(s) \in 0..(Wrap - 1)
<1>1. WrappingSub(whead[s], tail) \in 0..(Wrap - 1)
  <2>1. whead[s] \in Cursor /\ tail \in Cursor
    BY DEF TypeOK
  <2>2. QED
    BY <2>1, Advances
<1>2. QED
  BY <1>1, CounterAssumption DEF Space, WrappingSub

LEMMA InitTypes == Init => TypeOK /\ Paced
<1>1. 0 \in Cursor /\ <<>> \in Seq(Sample \cup {Nothing})
  BY CounterAssumption DEF Cursor
<1>2. ASSUME Init PROVE TypeOK
  <2>1. /\ head \in Cursor /\ tail \in Cursor /\ chead \in Cursor /\ rtail \in Cursor
        /\ buffer \in [Slots -> Sample \cup {Nothing}]
        /\ out \in Seq(Sample \cup {Nothing}) /\ heard \in Seq(Sample \cup {Nothing})
    BY <1>1, <1>2 DEF Init
  <2>2. /\ session \in 0..Sessions
        /\ control \in {"idle", "session", "clear", "cleared", "flush", "flushed"}
        /\ rpc \in {"idle", "head", "copy"} /\ rn \in Nat /\ ri \in Nat
    BY <1>2, RingAssumption DEF Init
  <2>3. /\ wpc \in [Session -> {"idle", "tail", "copy"}]
        /\ whead \in [Session -> Cursor]
        /\ wn \in [Session -> Nat] /\ wi \in [Session -> Nat] /\ sent \in [Session -> Nat]
    BY <1>1, <1>2 DEF Init
  <2>4. playing \in BOOLEAN
    BY <1>2 DEF Init
  <2>5. QED
    BY <2>1, <2>2, <2>3, <2>4 DEF TypeOK
<1>3. Init => Paced
  BY RingAssumption DEF Init, Paced
<1>4. QED
  BY <1>2, <1>3

LEMMA WriteTypes ==
  ASSUME TypeOK, Paced, NEW s \in Session, Write(s)
  PROVE  TypeOK' /\ Paced'
<1> USE DEF TypeOK, Paced, ring, command, device
<1>1. CASE WriteLoadHead(s)
  BY <1>1, RingAssumption DEF WriteLoadHead
<1>2. CASE WriteLoadTail(s)
  <2> DEFINE n == Smaller(Samples - sent[s], Space(s))
  <2>1. n \in Nat /\ sent[s] + n <= Samples /\ n < Wrap
    <3>1. Samples - sent[s] \in Nat /\ Samples \in Nat /\ sent[s] \in Nat
      BY RingAssumption
    <3>2. Space(s) \in Nat /\ Space(s) < Wrap /\ Wrap \in Nat
      BY SpaceType, CounterAssumption
    <3>3. n <= Samples - sent[s] /\ n <= Space(s) /\ n \in Nat
      BY <3>1, <3>2, SmallerType
    <3> HIDE DEF n
    <3>4. QED
      BY <3>1, <3>2, <3>3
  <2>2. wn' = [wn EXCEPT ![s] = n]
    BY <1>2 DEF WriteLoadTail
  <2> HIDE DEF n
  <2>3. QED
    BY <1>2, <2>1, <2>2 DEF WriteLoadTail
<1>3. CASE WriteCopy(s)
  <2> DEFINE x == [session |-> s, index |-> sent[s] + wi[s]]
             k == Slot(whead[s] + wi[s])
  <2>1. x \in Sample
    BY DEF Sample
  <2>2. k \in Slots
    BY SlotIsSlot DEF Cursor
  <2>3. buffer' = [buffer EXCEPT ![k] = x]
    BY <1>3 DEF WriteCopy
  <2> HIDE DEF x, k
  <2>4. buffer' \in [Slots -> Sample \cup {Nothing}]
    BY <2>1, <2>2, <2>3
  <2>5. wi' \in [Session -> Nat]
    BY <1>3 DEF WriteCopy
  <2>6. UNCHANGED <<head, tail, command, wpc, whead, wn, sent, device>>
    BY <1>3 DEF WriteCopy
  <2>7. QED
    BY <2>4, <2>5, <2>6
<1>4. CASE WriteStore(s)
  <2> DEFINE n == Told(wn[s])
  <2>1. n \in Nat /\ n <= wn[s] /\ sent[s] + wn[s] <= Samples
    BY <1>4, ToldType DEF WriteStore
  <2>2. sent' = [sent EXCEPT ![s] = @ + n]
    BY <1>4 DEF WriteStore
  <2> HIDE DEF n
  <2>3. sent' \in [Session -> Nat] /\ sent'[s] <= Samples
    BY <2>1, <2>2, RingAssumption
  <2>4. head' \in Cursor
    <3>1. head' = WrappingAdd(whead[s], wn[s]) /\ wn[s] \in Nat /\ wn[s] < Wrap
      BY <1>4 DEF WriteStore
    <3>2. QED
      BY <3>1, CounterAssumption DEF WrappingAdd, Cursor
  <2>5. QED
    BY <1>4, <2>2, <2>3, <2>4 DEF WriteStore
<1>5. QED
  BY <1>1, <1>2, <1>3, <1>4 DEF Write

LEMMA ReadTypes ==
  ASSUME TypeOK, Paced, Read
  PROVE  TypeOK' /\ Paced'
<1> USE DEF TypeOK, Paced, ring, command, pumps
<1>1. CASE ReadLoadTail
  BY <1>1 DEF ReadLoadTail
<1>2. CASE ReadLoadHead
  <2>1. WrappingSub(head, rtail) \in 0..(Wrap - 1)
    BY CounterAssumption DEF WrappingSub, Cursor
  <2>2. rn' \in Nat /\ rn' < Wrap
    <3>1. rn' = Smaller(Period, WrappingSub(head, rtail))
      BY <1>2 DEF ReadLoadHead
    <3>2. WrappingSub(head, rtail) \in Nat /\ Period \in Nat
      BY <2>1, RingAssumption
    <3>3. rn' \in Nat /\ rn' <= WrappingSub(head, rtail)
      BY <3>1, <3>2, SmallerType
    <3>4. QED
      BY <2>1, <3>3, CounterAssumption
  <2>3. out' \in Seq(Sample \cup {Nothing})
    BY <1>2 DEF ReadLoadHead
  <2>4. QED
    BY <1>2, <2>2, <2>3 DEF ReadLoadHead
<1>3. CASE ReadCopy
  <2>1. Slot(rtail + ri) \in Slots
    BY SlotIsSlot DEF Cursor
  <2>2. out' \in Seq(Sample \cup {Nothing})
    BY <1>3, <2>1 DEF ReadCopy
  <2>3. QED
    BY <1>3, <2>2 DEF ReadCopy
<1>4. CASE ReadStore
  <2>1. tail' \in Cursor
    BY <1>4, CounterAssumption DEF ReadStore, WrappingAdd, Cursor
  <2>2. heard' \in Seq(Sample \cup {Nothing}) /\ out' \in Seq(Sample \cup {Nothing})
    BY <1>4 DEF ReadStore
  <2>3. QED
    BY <1>4, <2>1, <2>2 DEF ReadStore
<1>5. QED
  BY <1>1, <1>2, <1>3, <1>4 DEF Read

LEMMA ControlTypes ==
  ASSUME TypeOK, Paced, Control
  PROVE  TypeOK' /\ Paced'
<1> USE DEF TypeOK, Paced, ring, pumps, device
<1>1. CASE Play
  BY <1>1, RingAssumption DEF Play
<1>2. CASE PauseResume
  BY <1>2 DEF PauseResume
<1>3. CASE Stop
  BY <1>3 DEF Stop
<1>4. CASE ClearLoad
  BY <1>4 DEF ClearLoad
<1>5. CASE ClearStore
  BY <1>5 DEF ClearStore
<1>6. QED
  BY <1>1, <1>2, <1>3, <1>4, <1>5 DEF Control

LEMMA Typed == Spec => [](TypeOK /\ Paced)
<1>1. TypeOK /\ Paced /\ UNCHANGED vars => (TypeOK /\ Paced)'
  BY DEF TypeOK, Paced, vars, ring, command, pumps, device
<1>2. TypeOK /\ Paced /\ [Next]_vars => (TypeOK /\ Paced)'
  BY <1>1, WriteTypes, ReadTypes, ControlTypes DEF Next
<1>3. QED
  BY InitTypes, <1>2, PTL DEF Spec

(* Cursors stay below Wrap, samples are those of a session, and a pump never *)
(* sends more than its session has.                                        *)
THEOREM TypeCorrect == Spec => []TypeOK
BY Typed, PTL

-----------------------------------------------------------------------------
(* The ring, if a session is stopped only while nobody reads or writes.    *)

Held ==
  /\ Available <= Capacity
  /\ playing => control = "session"
  /\ control \in {"cleared", "flushed"} => chead = head
  /\ \A s \in Session :
       /\ wpc[s] # "idle" => s = session /\ control = "session" /\ whead[s] = head
       /\ wpc[s] = "copy" => wi[s] <= wn[s] /\ Available + wn[s] <= Capacity
  /\ rpc # "idle" => control = "session" /\ rtail = tail
  /\ rpc = "copy" => ri <= rn /\ rn <= Available

Inv == TypeOK /\ Paced /\ Held

LEMMA WriteHeld ==
  ASSUME Inv, NEW s \in Session, Write(s)
  PROVE  Held'
<1> USE DEF Inv, TypeOK, Held, ring, command, device
<1>1. CASE WriteLoadHead(s)
  BY <1>1 DEF WriteLoadHead, Available
<1>2. CASE WriteLoadTail(s)
  <2>1. WrappingSub(whead[s], tail) = Available /\ Available \in 0..Capacity
    <3>1. whead[s] = head /\ head \in Cursor /\ tail \in Cursor
      BY <1>2 DEF WriteLoadTail
    <3>2. Available \in Nat /\ Available <= Capacity
      BY <3>1, Advances DEF Available
    <3>3. QED
      BY <3>1, <3>2, CounterAssumption DEF Available
  <2>2. Space(s) = Capacity - Available
    BY <2>1, CounterAssumption DEF Space, WrappingSub
  <2>3. wn'[s] <= Space(s) /\ wn'[s] \in Nat
    <3>1. Samples - sent[s] \in Nat /\ Space(s) \in Nat
      BY <2>1, <2>2, RingAssumption, CounterAssumption DEF Paced
    <3>2. wn'[s] = Smaller(Samples - sent[s], Space(s))
      BY <1>2 DEF WriteLoadTail
    <3>3. /\ Smaller(Samples - sent[s], Space(s)) \in Nat
          /\ Smaller(Samples - sent[s], Space(s)) <= Space(s)
      BY <3>1, SmallerType
    <3>4. QED
      BY <3>2, <3>3
  <2>4. UNCHANGED Available
    BY <1>2 DEF WriteLoadTail, Available
  <2>5. Available + wn'[s] <= Capacity /\ 0 <= wn'[s]
    BY <2>1, <2>2, <2>3, CounterAssumption
  <2>6. QED
    BY <1>2, <2>4, <2>5 DEF WriteLoadTail
<1>3. CASE WriteCopy(s)
  BY <1>3 DEF WriteCopy, Available
<1>4. CASE WriteStore(s)
  <2>1. /\ head' = WrappingAdd(head, wn[s]) /\ UNCHANGED tail
        /\ Available + wn[s] <= Capacity
    BY <1>4 DEF WriteStore
  <2>2. Available' = Available + wn[s] /\ Available \in Nat
    BY <2>1, Advances DEF Available
  <2>3. Available' <= Capacity /\ Available <= Available'
    BY <2>1, <2>2
  <2>4. \A e \in Session \ {s} : wpc'[e] = "idle" 
    BY <1>4 DEF WriteStore
  <2>5. wpc'[s] = "idle"
    BY <1>4 DEF WriteStore
  <2>6. rpc = "copy" => rn <= Available'
    BY <2>2, <2>3
  <2>7. UNCHANGED <<command, device>> /\ control = "session"
    BY <1>4 DEF WriteStore
  <2>8. QED
    BY <2>1, <2>3, <2>4, <2>5, <2>6, <2>7
<1>5. QED
  BY <1>1, <1>2, <1>3, <1>4 DEF Write

LEMMA ReadHeld ==
  ASSUME Inv, Read
  PROVE  Held'
<1> USE DEF Inv, TypeOK, Held, ring, command, pumps
<1>1. CASE ReadLoadTail
  BY <1>1 DEF ReadLoadTail, Available
<1>2. CASE ReadLoadHead
  <2>1. rtail = tail /\ control = "session"
    BY <1>2 DEF ReadLoadHead
  <2>2. rn' <= Available /\ 0 <= rn' /\ ri' = 0
    BY <1>2, <2>1, Advances, RingAssumption DEF ReadLoadHead, Available, Smaller
  <2>3. UNCHANGED Available
    BY <1>2 DEF ReadLoadHead, Available
  <2>4. QED
    BY <1>2, <2>2, <2>3 DEF ReadLoadHead
<1>3. CASE ReadCopy
  BY <1>3 DEF ReadCopy, Available
<1>4. CASE ReadStore
  <2>1. tail' = WrappingAdd(tail, rn) /\ UNCHANGED head /\ rn <= Available
    BY <1>4 DEF ReadStore
  <2>2. Available' = Available - rn /\ Available \in Nat
    BY <2>1, Advances DEF Available
  <2>3. Available' <= Available
    BY <2>2
  <2>4. Available' <= Capacity
    BY <2>2, CounterAssumption
  <2>5. \A s \in Session : wpc[s] = "copy" => Available' + wn[s] <= Capacity
    BY <2>2, CounterAssumption
  <2>6. QED
    BY <1>4, <2>1, <2>4, <2>5 DEF ReadStore
<1>5. QED
  BY <1>1, <1>2, <1>3, <1>4 DEF Read

LEMMA ControlHeld ==
  ASSUME Quiet, Inv, Control
  PROVE  Held'
<1> USE DEF Inv, TypeOK, Held, ring, pumps, device
<1>1. CASE Play
  BY <1>1 DEF Play, Available
<1>2. CASE PauseResume
  BY <1>2 DEF PauseResume, Available
<1>3. CASE Stop
  BY <1>3 DEF Stop, Available
<1>4. CASE ClearLoad
  BY <1>4 DEF ClearLoad, Available
<1>5. CASE ClearStore
  <2>1. tail' = head /\ head' = head
    BY <1>5 DEF ClearStore
  <2>2. Available' = 0
    BY <2>1, Advances DEF Available
  <2>3. QED
    BY <1>5, <2>2, CounterAssumption DEF ClearStore
<1>6. QED
  BY <1>1, <1>2, <1>3, <1>4, <1>5 DEF Control

LEMMA Invariant == ASSUME Quiet PROVE Spec => []Inv
<1>1. Init => Held
  BY Advances, CounterAssumption DEF Init, Held, Available, Cursor
<1>2. Held /\ UNCHANGED vars => Held'
  BY DEF Held, vars, ring, command, pumps, device, Available
<1>3. Inv /\ [Next]_vars => Held'
  BY <1>2, WriteHeld, ReadHeld, ControlHeld DEF Next, Inv
<1>4. Inv <=> (TypeOK /\ Paced) /\ Held
  BY DEF Inv
<1>5. QED
  BY Typed, <1>1, <1>3, <1>4, PTL DEF Spec

(* available() never exceeds the capacity, so the free space a write       *)
(* computes never wraps.                                                   *)
THEOREM NeverOverfull == ASSUME Quiet PROVE Spec => []WithinCapacity
<1>1. Inv => WithinCapacity
  BY DEF Inv, Held, WithinCapacity
<1>2. QED
  BY Invariant, <1>1, PTL

(* The accesses to the buffer that ring.rs declares safe are to different  *)
(* slots whenever both threads are about to make one.                      *)
THEOREM RaceFree == ASSUME Quiet PROVE Spec => []NoRace
<1>1. Inv => NoRace
  <2>1. SUFFICES ASSUME Inv, NEW s \in Session, wpc[s] = "copy", wi[s] < wn[s],
                        rpc = "copy", ri < rn
                 PROVE  Slot(whead[s] + wi[s]) # Slot(rtail + ri)
    BY DEF NoRace
  <2>2. /\ whead[s] = head /\ rtail = tail /\ ri < Available
        /\ Available + wi[s] < Capacity + ri
        /\ head \in Cursor /\ tail \in Cursor /\ wi[s] \in Nat /\ ri \in Nat
    <3>1. Available \in Nat /\ wn[s] \in Nat /\ rn \in Nat /\ wi[s] \in Nat /\ ri \in Nat
      BY <2>1, Advances DEF Inv, TypeOK, Available
    <3>2. QED
      BY <2>1, <3>1, CounterAssumption DEF Inv, TypeOK, Held
  <2>3. QED
    BY <2>2, SlotAhead DEF Available
<1>2. QED
  BY Invariant, <1>1, PTL

-----------------------------------------------------------------------------
(* The ring is a bounded queue.  What the callback has copied is the front *)
(* of it, and stays so while the pump writes.                              *)

Element == Sample \cup {Nothing}

Taken == rpc = "copy" => /\ Len(out) = ri
                         /\ \A k \in 1..ri : out[k] = buffer[Slot(tail + k - 1)]

LEMMA SequenceOf ==
  ASSUME NEW S, NEW n \in Nat, NEW q \in [1..n -> S]
  PROVE  q \in Seq(S) /\ Len(q) = n
OBVIOUS

LEMMA SameSequence ==
  ASSUME NEW S, NEW q \in Seq(S), NEW r \in Seq(S), Len(q) = Len(r),
         \A k \in 1..Len(q) : q[k] = r[k]
  PROVE  q = r
OBVIOUS

LEMMA Part ==
  ASSUME NEW S, NEW q \in Seq(S), NEW m \in 1..(Len(q) + 1), NEW n \in 0..Len(q), m <= n + 1
  PROVE  /\ SubSeq(q, m, n) \in Seq(S) /\ Len(SubSeq(q, m, n)) = n - m + 1
         /\ \A k \in 1..(n - m + 1) : SubSeq(q, m, n)[k] = q[m + k - 1]
OBVIOUS

\* The same, and associativity, for the samples in the queue.
LEMMA PartOfQueue ==
  \A q \in Seq(Element) : \A m \in 1..(Len(q) + 1) : \A n \in 0..Len(q) :
    m <= n + 1 => /\ SubSeq(q, m, n) \in Seq(Element) /\ Len(SubSeq(q, m, n)) = n - m + 1
                  /\ \A k \in 1..(n - m + 1) : SubSeq(q, m, n)[k] = q[m + k - 1]
BY Part

LEMMA Associative ==
  \A p, q, r \in Seq(Element) : (p \o q) \o r = p \o (q \o r)
BY ConcatAssociative

LEMMA Place ==
  ASSUME NEW t \in Nat, NEW n \in Nat
  PROVE  \A k \in 1..n : t + k - 1 \in Nat
OBVIOUS

LEMMA QueueType ==
  ASSUME TypeOK
  PROVE  /\ Available \in Nat /\ Available < Wrap
         /\ \A k \in 1..Available : tail + k - 1 \in Nat /\ Slot(tail + k - 1) \in Slots
         /\ queue \in Seq(Element) /\ Len(queue) = Available
         /\ \A k \in 1..Available : queue[k] = buffer[Slot(tail + k - 1)]
<1>0. head \in Cursor /\ tail \in Cursor
  BY DEF TypeOK
<1>1. Available \in Nat /\ Available < Wrap /\ tail \in Nat
  <2>1. Available \in 0..(Wrap - 1)
    BY <1>0, Advances DEF Available
  <2>2. QED
    BY <1>0, <2>1, CounterAssumption DEF Cursor
<1>2. \A k \in 1..Available : tail + k - 1 \in Nat
  BY <1>1, Place
<1>3. \A k \in 1..Available : Slot(tail + k - 1) \in Slots
  BY <1>2, SlotIsSlot
<1>4. queue \in [1..Available -> Element]
  BY <1>3 DEF TypeOK, queue, Element
<1>5. QED
  BY <1>1, <1>2, <1>3, <1>4, SequenceOf DEF queue

LEMMA QueueTypeNext ==
  ASSUME TypeOK'
  PROVE  /\ Available' \in Nat
         /\ queue' \in Seq(Element) /\ Len(queue') = Available'
         /\ \A k \in 1..Available' : queue'[k] = buffer'[Slot(tail' + k - 1)]
<1>1. Available' \in Nat /\ tail' \in Nat
  BY Advances, CounterAssumption DEF TypeOK, Available, Cursor
<1>2. \A k \in 1..Available' : tail' + k - 1 \in Nat
  BY <1>1, Place
<1>3. \A k \in 1..Available' : Slot(tail' + k - 1) \in Slots
  BY <1>2, SlotIsSlot
<1>4. queue' \in [1..Available' -> Element]
  BY <1>3 DEF TypeOK, queue, Element
<1>5. QED
  BY <1>1, <1>4, SequenceOf DEF queue

(* A pump writes outside the queue. *)
LEMMA WriteOutside ==
  ASSUME Inv, NEW s \in Session, WriteCopy(s), NEW k \in 1..Available
  PROVE  buffer'[Slot(tail + k - 1)] = buffer[Slot(tail + k - 1)]
<1>1. /\ Available \in Nat /\ wi[s] \in Nat /\ wn[s] \in Nat
      /\ head \in Cursor /\ tail \in Cursor
  BY QueueType DEF Inv, TypeOK
<1>2. whead[s] = head /\ Available + wi[s] < Capacity
  BY <1>1, CounterAssumption DEF Inv, Held, WriteCopy
<1>3. Slot(head + wi[s]) # Slot(tail + (k - 1))
  <2>1. k - 1 \in Nat /\ k - 1 < Available /\ Available + wi[s] < Capacity + (k - 1)
    BY <1>1, <1>2, CounterAssumption
  <2>2. QED
    BY <1>1, <2>1, SlotAhead DEF Available
<1>4. tail + (k - 1) = tail + k - 1
  BY <1>1 DEF Cursor
<1>5. Slot(head + wi[s]) \in Slots /\ Slot(tail + k - 1) \in Slots
  BY <1>1, SlotIsSlot, QueueType DEF Inv, Cursor
<1>6. QED
  BY <1>2, <1>3, <1>4, <1>5 DEF WriteCopy, Inv, TypeOK

LEMMA TakenStep ==
  ASSUME Quiet, Inv, Inv', Taken, [Next]_vars
  PROVE  Taken'
<1> USE DEF Taken, ring, command, pumps, device
<1>1. ASSUME NEW s \in Session, Write(s) PROVE Taken'
  <2>1. CASE WriteCopy(s)
    <3>1. UNCHANGED <<tail, rpc, ri, rn, out>>
      BY <2>1 DEF WriteCopy
    <3>2. SUFFICES ASSUME rpc = "copy", NEW k \in 1..ri
                   PROVE  buffer'[Slot(tail + k - 1)] = buffer[Slot(tail + k - 1)]
      BY <3>1
    <3>3. k \in 1..Available
      <4>1. Available \in Nat /\ ri \in Nat /\ rn \in Nat
        BY QueueType DEF Inv, TypeOK
      <4>2. ri <= rn /\ rn <= Available
        BY <3>2 DEF Inv, Held
      <4>3. QED
        BY <3>2, <4>1, <4>2
    <3>4. QED
      BY <2>1, <3>3, WriteOutside
  <2>2. CASE ~WriteCopy(s)
    BY <1>1, <2>2 DEF Write, WriteLoadHead, WriteLoadTail, WriteStore
  <2>3. QED
    BY <2>1, <2>2
<1>2. CASE Read
  <2>1. CASE ReadLoadTail
    BY <2>1 DEF ReadLoadTail
  <2>2. CASE ReadLoadHead
    BY <2>2 DEF ReadLoadHead
  <2>3. CASE ReadCopy
    <3>1. /\ rpc = "copy" /\ UNCHANGED <<tail, buffer, rpc>> /\ ri' = ri + 1
          /\ out' = Append(out, buffer[Slot(rtail + ri)]) /\ rtail = tail
          /\ out \in Seq(Element) /\ ri \in Nat /\ tail \in Nat
      BY <2>3 DEF ReadCopy, Inv, Held, TypeOK, Cursor, Element
    <3>2. Slot(tail + ri) = Slot(tail + (ri + 1) - 1)
      <4>1. tail + ri = tail + (ri + 1) - 1
        BY <3>1
      <4>2. QED
        BY <4>1
    <3>3. Len(out) = ri /\ \A k \in 1..ri : out[k] = buffer[Slot(tail + k - 1)]
      BY <3>1
    <3>4. Len(out') = ri + 1 /\ out'[ri + 1] = buffer[Slot(tail + ri)]
      BY <3>1, <3>3
    <3>5. \A k \in 1..ri : out'[k] = out[k]
      BY <3>1, <3>3
    <3>6. \A k \in 1..(ri + 1) : k \in 1..ri \/ k = ri + 1
      BY <3>1
    <3>7. QED
      BY <3>1, <3>2, <3>3, <3>4, <3>5, <3>6
  <2>4. CASE ReadStore
    BY <2>4 DEF ReadStore
  <2>5. QED
    BY <1>2, <2>1, <2>2, <2>3, <2>4 DEF Read
<1>3. CASE Control
  <2>1. CASE ClearStore
    BY <2>1 DEF ClearStore, Inv, Held
  <2>2. CASE ~ClearStore
    BY <1>3, <2>2 DEF Control, Play, PauseResume, Stop, ClearLoad
  <2>3. QED
    BY <2>1, <2>2
<1>4. CASE UNCHANGED vars
  BY <1>4 DEF vars
<1>5. QED
  BY <1>1, <1>2, <1>3, <1>4 DEF Next

-----------------------------------------------------------------------------
(* Every step is one of the queue, or none. *)

LEMMA StutterSame ==
  ASSUME UNCHANGED <<head, tail, buffer, heard>>
  PROVE  UNCHANGED <<queue, heard>>
BY DEF queue, Available

LEMMA CopyStutters ==
  ASSUME Inv, Inv', NEW s \in Session, WriteCopy(s)
  PROVE  UNCHANGED <<queue, heard>>
<1>1. UNCHANGED <<head, tail, heard, Available>>
  BY DEF WriteCopy, device, Available
<1>2. /\ queue \in Seq(Element) /\ queue' \in Seq(Element)
      /\ Len(queue) = Available /\ Len(queue') = Available
      /\ \A k \in 1..Available : /\ queue[k] = buffer[Slot(tail + k - 1)]
                                 /\ queue'[k] = buffer'[Slot(tail + k - 1)]
  BY <1>1, QueueType, QueueTypeNext DEF Inv
<1>3. \A k \in 1..Available : queue'[k] = queue[k]
  BY <1>2, WriteOutside
<1>4. QED
  BY <1>1, <1>2, <1>3, SameSequence

LEMMA StorePuts ==
  ASSUME Inv, Inv', NEW s \in Session, WriteStore(s)
  PROVE  Abstract!Put
<1>1. /\ head' = WrappingAdd(head, wn[s]) /\ UNCHANGED <<tail, buffer, heard>>
      /\ Available + wn[s] <= Capacity /\ wn[s] \in Nat
      /\ head \in Cursor /\ tail \in Cursor
  BY DEF WriteStore, Inv, TypeOK, Held, device
<1>2. Available' = Available + wn[s]
  BY <1>1, Advances DEF Available
<1>3. /\ queue \in Seq(Element) /\ queue' \in Seq(Element)
      /\ Len(queue) = Available /\ Len(queue') = Available' /\ Available \in Nat
      /\ \A k \in 1..Available : queue[k] = buffer[Slot(tail + k - 1)]
      /\ \A k \in 1..Available' : queue'[k] = buffer[Slot(tail + k - 1)]
  BY <1>1, QueueType, QueueTypeNext DEF Inv
<1>4. Len(queue') \in Len(queue)..Capacity
  BY <1>1, <1>2, <1>3, CounterAssumption
<1>5. /\ SubSeq(queue', 1, Available) \in Seq(Element)
      /\ Len(SubSeq(queue', 1, Available)) = Available
      /\ \A k \in 1..Available : SubSeq(queue', 1, Available)[k] = queue'[k]
  <2>1. 1 \in 1..(Len(queue') + 1) /\ Available \in 0..Len(queue') /\ 1 <= Available + 1
        /\ Available - 1 + 1 = Available
    BY <1>1, <1>2, <1>3
  <2>2. \A k \in 1..Available : 1 + k - 1 = k
    OBVIOUS
  <2>3. QED
    BY <1>3, <2>1, <2>2, Part
<1>6. \A k \in 1..Available : queue'[k] = queue[k]
  BY <1>1, <1>2, <1>3
<1>7. SubSeq(queue', 1, Len(queue)) = queue
  BY <1>3, <1>5, <1>6, SameSequence
<1>8. QED
  BY <1>1, <1>4, <1>7 DEF Abstract!Put

LEMMA StoreTakes ==
  ASSUME Inv, Inv', Taken, ReadStore
  PROVE  Abstract!Take
<1>1. /\ tail' = WrappingAdd(tail, rn) /\ UNCHANGED <<head, buffer>>
      /\ heard' = heard \o out /\ rpc = "copy" /\ ri = rn
      /\ rn <= Available /\ rn \in Nat /\ Available <= Capacity
      /\ head \in Cursor /\ tail \in Cursor /\ out \in Seq(Element)
  BY DEF ReadStore, Inv, TypeOK, Held, Element
<1>2. Available' = Available - rn
  BY <1>1, Advances DEF Available
<1>3. /\ queue \in Seq(Element) /\ queue' \in Seq(Element)
      /\ Len(queue) = Available /\ Len(queue') = Available - rn /\ Available \in Nat
      /\ \A k \in 1..Available : queue[k] = buffer[Slot(tail + k - 1)]
      /\ \A k \in 1..(Available - rn) : queue'[k] = buffer[Slot(tail' + k - 1)]
  BY <1>1, <1>2, QueueType, QueueTypeNext DEF Inv
<1>4. out = SubSeq(queue, 1, rn)
  <2>1. /\ SubSeq(queue, 1, rn) \in Seq(Element) /\ Len(SubSeq(queue, 1, rn)) = rn
        /\ \A k \in 1..rn : SubSeq(queue, 1, rn)[k] = queue[k]
    <3>1. 1 \in 1..(Len(queue) + 1) /\ rn \in 0..Len(queue) /\ 1 <= rn + 1 /\ rn - 1 + 1 = rn
      BY <1>1, <1>3
    <3>2. \A k \in 1..rn : 1 + k - 1 = k
      OBVIOUS
    <3>3. QED
      BY <1>3, <3>1, <3>2, Part
  <2>2. Len(out) = rn /\ \A k \in 1..rn : out[k] = buffer[Slot(tail + k - 1)]
    BY <1>1 DEF Taken
  <2>3. \A k \in 1..rn : k \in 1..Available
    BY <1>1, <1>3
  <2>4. \A k \in 1..rn : out[k] = SubSeq(queue, 1, rn)[k]
    BY <1>3, <2>1, <2>2, <2>3
  <2>5. QED
    BY <1>1, <2>1, <2>2, <2>4, SameSequence
<1>5. queue' = SubSeq(queue, rn + 1, Len(queue))
  <2>1. /\ SubSeq(queue, rn + 1, Available) \in Seq(Element)
        /\ Len(SubSeq(queue, rn + 1, Available)) = Available - rn
        /\ \A k \in 1..(Available - rn) :
             SubSeq(queue, rn + 1, Available)[k] = queue[rn + 1 + k - 1]
    <3>1. /\ rn + 1 \in 1..(Len(queue) + 1) /\ Available \in 0..Len(queue)
          /\ rn + 1 <= Available + 1 /\ Available - (rn + 1) + 1 = Available - rn
      BY <1>1, <1>3
    <3>2. QED
      BY <1>3, <3>1, PartOfQueue
  <2>2. ASSUME NEW k \in 1..(Available - rn)
        PROVE  queue'[k] = queue[rn + 1 + k - 1]
    <3>1. /\ rn + 1 + k - 1 \in 1..Available /\ k - 1 \in Nat /\ rn \in 0..Capacity
          /\ tail + (rn + 1 + k - 1) - 1 = tail + rn + (k - 1)
          /\ tail' + (k - 1) = tail' + k - 1
      BY <1>1, <1>3, SlotAdvanced, CounterAssumption DEF Cursor
    <3>2. Slot(tail' + (k - 1)) = Slot(tail + rn + (k - 1))
      BY <1>1, <3>1, SlotAdvanced
    <3>3. QED
      BY <1>3, <3>1, <3>2
  <2>3. QED
    BY <1>3, <2>1, <2>2, SameSequence
<1>6. rn \in 0..Len(queue)
  BY <1>1, <1>3
<1>7. QED
  BY <1>1, <1>4, <1>5, <1>6 DEF Abstract!Take

LEMMA ClearClears ==
  ASSUME Inv, Inv', ClearStore
  PROVE  Abstract!Clear
<1>1. Available' = 0
  BY Advances DEF ClearStore, Inv, TypeOK, Held, Available
<1>2. queue' \in Seq(Element) /\ Len(queue') = 0
  BY <1>1, QueueTypeNext DEF Inv
<1>3. queue' = <<>>
  BY <1>2
<1>4. QED
  BY <1>3 DEF Abstract!Clear, ClearStore, device

LEMMA QueueStep ==
  ASSUME Inv, Inv', Taken, [Next]_vars
  PROVE  [Abstract!Next]_<<queue, heard>>
<1> USE DEF ring, command, pumps, device
<1>1. ASSUME NEW s \in Session, Write(s) PROVE [Abstract!Next]_<<queue, heard>>
  <2>1. CASE WriteCopy(s)
    BY <2>1, CopyStutters
  <2>2. CASE WriteStore(s)
    BY <2>2, StorePuts DEF Abstract!Next
  <2>3. CASE WriteLoadHead(s) \/ WriteLoadTail(s)
    BY <2>3, StutterSame DEF WriteLoadHead, WriteLoadTail
  <2>4. QED
    BY <1>1, <2>1, <2>2, <2>3 DEF Write
<1>2. CASE Read
  <2>1. CASE ReadStore
    BY <2>1, StoreTakes DEF Abstract!Next
  <2>2. CASE ReadLoadTail \/ ReadLoadHead \/ ReadCopy
    BY <2>2, StutterSame DEF ReadLoadTail, ReadLoadHead, ReadCopy
  <2>3. QED
    BY <1>2, <2>1, <2>2 DEF Read
<1>3. CASE Control
  <2>1. CASE ClearStore
    BY <2>1, ClearClears DEF Abstract!Next
  <2>2. CASE Play \/ PauseResume \/ Stop \/ ClearLoad
    BY <2>2, StutterSame DEF Play, PauseResume, Stop, ClearLoad
  <2>3. QED
    BY <1>3, <2>1, <2>2 DEF Control
<1>4. CASE UNCHANGED vars
  BY <1>4, StutterSame DEF vars
<1>5. QED
  BY <1>1, <1>2, <1>3, <1>4 DEF Next

(* The ring implements a bounded queue: what is put, taken and cleared is  *)
(* one step each, at the store of a cursor, wherever the threads are.      *)
THEOREM RingIsQueue == ASSUME Quiet PROVE Spec => ImplementsQueue
<1>1. Init /\ Inv => Abstract!Init
  <2>1. SUFFICES ASSUME Init, Inv PROVE queue = <<>> /\ heard = <<>>
    BY DEF Abstract!Init
  <2>2. head = 0 /\ tail = 0 /\ 0 \in Cursor
    BY <2>1, CounterAssumption DEF Init, Cursor
  <2>2a. Available = 0
    BY <2>2, Advances DEF Available
  <2>3. queue \in Seq(Element) /\ Len(queue) = 0
    BY <2>1, <2>2a, QueueType DEF Inv
  <2>4. QED
    BY <2>1, <2>3 DEF Init
<1>2. Init => Taken
  BY DEF Init, Taken
<1>3. Quiet /\ Inv /\ Inv' /\ Taken /\ [Next]_vars => Taken'
  BY TakenStep
<1>4. Inv /\ Inv' /\ Taken /\ [Next]_vars => [Abstract!Next]_<<queue, heard>>
  BY QueueStep
<1>5. QED
  BY Invariant, <1>1, <1>2, <1>3, <1>4, PTL DEF Spec, ImplementsQueue, Abstract!Spec

-----------------------------------------------------------------------------
(* Nothing is lost, repeated or stale, if sessions and periods are of whole *)
(* frames: then so is everything between the cursors, and no write is       *)
(* answered with less than it put.                                          *)

WholeFrames == Samples % Channels = 0 /\ Period % Channels = 0

Whole(n) == \E q \in Int : n = Channels * q

Framed ==
  /\ Whole(Available)
  /\ \A s \in Session : Whole(sent[s]) /\ (wpc[s] = "copy" => Whole(wn[s]))
  /\ rpc = "copy" => Whole(rn)

LEMMA WholeFacts ==
  /\ Whole(0) /\ Whole(Capacity)
  /\ WholeFrames => Whole(Samples) /\ Whole(Period)
<1>1. ASSUME NEW n \in Nat, n % Channels = 0 PROVE Whole(n)
  <2> DEFINE q == n \div Channels
             m == Channels * q
  <2>1. n = m + (n % Channels) /\ q \in Int
    BY Remainder, RingAssumption
  <2>2. m \in Int
    BY <2>1, RingAssumption
  <2> HIDE DEF m
  <2>3. n = m
    BY <1>1, <2>1, <2>2
  <2>4. QED
    BY <2>1, <2>3 DEF Whole, m
<1>2. Whole(0)
  BY RingAssumption DEF Whole
<1>3. QED
  BY <1>1, <1>2, RingAssumption, CounterAssumption DEF WholeFrames

LEMMA WholeSum ==
  ASSUME NEW a \in Int, NEW b \in Int, Whole(a), Whole(b)
  PROVE  Whole(a + b) /\ Whole(a - b)
<1>1. PICK p \in Int : a = Channels * p
  BY DEF Whole
<1>2. PICK q \in Int : b = Channels * q
  BY DEF Whole
<1>3. Channels * (p + q) = a + b /\ Channels * (p - q) = a - b
  BY <1>1, <1>2, Distributes, RingAssumption
<1>4. p + q \in Int /\ p - q \in Int
  OBVIOUS
<1>5. QED
  BY <1>3, <1>4 DEF Whole

LEMMA WholeSmaller ==
  ASSUME NEW a, NEW b, Whole(a), Whole(b)
  PROVE  Whole(Smaller(a, b))
BY DEF Smaller

LEMMA WholeTold ==
  ASSUME NEW n \in Nat, Whole(n)
  PROVE  Told(n) = n
<1>1. PICK p \in Int : n = Channels * p
  BY DEF Whole
<1>2. (Channels * p + 0) % Channels = 0
  BY RemainderUnique, RingAssumption
<1>3. n % Channels = 0
  <2> DEFINE m == Channels * p
  <2>1. m = n /\ (m + 0) % Channels = 0
    BY <1>1, <1>2
  <2> HIDE DEF m
  <2>2. m + 0 = n
    BY <2>1
  <2>3. QED
    BY <2>1, <2>2
<1> DEFINE q == n \div Channels
           m == Channels * q
<1>4. n = m + (n % Channels) /\ q \in Int
  BY Remainder, RingAssumption
<1>5. m \in Int /\ Told(n) = m
  BY <1>4, RingAssumption DEF Told
<1> HIDE DEF m
<1>6. QED
  BY <1>3, <1>4, <1>5

LEMMA SpaceIs ==
  ASSUME Inv, NEW s \in Session, wpc[s] = "tail"
  PROVE  Space(s) = Capacity - Available /\ Available \in Nat /\ Available <= Capacity
<1>1. WrappingSub(whead[s], tail) = Available /\ Available <= Capacity
  BY DEF Inv, Held, Available
<1>2. Available \in Nat
  BY QueueType DEF Inv
<1>3. QED
  BY <1>1, <1>2, CounterAssumption DEF Space, WrappingSub

LEMMA FramedStep ==
  ASSUME WholeFrames, Inv, Framed, [Next]_vars
  PROVE  Framed'
<1> USE DEF Framed, ring, command, pumps, device
<1>0. /\ Available \in Nat /\ head \in Cursor /\ tail \in Cursor
      /\ rn \in Nat /\ \A s \in Session : sent[s] \in Nat /\ wn[s] \in Nat /\ whead[s] \in Cursor
  BY QueueType DEF Inv, TypeOK
<1>1. ASSUME NEW s \in Session, Write(s) PROVE Framed'
  <2>1. CASE WriteLoadHead(s)
    BY <2>1 DEF WriteLoadHead, Available, Inv, TypeOK
  <2>2. CASE WriteLoadTail(s)
    <3>1. Whole(Samples - sent[s]) /\ Whole(Capacity - Available)
      <4>1. /\ Samples \in Int /\ sent[s] \in Int /\ Capacity \in Int /\ Available \in Int
            /\ Whole(Samples) /\ Whole(sent[s]) /\ Whole(Capacity) /\ Whole(Available)
        BY <1>0, WholeFacts, RingAssumption, CounterAssumption
      <4>2. Whole(Samples - sent[s])
        BY ONLY <4>1, WholeSum
      <4>3. Whole(Capacity - Available)
        BY ONLY <4>1, WholeSum
      <4>4. QED
        BY <4>2, <4>3
    <3>2. Whole(Smaller(Samples - sent[s], Space(s)))
      BY <2>2, <3>1, SpaceIs, WholeSmaller DEF WriteLoadTail
    <3>3. wn' = [wn EXCEPT ![s] = Smaller(Samples - sent[s], Space(s))]
      BY <2>2 DEF WriteLoadTail
    <3>4. Whole(wn'[s]) /\ \A e \in Session \ {s} : wn'[e] = wn[e] /\ wpc'[e] = wpc[e]
      BY <2>2, <3>2, <3>3 DEF WriteLoadTail, Inv, TypeOK
    <3>5. UNCHANGED <<Available, sent, rpc, rn>>
      BY <2>2 DEF WriteLoadTail, Available
    <3>6. QED
      BY <3>4, <3>5
  <2>3. CASE WriteCopy(s)
    BY <2>3 DEF WriteCopy, Available
  <2>4. CASE WriteStore(s)
    <3>1. /\ head' = WrappingAdd(head, wn[s]) /\ UNCHANGED <<tail, wn, rpc, rn>>
          /\ Available + wn[s] <= Capacity /\ Whole(wn[s])
      BY <2>4 DEF WriteStore, Inv, Held
    <3>2. Available' = Available + wn[s]
      BY <1>0, <3>1, Advances DEF Available
    <3>3. sent'[s] = sent[s] + wn[s] /\ \A e \in Session \ {s} : sent'[e] = sent[e]
      <4>1. Told(wn[s]) = wn[s]
        BY <1>0, <3>1, WholeTold
      <4>2. QED
        BY <2>4, <4>1 DEF WriteStore, Inv, TypeOK
    <3>4. Whole(Available + wn[s]) /\ Whole(sent[s] + wn[s])
      <4>1. /\ Available \in Int /\ sent[s] \in Int /\ wn[s] \in Int
            /\ Whole(Available) /\ Whole(sent[s]) /\ Whole(wn[s])
        BY <1>0, <3>1
      <4>2. Whole(Available + wn[s])
        BY ONLY <4>1, WholeSum
      <4>3. Whole(sent[s] + wn[s])
        BY ONLY <4>1, WholeSum
      <4>4. QED
        BY <4>2, <4>3
    <3>5. \A e \in Session : wpc'[e] = "copy" => wpc[e] = "copy"
      BY <2>4 DEF WriteStore, Inv, TypeOK
    <3>6. QED
      BY <3>1, <3>2, <3>3, <3>4, <3>5
  <2>5. QED
    BY <1>1, <2>1, <2>2, <2>3, <2>4 DEF Write
<1>2. CASE Read
  <2>1. CASE ReadLoadTail
    BY <2>1 DEF ReadLoadTail, Available
  <2>2. CASE ReadLoadHead
    <3>1. rn' = Smaller(Period, Available) /\ UNCHANGED <<Available, sent, wpc, wn>>
      BY <2>2 DEF ReadLoadHead, Inv, Held, Available
    <3>2. QED
      BY <3>1, WholeFacts, WholeSmaller
  <2>3. CASE ReadCopy
    BY <2>3 DEF ReadCopy, Available
  <2>4. CASE ReadStore
    <3>1. /\ tail' = WrappingAdd(tail, rn) /\ UNCHANGED <<head, sent, wpc, wn>>
          /\ rn <= Available /\ Whole(rn) /\ rpc' = "idle"
      BY <2>4 DEF ReadStore, Inv, Held
    <3>2. Available' = Available - rn
      BY <1>0, <3>1, Advances DEF Available
    <3>3. Whole(Available - rn)
      BY <1>0, <3>1, WholeSum
    <3>4. QED
      BY <3>1, <3>2, <3>3
  <2>5. QED
    BY <1>2, <2>1, <2>2, <2>3, <2>4 DEF Read
<1>3. CASE Control
  <2>1. CASE ClearStore
    <3>1. Available' = 0
      BY <1>0, <2>1, Advances DEF ClearStore, Inv, Held, Available
    <3>2. QED
      BY <2>1, <3>1, WholeFacts DEF ClearStore
  <2>2. CASE ~ClearStore
    BY <1>3, <2>2 DEF Control, Play, PauseResume, Stop, ClearLoad, Available
  <2>3. QED
    BY <2>1, <2>2
<1>4. CASE UNCHANGED vars
  BY <1>4 DEF vars, Available
<1>5. QED
  BY <1>1, <1>2, <1>3, <1>4 DEF Next

-----------------------------------------------------------------------------
(* What the device was given, followed by what is in the queue.            *)

Stream == heard \o queue

Follows(x, y) ==
  IF y.session = x.session THEN y.index = x.index + 1
                           ELSE y.index = 0 /\ x.session < y.session

Ordered(q) ==
  /\ q # <<>> => q[1].index = 0
  /\ \A k \in 1..(Len(q) - 1) : Follows(q[k], q[k + 1])

\* The next sample to come is the one with index n of session s.
Upto(q, s, n) ==
  IF n = 0 THEN q # <<>> => q[Len(q)].session < s
           ELSE q # <<>> /\ q[Len(q)] = [session |-> s, index |-> n - 1]

Delivered ==
  /\ Ordered(Stream)
  /\ \A k \in 1..Len(Stream) : Stream[k].session <= session
  /\ \A s \in Session : s > session => sent[s] = 0
  /\ control = "session" => session \in Session /\ Upto(Stream, session, sent[session])

Written ==
  \A s \in Session : wpc[s] = "copy" =>
    \A i \in Nat : i < wi[s] => buffer[Slot(head + i)] = [session |-> s, index |-> sent[s] + i]

LEMMA Concatenation ==
  ASSUME NEW S, NEW q \in Seq(S), NEW r \in Seq(S)
  PROVE  /\ q \o r \in Seq(S) /\ Len(q \o r) = Len(q) + Len(r)
         /\ \A k \in 1..Len(q) : (q \o r)[k] = q[k]
         /\ \A k \in 1..Len(r) : (q \o r)[Len(q) + k] = r[k]
OBVIOUS

LEMMA ElementFields ==
  ASSUME NEW x \in Element
  PROVE  x.session \in Nat /\ x.index \in Nat
BY RingAssumption DEF Element, Sample, Nothing, Session

LEMMA OrderedPrefix ==
  ASSUME NEW q \in Seq(Element), NEW r \in Seq(Element), Ordered(q \o r)
  PROVE  Ordered(q)
<1>1. /\ Len(q \o r) = Len(q) + Len(r) /\ Len(q) \in Nat /\ Len(r) \in Nat
      /\ q \o r \in Seq(Element)
      /\ \A k \in 1..Len(q) : (q \o r)[k] = q[k]
  BY Concatenation
<1>2. ASSUME q # <<>> PROVE q[1].index = 0
  <2>1. 1 \in 1..Len(q) /\ q \o r # <<>>
    BY <1>1, <1>2
  <2>2. QED
    BY <1>1, <2>1 DEF Ordered
<1>3. ASSUME NEW k \in 1..(Len(q) - 1) PROVE Follows(q[k], q[k + 1])
  <2>1. k \in 1..Len(q) /\ k + 1 \in 1..Len(q) /\ k \in 1..(Len(q \o r) - 1)
    BY <1>1
  <2>2. Follows((q \o r)[k], (q \o r)[k + 1])
    BY <2>1 DEF Ordered
  <2>3. QED
    BY <1>1, <2>1, <2>2
<1>4. QED
  BY <1>2, <1>3 DEF Ordered

LEMMA OrderedMore ==
  ASSUME NEW q \in Seq(Element), NEW r \in Seq(Element), NEW s \in Nat, NEW n \in Nat,
         Ordered(q), Upto(q, s, n),
         \A k \in 1..Len(r) : r[k] = [session |-> s, index |-> n + k - 1]
  PROVE  Ordered(q \o r) /\ Upto(q \o r, s, n + Len(r))
<1> DEFINE t == q \o r
           a == Len(q)
           b == Len(r)
<1>1. /\ t \in Seq(Element) /\ Len(t) = a + b /\ a \in Nat /\ b \in Nat
      /\ \A k \in 1..a : t[k] = q[k]
      /\ \A k \in 1..b : t[a + k] = [session |-> s, index |-> n + k - 1]
  BY Concatenation
<1>2. q = <<>> <=> a = 0
  OBVIOUS
<1>3. t = <<>> <=> a + b = 0
  BY <1>1
<1>4. \A k \in 1..a : q[k].session \in Nat /\ q[k].index \in Nat
  BY ElementFields
<1> HIDE DEF t
<1>5. ASSUME t # <<>> PROVE t[1].index = 0
  <2>1. CASE a > 0
    BY <1>1, <1>2, <2>1 DEF Ordered
  <2>2. CASE a = 0
    <3>1. b >= 1 /\ t[a + 1] = [session |-> s, index |-> n + 1 - 1]
      BY <1>1, <1>3, <1>5, <2>2
    <3>2. n = 0
      BY <1>2, <2>2 DEF Upto
    <3>3. QED
      BY <2>2, <3>1, <3>2
  <2>3. QED
    BY <1>1, <2>1, <2>2
<1>6. ASSUME NEW k \in 1..(a + b - 1) PROVE Follows(t[k], t[k + 1])
  <2>1. CASE k < a
    <3>1. k \in 1..(a - 1) /\ k \in 1..a /\ k + 1 \in 1..a
      BY <1>1, <2>1
    <3>2. QED
      BY <1>1, <3>1 DEF Ordered
  <2>2. CASE k = a
    <3>1. t[a] = q[a] /\ t[a + 1] = [session |-> s, index |-> n] /\ a > 0
      <4>1. 1 \in 1..b /\ a \in 1..a
        BY <1>1, <2>2
      <4>2. t[a + 1] = [session |-> s, index |-> n + 1 - 1] /\ n + 1 - 1 = n
        BY <1>1, <4>1
      <4>3. QED
        BY <1>1, <4>1, <4>2
    <3>2. q # <<>> /\ q[a].session \in Nat
      BY <1>2, <1>4, <3>1, <1>1
    <3>3. CASE n = 0
      BY <2>2, <3>1, <3>2, <3>3 DEF Upto, Follows
    <3>4. CASE n # 0
      BY <2>2, <3>1, <3>2, <3>4 DEF Upto, Follows
    <3>5. QED
      BY <3>3, <3>4
  <2>3. CASE k > a
    <3> DEFINE j == k - a
    <3>1. j \in 1..b /\ j + 1 \in 1..b /\ k = a + j /\ k + 1 = a + (j + 1)
      BY <1>1, <2>3
    <3>2. /\ t[k] = [session |-> s, index |-> n + j - 1]
          /\ t[k + 1] = [session |-> s, index |-> n + (j + 1) - 1]
      BY <1>1, <3>1
    <3>3. n + (j + 1) - 1 = n + j - 1 + 1
      BY <3>1
    <3>4. QED
      BY <3>2, <3>3 DEF Follows
  <2>4. QED
    BY <1>1, <2>1, <2>2, <2>3
<1>7. Ordered(t)
  BY <1>1, <1>5, <1>6 DEF Ordered
<1>8. Upto(t, s, n + b)
  <2>1. CASE b = 0
    <3>1. n + b = n /\ Len(t) = a
      BY <1>1, <2>1
    <3>2. t # <<>> <=> q # <<>>
      BY <1>1, <1>2, <1>3, <2>1
    <3>3. q # <<>> => t[a] = q[a]
      <4>1. q # <<>> => a \in 1..a
        BY <1>1, <1>2
      <4>2. QED
        BY <1>1, <4>1
    <3>4. QED
      BY <3>1, <3>2, <3>3 DEF Upto
  <2>2. CASE b > 0
    <3>1. t # <<>> /\ n + b # 0 /\ b \in 1..b /\ t[a + b] = [session |-> s, index |-> n + b - 1]
      BY <1>1, <1>3, <2>2
    <3>2. QED
      BY <1>1, <3>1 DEF Upto
  <2>3. QED
    BY <1>1, <2>1, <2>2
<1>9. QED
  BY <1>7, <1>8 DEF t

\* The writer's cursor is where the queue ends.
LEMMA HeadIs ==
  ASSUME Inv, NEW i \in Nat
  PROVE  Slot(head + i) = Slot(tail + Available + i)
<1>1. head \in Cursor /\ tail \in Cursor /\ Available \in 0..Capacity
  BY QueueType, CounterAssumption DEF Inv, TypeOK, Held
<1>2. head = WrappingAdd(tail, Available)
  BY <1>1, CounterAssumption DEF WrappingAdd, Available, WrappingSub, Cursor
<1>3. QED
  BY <1>1, <1>2, SlotAdvanced

\* A pump copies each sample to a slot of its own.
LEMMA WrittenOnce ==
  ASSUME Inv, NEW s \in Session, wpc[s] = "copy", wi[s] < wn[s], NEW i \in Nat, i < wi[s]
  PROVE  /\ Slot(head + i) \in Slots /\ Slot(head + wi[s]) \in Slots
         /\ Slot(head + i) # Slot(head + wi[s])
<1>1. /\ head \in Nat /\ wi[s] \in Nat /\ wn[s] \in Nat /\ Available \in Nat
      /\ Available + wn[s] <= Capacity
  BY QueueType, CounterAssumption DEF Inv, TypeOK, Held, Cursor
<1>2. /\ head + i \in Nat /\ head + wi[s] \in Nat /\ head + i < head + wi[s]
      /\ (head + wi[s]) - (head + i) < Capacity
  BY <1>1, CounterAssumption
<1>3. QED
  BY <1>2, SlotsDiffer, SlotIsSlot

LEMMA WrittenStep ==
  ASSUME Quiet, Inv, Written, [Next]_vars
  PROVE  Written'
<1> USE DEF Written, ring, command, pumps, device
<1>1. ASSUME NEW s \in Session, Write(s) PROVE Written'
  <2>0. /\ \A e \in Session : wpc[e] # "idle" => e = session
        /\ wpc \in [Session -> {"idle", "tail", "copy"}] /\ wi \in [Session -> Nat]
    BY DEF Inv, TypeOK, Held
  <2>1. CASE WriteLoadHead(s)
    BY <2>0, <2>1 DEF WriteLoadHead
  <2>2. CASE WriteLoadTail(s)
    <3>1. /\ wi' = [wi EXCEPT ![s] = 0] /\ wpc' = [wpc EXCEPT ![s] = "copy"]
          /\ UNCHANGED <<buffer, head, sent>>
      BY <2>2 DEF WriteLoadTail
    <3>2. wi'[s] = 0 /\ \A e \in Session \ {s} : wi'[e] = wi[e] /\ wpc'[e] = wpc[e]
      BY <2>0, <3>1
    <3>3. QED
      BY <3>1, <3>2
  <2>3. CASE WriteCopy(s)
    <3>1. /\ whead[s] = head /\ s = session /\ wpc[s] = "copy" /\ wi[s] < wn[s]
          /\ UNCHANGED <<head, wpc, sent>> /\ wi[s] \in Nat /\ buffer \in [Slots -> Element]
          /\ wi'[s] = wi[s] + 1
          /\ buffer' = [buffer EXCEPT ![Slot(head + wi[s])] =
                          [session |-> s, index |-> sent[s] + wi[s]]]
      BY <2>0, <2>3 DEF WriteCopy, Inv, Held, TypeOK, Element
    <3>2. SUFFICES ASSUME NEW i \in Nat, i < wi[s] + 1
                   PROVE  buffer'[Slot(head + i)] = [session |-> s, index |-> sent[s] + i]
      BY <2>0, <3>1
    <3>3. CASE i = wi[s]
      <4>1. Slot(head + wi[s]) \in Slots
        BY <3>1, SlotIsSlot DEF Inv, TypeOK, Cursor
      <4>2. QED
        BY <3>1, <3>3, <4>1
    <3>4. CASE i < wi[s]
      BY <3>1, <3>4, WrittenOnce
    <3>5. QED
      BY <3>1, <3>2, <3>3, <3>4
  <2>4. CASE WriteStore(s)
    BY <2>0, <2>4 DEF WriteStore
  <2>5. QED
    BY <1>1, <2>1, <2>2, <2>3, <2>4 DEF Write
<1>2. CASE Read
  BY <1>2 DEF Read, ReadLoadTail, ReadLoadHead, ReadCopy, ReadStore
<1>3. CASE Control
  BY <1>3 DEF Control, Play, PauseResume, Stop, ClearLoad, ClearStore
<1>4. CASE UNCHANGED vars
  BY <1>4 DEF vars
<1>5. QED
  BY <1>1, <1>2, <1>3, <1>4 DEF Next

LEMMA StreamType ==
  ASSUME Inv
  PROVE  /\ heard \in Seq(Element) /\ queue \in Seq(Element) /\ Stream \in Seq(Element)
         /\ Len(Stream) = Len(heard) + Len(queue)
<1>1. heard \in Seq(Element) /\ queue \in Seq(Element)
  BY QueueType DEF Inv, TypeOK, Element
<1>2. QED
  BY <1>1, Concatenation DEF Stream

LEMMA TakeKeeps ==
  ASSUME Inv, Abstract!Take
  PROVE  Stream' = Stream
<1>1. PICK n \in 0..Len(queue) : /\ heard' = heard \o SubSeq(queue, 1, n)
                                 /\ queue' = SubSeq(queue, n + 1, Len(queue))
  BY DEF Abstract!Take
<1> DEFINE f == SubSeq(queue, 1, n)
           g == SubSeq(queue, n + 1, Len(queue))
<1>2. heard \in Seq(Element) /\ queue \in Seq(Element) /\ Len(queue) \in Nat
  BY StreamType
<1>3. f \o g = queue
  <2>1. 1 \in 1..(Len(queue) + 1) /\ n \in (1 - 1)..Len(queue) /\ Len(queue) \in n..Len(queue)
    BY <1>2
  <2>2. f \o g = SubSeq(queue, 1, Len(queue))
    BY <1>2, <2>1, ConcatAdjacentSubSeq
  <2>3. QED
    BY <1>2, <2>2, SubSeqFull
<1>4. f \in Seq(Element) /\ g \in Seq(Element)
  <2>1. /\ 1 \in 1..(Len(queue) + 1) /\ n + 1 \in 1..(Len(queue) + 1) /\ 1 <= n + 1
        /\ n \in 0..Len(queue) /\ Len(queue) \in 0..Len(queue) /\ n + 1 <= Len(queue) + 1
    BY <1>2
  <2>2. f \in Seq(Element)
    BY <1>2, <2>1, Part
  <2>3. g \in Seq(Element)
    BY <1>2, <2>1, Part
  <2>4. QED
    BY <2>2, <2>3
<1> HIDE DEF f, g
<1>5. (heard \o f) \o g = heard \o (f \o g)
  BY <1>2, <1>4, Associative
<1>6. QED
  BY <1>1, <1>3, <1>5 DEF Stream, f, g

\* A store of the head appends what the pump has copied.
LEMMA StoreAppends ==
  ASSUME WholeFrames, Inv, Inv', Framed, Written, NEW s \in Session, WriteStore(s)
  PROVE  \E r \in Seq(Element) :
           /\ Stream' = Stream \o r /\ sent'[s] = sent[s] + Len(r)
           /\ \A k \in 1..Len(r) : r[k] = [session |-> s, index |-> sent[s] + k - 1]
<1> DEFINE b == Available
           n == wn[s]
           r == SubSeq(queue', b + 1, b + n)
<1>1. /\ wpc[s] = "copy" /\ wi[s] = n /\ whead[s] = head /\ b + n <= Capacity
      /\ head' = WrappingAdd(head, n) /\ UNCHANGED <<tail, buffer, heard>>
      /\ head \in Cursor /\ tail \in Cursor /\ n \in Nat /\ sent[s] \in Nat
      /\ sent \in [Session -> Nat] /\ Whole(n)
  BY DEF WriteStore, Inv, TypeOK, Held, Framed, device
<1>2. Available' = b + n
  BY <1>1, Advances DEF Available
<1>3. /\ heard \in Seq(Element) /\ queue \in Seq(Element) /\ queue' \in Seq(Element)
      /\ b \in Nat /\ Len(queue) = b /\ Len(queue') = b + n
      /\ \A k \in 1..(b + n) : queue'[k] = buffer[Slot(tail + k - 1)]
  BY <1>1, <1>2, StreamType, QueueType, QueueTypeNext DEF Inv
<1>4. /\ r \in Seq(Element) /\ Len(r) = n
      /\ \A k \in 1..n : r[k] = queue'[b + k]
  <2>1. /\ b + 1 \in 1..(Len(queue') + 1) /\ b + n \in 0..Len(queue') /\ b + 1 <= b + n + 1
        /\ b + n - (b + 1) + 1 = n /\ \A k \in 1..n : b + 1 + k - 1 = b + k
    BY <1>1, <1>3
  <2> DEFINE m == b + 1
             e == b + n
  <2> HIDE DEF m, e
  <2>2. r = SubSeq(queue', m, e)
    BY DEF m, e
  <2>3. e - m + 1 = n /\ \A k \in 1..n : m + k - 1 = b + k
    BY <1>1, <1>3 DEF m, e
  <2>4. m \in 1..(Len(queue') + 1) /\ e \in 0..Len(queue') /\ m <= e + 1
    BY <2>1 DEF m, e
  <2> HIDE DEF r
  <2>5. /\ SubSeq(queue', m, e) \in Seq(Element) /\ Len(SubSeq(queue', m, e)) = e - m + 1
        /\ \A k \in 1..(e - m + 1) : SubSeq(queue', m, e)[k] = queue'[m + k - 1]
    BY <1>3, <2>4, Part
  <2>6. QED
    BY <2>2, <2>3, <2>5
<1>5. queue' = queue \o r
  <2>1. /\ 1 \in 1..(Len(queue') + 1) /\ b \in (1 - 1)..Len(queue')
        /\ b + n \in b..Len(queue')
    BY <1>1, <1>3
  <2>2. SubSeq(queue', 1, b) \o r = SubSeq(queue', 1, b + n)
    BY <1>3, <2>1, ConcatAdjacentSubSeq
  <2>3. SubSeq(queue', 1, b + n) = queue'
    BY <1>3, SubSeqFull
  <2>4. SubSeq(queue', 1, b) = queue
    BY <1>3, StorePuts DEF Abstract!Put
  <2>5. QED
    BY <2>2, <2>3, <2>4
<1>6. ASSUME NEW k \in 1..n PROVE r[k] = [session |-> s, index |-> sent[s] + k - 1]
  <2>1. k - 1 \in Nat /\ k - 1 < n /\ tail + (b + k) - 1 = tail + b + (k - 1) /\ b + k \in 1..(b + n)
    BY <1>1, <1>3 DEF Cursor
  <2>2. Slot(head + (k - 1)) = Slot(tail + b + (k - 1))
    BY <2>1, HeadIs
  <2>3. buffer[Slot(head + (k - 1))] = [session |-> s, index |-> sent[s] + (k - 1)]
    BY <1>1, <2>1 DEF Written
  <2>4. sent[s] + (k - 1) = sent[s] + k - 1
    BY <1>1
  <2>5. QED
    BY <1>3, <1>4, <2>1, <2>2, <2>3, <2>4
<1> HIDE DEF r
<1>7. Stream' = Stream \o r
  <2>1. Stream' = heard \o (queue \o r)
    BY <1>1, <1>5 DEF Stream
  <2>2. (heard \o queue) \o r = heard \o (queue \o r)
    BY <1>3, <1>4, Associative
  <2>3. QED
    BY <2>1, <2>2 DEF Stream
<1>8. sent'[s] = sent[s] + n
  BY <1>1, WholeTold DEF WriteStore
<1>9. QED
  BY <1>4, <1>6, <1>7, <1>8

\* What stays if the stream does, or loses its end.
LEMMA StreamSame ==
  ASSUME UNCHANGED <<head, tail, buffer, heard>>
  PROVE  UNCHANGED Stream
BY DEF Stream, queue, Available

LEMMA ReadKeeps ==
  ASSUME Inv, Inv', Taken, Read
  PROVE  UNCHANGED Stream
<1>1. CASE ReadStore
  BY <1>1, StoreTakes, TakeKeeps
<1>2. CASE ReadLoadTail \/ ReadLoadHead \/ ReadCopy
  BY <1>2, StreamSame DEF ReadLoadTail, ReadLoadHead, ReadCopy, ring
<1>3. QED
  BY <1>1, <1>2 DEF Read

LEMMA LastElement ==
  ASSUME Inv, Delivered, Stream # <<>>
  PROVE  Stream[Len(Stream)].session <= session /\ Stream[Len(Stream)].session \in Nat
<1>1. Stream \in Seq(Element)
  BY StreamType
<1>2. Len(Stream) \in 1..Len(Stream) /\ Stream[Len(Stream)] \in Element
  BY <1>1
<1>3. QED
  BY <1>2, ElementFields DEF Delivered

LEMMA DeliveredStep ==
  ASSUME Quiet, WholeFrames, Inv, Inv', Taken, Framed, Written, Delivered, [Next]_vars
  PROVE  Delivered'
<1> USE DEF ring, command, pumps, device
<1>0. /\ session \in Nat /\ session <= Sessions /\ Sessions \in Nat
      /\ sent \in [Session -> Nat] /\ Stream \in Seq(Element) /\ heard \in Seq(Element)
  BY StreamType, RingAssumption DEF Inv, TypeOK
<1>1. ASSUME NEW s \in Session, Write(s) PROVE Delivered'
  <2>1. CASE WriteStore(s)
    <3>1. PICK r \in Seq(Element) :
            /\ Stream' = Stream \o r /\ sent'[s] = sent[s] + Len(r)
            /\ \A k \in 1..Len(r) : r[k] = [session |-> s, index |-> sent[s] + k - 1]
      BY <2>1, StoreAppends
    <3>2. /\ s = session /\ control = "session" /\ UNCHANGED <<session, control>> /\ s \in Nat
          /\ sent[s] \in Nat
      BY <1>0, <2>1 DEF WriteStore, Inv, Held
    <3>3. \A e \in Session \ {s} : sent'[e] = sent[e]
      BY <1>0, <2>1 DEF WriteStore
    <3>4. Ordered(Stream \o r) /\ Upto(Stream \o r, s, sent[s] + Len(r))
      BY <1>0, <3>1, <3>2, OrderedMore DEF Delivered
    <3>5. ASSUME NEW k \in 1..Len(Stream') PROVE Stream'[k].session <= session
      <4>1. /\ Len(Stream') = Len(Stream) + Len(r) /\ Len(Stream) \in Nat /\ Len(r) \in Nat
            /\ \A i \in 1..Len(Stream) : (Stream \o r)[i] = Stream[i]
            /\ \A i \in 1..Len(r) : (Stream \o r)[Len(Stream) + i] = r[i]
        BY <1>0, <3>1, Concatenation
      <4>2. CASE k <= Len(Stream)
        BY <3>1, <4>1, <4>2 DEF Delivered
      <4>3. CASE k > Len(Stream)
        <5> DEFINE i == k - Len(Stream)
        <5>1. i \in 1..Len(r) /\ k = Len(Stream) + i
          BY <4>1, <4>3
        <5> HIDE DEF i
        <5>2. r[i] = [session |-> s, index |-> sent[s] + i - 1]
          BY <3>1, <5>1
        <5>3. Stream'[k] = r[i]
          BY <3>1, <4>1, <5>1
        <5>4. Stream'[k].session = s
          BY <5>2, <5>3
        <5>5. QED
          BY <1>0, <3>2, <5>4
      <4>4. QED
        BY <4>1, <4>2, <4>3
    <3>6. \A e \in Session : e > session => e # s /\ sent[e] = 0
      BY <1>0, <3>2 DEF Delivered
    <3>7. QED
      BY <1>0, <3>1, <3>2, <3>3, <3>4, <3>5, <3>6 DEF Delivered
  <2>2. CASE WriteCopy(s)
    BY <2>2, CopyStutters DEF WriteCopy, Delivered, Stream
  <2>3. CASE WriteLoadHead(s) \/ WriteLoadTail(s)
    BY <2>3, StreamSame DEF WriteLoadHead, WriteLoadTail, Delivered
  <2>4. QED
    BY <1>1, <2>1, <2>2, <2>3 DEF Write
<1>2. CASE Read
  <2>1. UNCHANGED <<Stream, session, sent, control>>
    BY <1>2, ReadKeeps DEF Read, ReadLoadTail, ReadLoadHead, ReadCopy, ReadStore
  <2>2. QED
    BY <2>1 DEF Delivered
<1>3. CASE Control
  <2>1. CASE Play
    <3>1. /\ UNCHANGED <<Stream, sent>> /\ session' = session + 1 /\ control' = "session"
          /\ session + 1 \in Session
      BY <1>0, <2>1, StreamSame DEF Play, Session
    <3>2. sent[session + 1] = 0 /\ \A e \in Session : e > session + 1 => sent[e] = 0
      BY <1>0, <3>1 DEF Delivered, Session
    <3>3. Upto(Stream, session + 1, 0)
      BY <1>0, LastElement DEF Upto
    <3>4. \A k \in 1..Len(Stream) : Stream[k].session <= session + 1
      <4>1. \A k \in 1..Len(Stream) : Stream[k].session \in Nat
        BY <1>0, ElementFields
      <4>2. QED
        BY <1>0, <4>1 DEF Delivered
    <3>5. QED
      BY <3>1, <3>2, <3>3, <3>4 DEF Delivered
  <2>2. CASE PauseResume \/ Stop \/ ClearLoad
    <3>1. /\ UNCHANGED <<Stream, sent, session>>
          /\ control' = "session" => control = "session"
      BY <2>2, StreamSame DEF PauseResume, Stop, ClearLoad
    <3>2. QED
      BY <3>1 DEF Delivered
  <2>3. CASE ClearStore
    <3>1. /\ queue' = <<>> /\ UNCHANGED <<heard, sent, session>> /\ control' # "session"
      BY <2>3, ClearClears DEF ClearStore, Abstract!Clear
    <3>2. Stream' = heard
      BY <1>0, <3>1, ConcatEmptySeq DEF Stream
    <3>3. Ordered(heard)
      BY <1>0, StreamType, OrderedPrefix DEF Delivered, Stream
    <3>4. \A k \in 1..Len(heard) : k \in 1..Len(Stream) /\ Stream[k] = heard[k]
      BY StreamType, Concatenation DEF Stream
    <3>5. QED
      BY <3>1, <3>2, <3>3, <3>4 DEF Delivered
  <2>4. QED
    BY <1>3, <2>1, <2>2, <2>3 DEF Control
<1>4. CASE UNCHANGED vars
  BY <1>4, StreamSame DEF vars, Delivered
<1>5. QED
  BY <1>1, <1>2, <1>3, <1>4 DEF Next

(* The device is given the samples of each session from its first on, without *)
(* a gap, a repetition or a stale one: for every capacity and wrap, pauses,   *)
(* partial writes and stops, if nobody is in the ring when a session is       *)
(* stopped and if sessions and periods are of whole frames.                   *)
THEOREM NothingLost == ASSUME Quiet, WholeFrames PROVE Spec => []InOrder
<1> DEFINE J == Framed /\ Written /\ Delivered
<1>1. Init /\ Inv => J
  <2>1. SUFFICES ASSUME Init, Inv PROVE J
    OBVIOUS
  <2>2. head = 0 /\ tail = 0 /\ 0 \in Cursor
    BY <2>1, CounterAssumption DEF Init, Cursor
  <2>3. Available = 0
    BY <2>2, Advances DEF Available
  <2>4. queue \in Seq(Element) /\ Len(queue) = 0
    BY <2>1, <2>3, QueueType DEF Inv
  <2>5. Stream = <<>>
    <3>1. queue = <<>> /\ heard = <<>>
      BY <2>1, <2>4 DEF Init
    <3>2. QED
      BY <2>4, <3>1, ConcatEmptySeq DEF Stream
  <2>6. Delivered
    BY <2>1, <2>5 DEF Init, Delivered, Ordered
  <2>7. Framed /\ Written
    BY <2>1, <2>3, WholeFacts DEF Init, Framed, Written
  <2>8. QED
    BY <2>6, <2>7
<1>2. Init => Taken
  BY DEF Init, Taken
<1>3. Quiet /\ Inv /\ Inv' /\ Taken /\ [Next]_vars => Taken'
  BY TakenStep
<1>4. WholeFrames /\ Quiet /\ Inv /\ Inv' /\ Taken /\ J /\ [Next]_vars => J'
  BY FramedStep, WrittenStep, DeliveredStep
<1>5. Inv /\ J => InOrder
  <2>1. SUFFICES ASSUME Inv, Delivered PROVE InOrder
    OBVIOUS
  <2>2. Ordered(heard) /\ heard \in Seq(Element)
    BY <2>1, StreamType, OrderedPrefix DEF Delivered, Stream
  <2>3. SUFFICES ASSUME NEW k \in 1..Len(heard)
                 PROVE  IF k > 1 /\ heard[k - 1].session = heard[k].session
                        THEN heard[k].index = heard[k - 1].index + 1
                        ELSE heard[k].index = 0
                             /\ (k > 1 => heard[k - 1].session < heard[k].session)
    BY <2>2 DEF InOrder
  <2>4. CASE k = 1
    BY <2>2, <2>4 DEF Ordered
  <2>5. CASE k > 1
    <3>1. k - 1 \in 1..(Len(heard) - 1) /\ (k - 1) + 1 = k
      BY <2>2, <2>5
    <3>2. Follows(heard[k - 1], heard[(k - 1) + 1])
      BY <2>2, <3>1 DEF Ordered
    <3>3. Follows(heard[k - 1], heard[k])
      BY <3>1, <3>2
    <3>4. QED
      BY <2>5, <3>3 DEF Follows
  <2>6. QED
    BY <2>4, <2>5
<1>6. QED
  BY Invariant, <1>1, <1>2, <1>3, <1>4, <1>5, PTL DEF Spec

=============================================================================
