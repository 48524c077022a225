------------------------------- MODULE PcmRing -------------------------------
(***************************************************************************)
(* The ring between the engine's pump and the device callback              *)
(* (src/backend/plugins/alsa-output/src/ring.rs and lib.rs), with what     *)
(* engine.rs in app-core does to it: sessions that start, pause and stop.  *)
(*                                                                         *)
(* Three threads without a lock: the pump of a session (write), the device *)
(* callback (read), the command that stops a session (clear).  A step is   *)
(* one atomic load or store, or the copy of one sample.  A sample is the   *)
(* session it belongs to and its place in it.  abort() lets a write that   *)
(* has begun finish, so pumps of two sessions may write at a time; with    *)
(* Quiet, a session is stopped only while nobody reads or writes.          *)
(*                                                                         *)
(* Volume and the conversion of samples are left out.                      *)
(***************************************************************************)
EXTENDS RingCounters, Sequences

CONSTANTS Channels,
          Period,    \* samples the device asks for at a time
          Samples,   \* samples of a session
          Sessions,  \* bound on sessions
          Quiet

ASSUME RingAssumption ==
  /\ Channels \in Nat \ {0} /\ Capacity % Channels = 0
  /\ Period \in Nat /\ Samples \in Nat /\ Sessions \in Nat
  /\ Quiet \in BOOLEAN

VARIABLES
  head, tail, buffer,        \* the ring
  playing,                   \* the flag the callback looks at
  session, control, chead,   \* the current session; where the command is
  wpc, whead, wn, wi, sent,  \* the pump of each session
  rpc, rtail, rn, ri, out,   \* the callback
  heard                      \* what the device has been given

ring    == <<head, tail, buffer>>
command == <<playing, session, control, chead>>
pumps   == <<wpc, whead, wn, wi, sent>>
device  == <<rpc, rtail, rn, ri, out, heard>>
vars    == <<ring, command, pumps, device>>

Session == 1..Sessions
Sample  == [session : Session, index : Nat]
Nothing == [session |-> 0, index |-> 0]

TypeOK ==
  /\ head \in Cursor /\ tail \in Cursor
  /\ buffer \in [Slots -> Sample \cup {Nothing}]
  /\ playing \in BOOLEAN
  /\ session \in 0..Sessions
  /\ control \in {"idle", "session", "clear", "cleared", "flush", "flushed"}
  /\ chead \in Cursor
  /\ wpc \in [Session -> {"idle", "tail", "copy"}]
  /\ whead \in [Session -> Cursor]
  /\ wn \in [Session -> Nat] /\ wi \in [Session -> Nat] /\ sent \in [Session -> Nat]
  /\ rpc \in {"idle", "head", "copy"}
  /\ rtail \in Cursor
  /\ rn \in Nat /\ ri \in Nat
  /\ out \in Seq(Sample \cup {Nothing}) /\ heard \in Seq(Sample \cup {Nothing})

Init ==
  /\ head = 0 /\ tail = 0 /\ buffer = [k \in Slots |-> Nothing]
  /\ playing = FALSE /\ session = 0 /\ control = "idle" /\ chead = 0
  /\ wpc = [s \in Session |-> "idle"] /\ whead = [s \in Session |-> 0]
  /\ wn = [s \in Session |-> 0] /\ wi = [s \in Session |-> 0]
  /\ sent = [s \in Session |-> 0]
  /\ rpc = "idle" /\ rtail = 0 /\ rn = 0 /\ ri = 0 /\ out = <<>> /\ heard = <<>>

-----------------------------------------------------------------------------
(***************************************************************************)
(* write(), called by the pump with all that is left of the session; after *)
(* a partial write the pump sends the rest again.                          *)
(***************************************************************************)
WriteLoadHead(s) ==
  /\ s = session /\ control = "session"
  /\ wpc[s] = "idle" /\ sent[s] < Samples
  /\ whead' = [whead EXCEPT ![s] = head]
  /\ wpc' = [wpc EXCEPT ![s] = "tail"]
  /\ UNCHANGED <<ring, command, wn, wi, sent, device>>

\* Mutant: one sample more than is free.
SpaceOneMore(s) == WrappingSub(Capacity + 1, WrappingSub(whead[s], tail))

\* The free space; the subtraction of usize wraps in a release build.
Space(s) == WrappingSub(Capacity, WrappingSub(whead[s], tail))

WriteLoadTail(s) ==
  /\ wpc[s] = "tail"
  /\ wn' = [wn EXCEPT ![s] = Smaller(Samples - sent[s], Space(s))]
  /\ wi' = [wi EXCEPT ![s] = 0]
  /\ wpc' = [wpc EXCEPT ![s] = "copy"]
  /\ UNCHANGED <<ring, command, whead, sent, device>>

WriteCopy(s) ==
  /\ wpc[s] = "copy" /\ wi[s] < wn[s]
  /\ buffer' = [buffer EXCEPT ![Slot(whead[s] + wi[s])] =
       [session |-> s, index |-> sent[s] + wi[s]]]
  /\ wi' = [wi EXCEPT ![s] = @ + 1]
  /\ UNCHANGED <<head, tail, command, wpc, whead, wn, sent, device>>

\* Mutants: the pump is told one sample less; a part is taken for the whole.
ToldOneLess(n) == IF n = 0 THEN 0 ELSE n - 1
ToldAll(n)     == Samples

\* The pump is told whole frames.
Told(n) == (n \div Channels) * Channels

WriteStore(s) ==
  /\ wpc[s] = "copy" /\ wi[s] = wn[s]
  /\ head' = WrappingAdd(whead[s], wn[s])
  /\ sent' = [sent EXCEPT ![s] = @ + Told(wn[s])]
  /\ wpc' = [wpc EXCEPT ![s] = "idle"]
  /\ UNCHANGED <<tail, buffer, command, whead, wn, wi, device>>

-----------------------------------------------------------------------------
(***************************************************************************)
(* read(), called by the device callback while the flag is set.            *)
(***************************************************************************)
ReadLoadTail ==
  /\ rpc = "idle" /\ playing
  /\ rtail' = tail /\ rpc' = "head"
  /\ UNCHANGED <<ring, command, pumps, rn, ri, out, heard>>

ReadLoadHead ==
  /\ rpc = "head"
  /\ rn' = Smaller(Period, WrappingSub(head, rtail))
  /\ ri' = 0 /\ out' = <<>> /\ rpc' = "copy"
  /\ UNCHANGED <<ring, command, pumps, rtail, heard>>

ReadCopy ==
  /\ rpc = "copy" /\ ri < rn
  /\ out' = Append(out, buffer[Slot(rtail + ri)])
  /\ ri' = ri + 1
  /\ UNCHANGED <<ring, command, pumps, rpc, rtail, rn, heard>>

\* Mutant: the reader advances a period whatever it was given.
ReadStorePeriod ==
  /\ rpc = "copy" /\ ri = rn
  /\ tail' = WrappingAdd(rtail, Period)
  /\ heard' = heard \o out /\ out' = <<>> /\ rpc' = "idle"
  /\ UNCHANGED <<head, buffer, command, pumps, rtail, rn, ri>>

ReadStore ==
  /\ rpc = "copy" /\ ri = rn
  /\ tail' = WrappingAdd(rtail, rn)
  /\ heard' = heard \o out /\ out' = <<>> /\ rpc' = "idle"
  /\ UNCHANGED <<head, buffer, command, pumps, rtail, rn, ri>>

-----------------------------------------------------------------------------
(***************************************************************************)
(* The commands of the engine: play, pause and resume, and stop_tasks(),   *)
(* which aborts the pump, stops the device (flag, clear) and flushes it    *)
(* (clear again).                                                          *)
(***************************************************************************)
Play ==
  /\ control = "idle" /\ session < Sessions
  /\ session' = session + 1 /\ playing' = TRUE /\ control' = "session"
  /\ UNCHANGED <<ring, chead, pumps, device>>

PauseResume ==
  /\ control = "session" /\ playing' = ~playing
  /\ UNCHANGED <<ring, session, control, chead, pumps, device>>

Stop ==
  /\ control = "session"
  /\ Quiet => rpc = "idle" /\ \A s \in Session : wpc[s] = "idle"
  /\ playing' = FALSE /\ control' = "clear"
  /\ UNCHANGED <<ring, session, chead, pumps, device>>

ClearLoad ==
  /\ control \in {"clear", "flush"}
  /\ chead' = head
  /\ control' = IF control = "clear" THEN "cleared" ELSE "flushed"
  /\ UNCHANGED <<ring, playing, session, pumps, device>>

ClearStore ==
  /\ control \in {"cleared", "flushed"}
  /\ tail' = chead
  /\ control' = IF control = "cleared" THEN "flush" ELSE "idle"
  /\ UNCHANGED <<head, buffer, playing, session, chead, pumps, device>>

Write(s) == WriteLoadHead(s) \/ WriteLoadTail(s) \/ WriteCopy(s) \/ WriteStore(s)
Read     == ReadLoadTail \/ ReadLoadHead \/ ReadCopy \/ ReadStore
Control  == Play \/ PauseResume \/ Stop \/ ClearLoad \/ ClearStore

Next == (\E s \in Session : Write(s)) \/ Read \/ Control

Spec == Init /\ [][Next]_vars

\* The pump and the device keep running; nothing is assumed of commands.
FairSpec == Spec /\ WF_vars(Read) /\ \A s \in Session : WF_vars(Write(s))

-----------------------------------------------------------------------------
Available == WrappingSub(head, tail)

\* The ring never holds more than its capacity, whatever has been loaded and
\* not yet stored, so capacity - available never wraps.
WithinCapacity == Available <= Capacity

\* The slot a pump writes next is never the one the callback reads next: the
\* two plain accesses to the buffer do not race.
NoRace ==
  \A s \in Session :
    wpc[s] = "copy" /\ wi[s] < wn[s] /\ rpc = "copy" /\ ri < rn
      => Slot(whead[s] + wi[s]) # Slot(rtail + ri)

\* The device is given the samples of each session from its first on, without
\* a gap, a repetition or a stale one; nothing of a session that was stopped
\* comes once the next has begun.
InOrder ==
  \A k \in DOMAIN heard :
    LET x == heard[k] IN
      IF k > 1 /\ heard[k - 1].session = x.session
      THEN x.index = heard[k - 1].index + 1
      ELSE x.index = 0 /\ (k > 1 => heard[k - 1].session < x.session)

\* The ring is a bounded queue: what is put, taken and cleared happens in one
\* step, at the store of a cursor.
queue == [k \in 1..Available |-> buffer[Slot(tail + k - 1)]]

Abstract == INSTANCE SampleQueue WITH Bound <- Capacity
ImplementsQueue == Abstract!Spec

\* A session that is left alone is heard to its end.
Drained(s) == \E k \in DOMAIN heard : heard[k] = [session |-> s, index |-> Samples - 1]

EverythingHeard ==
  \A s \in Session :
    <>[](session = s /\ control = "session" /\ playing) => <>Drained(s)
=============================================================================
