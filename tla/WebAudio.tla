------------------------------- MODULE WebAudio -------------------------------
(***************************************************************************)
(* The audio output of the browser build: the page glue                    *)
(* src/flutter_app/web/web_audio_init.js (main thread) and the processor   *)
(* src/flutter_app/web/audio_worklet.js (audio thread), which share a      *)
(* buffer with two cursors of 32 bits.                                     *)
(*                                                                         *)
(* initJimMusicWebAudio() is cut at its awaits; push() and process() are   *)
(* cut at their atomic loads and stores and between the samples they copy. *)
(* A sample is its number.  A processor whose process() throws is not      *)
(* called again by the browser.  Int32 cursors that wrap are kept as their *)
(* unsigned value, which `>>> 0`, `& 0xffffffff` and `& mask` do not tell  *)
(* apart.                                                                  *)
(***************************************************************************)
EXTENDS RingCounters, Sequences

CONSTANTS Quantum,  \* samples of a render quantum, all channels
          Batches,  \* the lengths of the arrays callers push
          MaxPushed \* bound on samples pushed

VARIABLES
  init,                        \* how far initJimMusicWebAudio() has come
  port,                        \* messages on their way to the processor
  processor,                   \* "none", "alive", or "dead" once it has thrown
  sab, headView, tailView,     \* what the processor has been given: its views
                               \* are of the buffer or null
  head, tail, buffer,          \* the shared buffer
  push, phead, pn, pi, pushed, \* the push under way
  proc, rhead, rtail, rn, ri,  \* the call of process() under way
  output                       \* the samples given to the speaker

page      == <<init, port>>
views     == <<processor, sab, headView, tailView>>
cursors   == <<head, tail, buffer>>
producer  == <<push, phead, pn, pi, pushed>>
quantum   == <<proc, rhead, rtail, rn, ri>>
vars      == <<page, views, cursors, producer, quantum, output>>

TypeOK ==
  /\ init \in {"module", "wasm", "done", "failed"}
  /\ port \in Seq({"sab"})
  /\ processor \in {"none", "alive", "dead"}
  /\ sab \in BOOLEAN /\ headView \in BOOLEAN /\ tailView \in BOOLEAN
  /\ head \in Cursor /\ tail \in Cursor
  /\ buffer \in [Slots -> 0..MaxPushed]
  /\ push \in {"idle", "copy"} /\ phead \in Cursor
  /\ pn \in Nat /\ pi \in Nat /\ pushed \in 0..MaxPushed
  /\ proc \in {"idle", "tail", "copy"}
  /\ rhead \in Cursor /\ rtail \in Cursor /\ rn \in Nat /\ ri \in Nat
  /\ output \in Seq(0..MaxPushed)

\* The buffer exists before the first await, all zero.
Init ==
  /\ init = "module" /\ port = <<>>
  /\ processor = "none" /\ sab = FALSE /\ headView = FALSE /\ tailView = FALSE
  /\ head = 0 /\ tail = 0 /\ buffer = [k \in Slots |-> 0]
  /\ push = "idle" /\ phead = 0 /\ pn = 0 /\ pi = 0 /\ pushed = 0
  /\ proc = "idle" /\ rhead = 0 /\ rtail = 0 /\ rn = 0 /\ ri = 0
  /\ output = <<>>

-----------------------------------------------------------------------------
(***************************************************************************)
(* initJimMusicWebAudio()                                                  *)
(***************************************************************************)
\* addModule() resolves: the node is made, connected and sent the buffer.
ModuleAdded ==
  /\ init = "module" /\ init' = "wasm"
  /\ processor' = "alive"
  /\ port' = Append(port, "sab")
  /\ UNCHANGED <<sab, headView, tailView, cursors, producer, quantum, output>>

ModuleFails ==
  /\ init = "module" /\ init' = "failed"
  /\ UNCHANGED <<port, views, cursors, producer, quantum, output>>

\* loadWasm() answers an instance or null, nothing is bound to the buffer, and
\* the caller gets push().
WasmSettled ==
  /\ init = "wasm" /\ init' = "done"
  /\ UNCHANGED <<port, views, cursors, producer, quantum, output>>

-----------------------------------------------------------------------------
(***************************************************************************)
(* push(): as much as the buffer is long, whatever is unread in it.        *)
(***************************************************************************)
PushBegin ==
  /\ init = "done" /\ push = "idle"
  /\ \E len \in Batches : /\ pushed + Smaller(len, Capacity) <= MaxPushed
                          /\ pn' = Smaller(len, Capacity)
  /\ phead' = head /\ pi' = 0 /\ push' = "copy"
  /\ UNCHANGED <<page, views, cursors, pushed, quantum, output>>

PushCopy ==
  /\ push = "copy" /\ pi < pn
  /\ buffer' = [buffer EXCEPT ![Slot(phead + pi)] = pushed + pi + 1]
  /\ pi' = pi + 1
  /\ UNCHANGED <<page, views, head, tail, push, phead, pn, pushed, quantum, output>>

PushEnd ==
  /\ push = "copy" /\ pi = pn
  /\ head' = WrappingAdd(phead, pn) /\ pushed' = pushed + pn /\ push' = "idle"
  /\ UNCHANGED <<page, views, tail, buffer, phead, pn, pi, quantum, output>>

-----------------------------------------------------------------------------
(***************************************************************************)
(* The processor.                                                          *)
(***************************************************************************)
\* port.onmessage: init() makes the views of the head and of the data.
Message ==
  /\ port # <<>> /\ processor = "alive" /\ proc = "idle"
  /\ port' = Tail(port)
  /\ sab' = TRUE /\ headView' = TRUE
  /\ UNCHANGED <<init, processor, tailView, cursors, producer, quantum, output>>

\* process(): nothing to do before the buffer has come; the head is loaded.
ProcessHead ==
  /\ processor = "alive" /\ proc = "idle" /\ sab
  /\ rhead' = head /\ proc' = "tail"
  /\ UNCHANGED <<page, views, cursors, producer, rtail, rn, ri, output>>

ProcessTail ==
  /\ proc = "tail" /\ tailView
  /\ rtail' = tail
  /\ rn' = Smaller(Quantum, WrappingSub(rhead, tail)) /\ ri' = 0
  /\ proc' = "copy"
  /\ UNCHANGED <<page, views, cursors, producer, rhead, output>>

\* Atomics.load() of null throws a TypeError.
ProcessThrows ==
  /\ proc = "tail" /\ ~tailView
  /\ processor' = "dead" /\ proc' = "idle"
  /\ UNCHANGED <<page, sab, headView, tailView, cursors, producer, rhead, rtail, rn, ri,
                 output>>

ProcessCopy ==
  /\ proc = "copy" /\ ri < rn
  /\ output' = Append(output, buffer[Slot(rtail + ri)])
  /\ ri' = ri + 1
  /\ UNCHANGED <<page, views, cursors, producer, proc, rhead, rtail, rn>>

ProcessEnd ==
  /\ proc = "copy" /\ ri = rn
  /\ tail' = WrappingAdd(rtail, rn) /\ proc' = "idle"
  /\ UNCHANGED <<page, views, head, buffer, producer, rhead, rtail, rn, ri, output>>

Initialise == ModuleAdded \/ ModuleFails \/ WasmSettled
Push       == PushBegin \/ PushCopy \/ PushEnd
Process    == \/ Message \/ ProcessHead \/ ProcessTail \/ ProcessThrows
              \/ ProcessCopy \/ ProcessEnd

Next == Initialise \/ Push \/ Process

\* The promises settle, a push that has begun ends, the browser delivers the
\* message and calls a processor that is alive.  Nobody has to push.
Spec == /\ Init /\ [][Next]_vars
        /\ WF_vars(Initialise) /\ WF_vars(PushCopy \/ PushEnd)
        /\ WF_vars(Message) /\ WF_vars(Process)

-----------------------------------------------------------------------------
\* What has been pushed reaches the speaker, or at least something does:
\* process() reads the samples in every render quantum and advances the tail.
PushedIsHeard == pushed > 0 ~> output # <<>>
=============================================================================
