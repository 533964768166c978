------------------------------- MODULE Stream -------------------------------
(***************************************************************************)
(* What the body ring (src/src/ring.rs) promises to the net component and  *)
(* the renderer: a bounded pipe.  The reader gets the bytes of the writer  *)
(* in order and once, at most Capacity bytes are under way, the writer     *)
(* calls the stream finished only when everything is in it, and the reader *)
(* either gets everything or is told that it failed.                       *)
(***************************************************************************)
EXTENDS Naturals, Sequences

CONSTANTS
  Capacity,    \* bytes that may be under way
  Length       \* the lengths a body may have

VARIABLES
  body_len,    \* the length the reader was promised
  sent,        \* what the writer has put in
  received,    \* what the reader has taken out
  source,      \* the writer's last word: "streaming", "finished", "aborted"
  sink         \* the reader's conclusion: "open", "all", "failed"

vars == <<body_len, sent, received, source, sink>>

(* Bytes are named by their place in the body.                             *)
Body == [i \in 1 .. body_len |-> i]

Init ==
  /\ body_len \in Length
  /\ sent = <<>> /\ received = <<>>
  /\ source = "streaming" /\ sink = "open"

Put(n) ==
  /\ source = "streaming"
  /\ Len(sent) + n <= body_len
  /\ Len(sent) + n - Len(received) <= Capacity
  /\ sent' = SubSeq(Body, 1, Len(sent) + n)
  /\ UNCHANGED <<body_len, received, source, sink>>

Take(n) ==
  /\ sink = "open"
  /\ Len(received) + n <= Len(sent)
  /\ received' = received \o SubSeq(sent, Len(received) + 1, Len(received) + n)
  /\ UNCHANGED <<body_len, sent, source, sink>>

Finish ==
  /\ source = "streaming" /\ Len(sent) = body_len
  /\ source' = "finished"
  /\ UNCHANGED <<body_len, sent, received, sink>>

Abort ==
  /\ source = "streaming"
  /\ source' = "aborted"
  /\ UNCHANGED <<body_len, sent, received, sink>>

Conclude ==
  /\ sink = "open" /\ received = Body
  /\ sink' = "all"
  /\ UNCHANGED <<body_len, sent, received, source>>

(* The reader may fail at any time: it dies, or it loses patience.         *)
Fail ==
  /\ sink = "open"
  /\ sink' = "failed"
  /\ UNCHANGED <<body_len, sent, received, source>>

Next ==
  \/ \E n \in 1 .. Capacity : Put(n) \/ Take(n)
  \/ Finish \/ Abort \/ Conclude \/ Fail

Spec == Init /\ [][Next]_vars
=============================================================================
