-------------------------------- MODULE Ring --------------------------------
(***************************************************************************)
(* The shared-memory ring through which the net component streams a large  *)
(* body to a renderer (src/src/ring.rs, fed by stream_blob of              *)
(* src/src/net_daemon.rs): two free-running cursors taken modulo the word  *)
(* size, a completion flag, a window of bytes, futex waits in slices.      *)
(*                                                                         *)
(* Each access to a shared word, each copy, each wait and each wake is one *)
(* action.  A copy is one action because the regions the two sides touch   *)
(* are disjoint (RegionsDisjoint): no interleaving inside it shows.  The   *)
(* release stores and acquire loads of the cursors make the rest           *)
(* sequentially consistent.  Either process may die at any point.          *)
(***************************************************************************)
EXTENDS Naturals, Sequences

CONSTANTS
  Capacity,       \* bytes in the window
  Word,           \* the cursors count modulo this (2^32)
  Chunk,          \* bytes per call of write_all
  Length,         \* the lengths a body may have
  MAX_BODY_LEN,   \* longest claim the consumer accepts
  Patience        \* wait slices that make up the stall timeout

(* The window of stream_blob, 256 KiB, divides 2^32: the offset of a byte  *)
(* is the same before and after a cursor wraps.                            *)
ASSUME RingAssumption ==
  /\ Capacity \in Nat \ {0} /\ Chunk \in Nat \ {0} /\ Patience \in Nat \ {0}
  /\ Word \in Nat /\ Word > Capacity /\ Word % Capacity = 0
  /\ Length \subseteq Nat \ {0} /\ MAX_BODY_LEN \in Nat

VARIABLES
  write_pos, read_pos, done,   \* the header
  window,                      \* offset -> byte; a byte is its place in the body, 0 none
  body_len,                    \* the length the header message promised
  at,                          \* where each side is in its loop
  seen,                        \* each side's copy of the other's cursor
  moving,                      \* bytes each side moves in this turn
  put, got,                    \* bytes written so far; the consumer's output
  idle,                        \* wait slices each side has spent since progress
  verdict                      \* what each side concluded

header == <<write_pos, read_pos, done>>
vars == <<header, window, body_len, at, seen, moving, put, got, idle, verdict>>

Cursor == 0 .. Word - 1
Offset == 0 .. Capacity - 1
Side   == {"producer", "consumer"}

Place == {"start", "load", "empty", "wait", "asleep", "copy", "publish", "wake",
          "drop", "drop_wake", "over", "dead"}
Verdict == {"none", "finished", "all", "short", "aborted", "stalled", "corrupt", "refused"}

Init ==
  /\ write_pos = 0 /\ read_pos = 0 /\ done = "streaming"
  /\ window = [o \in Offset |-> 0]
  /\ body_len \in Length
  /\ at = [s \in Side |-> IF s = "producer" THEN "load" ELSE "start"]
  /\ seen = [s \in Side |-> 0]
  /\ moving = [s \in Side |-> 0]
  /\ put = 0 /\ got = <<>>
  /\ idle = [s \in Side |-> 0]
  /\ verdict = [s \in Side |-> "none"]

-----------------------------------------------------------------------------
Least(a, b) == IF a < b THEN a ELSE b

AdvanceNoWrap(pos, n) == pos + n                  \* broken variant
Advance(pos, n) == (pos + n) % Word               \* wrapping_add
Distance(to, from) == (to + Word - from) % Word   \* wrapping_sub

(* The i-th byte from cursor pos on; past the end of the window it goes on *)
(* at its start.                                                           *)
OffsetOf(pos, i) == ((pos % Capacity) + i) % Capacity
Region(pos, n) == {OffsetOf(pos, i) : i \in 0 .. n - 1}

Goto(s, place) == at' = [at EXCEPT ![s] = place]

(* A side leaves its loop.                                                 *)
Leave(s, place, v) == Goto(s, place) /\ verdict' = [verdict EXCEPT ![s] = v]

Late(s) == idle[s] >= Patience

Progress(s) == idle' = [idle EXCEPT ![s] = 0]

(* A side found nothing to do: it gives up after the stall timeout, else   *)
(* it sleeps unless the cursor it saw has moved meanwhile.                 *)
WaitFor(s, cursor, end) ==
  /\ at[s] = "wait"
  /\ \/ Late(s) /\ Leave(s, end, "stalled")
     \/ ~Late(s) /\ UNCHANGED verdict
        /\ Goto(s, IF cursor = seen[s] THEN "asleep" ELSE "load")
  /\ UNCHANGED <<header, window, body_len, seen, moving, put, got, idle>>

(* Broken variant: a wait without a timeout ends only by a wake.           *)
SliceEndless(s) ==
  /\ at[s] = "asleep"
  /\ (IF s = "producer" THEN read_pos ELSE write_pos) # seen[s]
  /\ Goto(s, "load")
  /\ UNCHANGED <<header, window, body_len, seen, moving, put, got, idle, verdict>>

(* A slice of the wait runs out.                                           *)
Slice(s) ==
  /\ at[s] = "asleep"
  /\ Goto(s, "load")
  /\ idle' = [idle EXCEPT ![s] = Least(@ + 1, Patience)]
  /\ UNCHANGED <<header, window, body_len, seen, moving, put, got, verdict>>

Woken(place) == IF place = "asleep" THEN "load" ELSE place

-----------------------------------------------------------------------------
(* The producer: stream_blob, write_all, finish and drop.                  *)

(* What is left of the chunk that write_all was handed.                    *)
ChunkLeft == Least(Chunk - (put % Chunk), body_len - put)

RoomOffByOne(used) == Capacity + 1 - used         \* broken variant
Room(used) == Capacity - used

(* A turn of the loop: everything is written, or the read cursor is        *)
(* corrupt, or the ring is full, or part of the chunk fits.                *)
PLoad ==
  LET used == Distance(write_pos, read_pos)
      n    == Least(Room(used), ChunkLeft)
  IN
  /\ at["producer"] = "load"
  /\ \/ /\ put = body_len
        /\ Leave("producer", "drop", "finished") /\ UNCHANGED <<seen, moving>>
     \/ /\ put < body_len /\ used > Capacity
        /\ Leave("producer", "drop", "corrupt") /\ UNCHANGED <<seen, moving>>
     \/ /\ put < body_len /\ used <= Capacity
        /\ seen' = [seen EXCEPT !["producer"] = read_pos]
        /\ moving' = [moving EXCEPT !["producer"] = n]
        /\ Goto("producer", IF n = 0 THEN "wait" ELSE "copy")
        /\ UNCHANGED verdict
  /\ UNCHANGED <<header, window, body_len, put, got, idle>>

(* Broken variant: what lies past the end of the window is not copied.     *)
PCopyFirstSegment ==
  /\ at["producer"] = "copy"
  /\ window' = [o \in Offset |->
       IF \E i \in 0 .. moving["producer"] - 1 : (write_pos % Capacity) + i = o
       THEN put + 1 + o - (write_pos % Capacity) ELSE window[o]]
  /\ Goto("producer", "publish")
  /\ UNCHANGED <<header, body_len, seen, moving, put, got, idle, verdict>>

PCopy ==
  LET n == moving["producer"] IN
  /\ at["producer"] = "copy"
  /\ window' = [o \in Offset |->
       IF o \in Region(write_pos, n)
       THEN put + 1 + (CHOOSE i \in 0 .. n - 1 : OffsetOf(write_pos, i) = o)
       ELSE window[o]]
  /\ Goto("producer", "publish")
  /\ UNCHANGED <<header, body_len, seen, moving, put, got, idle, verdict>>

PPublish ==
  /\ at["producer"] = "publish"
  /\ write_pos' = Advance(write_pos, moving["producer"])
  /\ put' = put + moving["producer"]
  /\ Goto("producer", "wake") /\ Progress("producer")
  /\ UNCHANGED <<read_pos, done, window, body_len, seen, moving, got, verdict>>

(* futex_wake on write_pos, after a publication and after the drop.        *)
PWake ==
  /\ at["producer"] \in {"wake", "drop_wake"}
  /\ at' = [at EXCEPT !["producer"] = IF @ = "wake" THEN "load" ELSE "over",
                       !["consumer"] = Woken(@)]
  /\ UNCHANGED <<header, window, body_len, seen, moving, put, got, idle, verdict>>

PWait == WaitFor("producer", read_pos, "drop")

StatusAlwaysFinished == "finished"                \* broken variant
Status == IF verdict["producer"] = "finished" THEN "finished" ELSE "aborted"

PDrop ==
  /\ at["producer"] = "drop"
  /\ done' = Status
  /\ Goto("producer", "drop_wake")
  /\ UNCHANGED <<write_pos, read_pos, window, body_len, seen, moving, put, got, idle, verdict>>

Producer == PLoad \/ PWait \/ Slice("producer") \/ PCopy \/ PPublish \/ PWake \/ PDrop

-----------------------------------------------------------------------------
(* The consumer: consume.                                                  *)

(* The claimed length is checked before anything else.                     *)
CStart ==
  /\ at["consumer"] = "start"
  /\ \/ body_len > MAX_BODY_LEN /\ Leave("consumer", "over", "refused")
     \/ body_len <= MAX_BODY_LEN /\ Goto("consumer", "load") /\ UNCHANGED verdict
  /\ UNCHANGED <<header, window, body_len, seen, moving, put, got, idle>>

(* A turn of the loop: the write cursor is corrupt, nothing is there, or   *)
(* some of what the output still lacks.                                    *)
CLoad ==
  LET avail == Distance(write_pos, read_pos)
      n     == Least(avail, body_len - Len(got))
  IN
  /\ at["consumer"] = "load"
  /\ seen' = [seen EXCEPT !["consumer"] = write_pos]
  /\ \/ /\ avail > Capacity
        /\ Leave("consumer", "over", "corrupt") /\ UNCHANGED moving
     \/ /\ avail <= Capacity
        /\ moving' = [moving EXCEPT !["consumer"] = n]
        /\ Goto("consumer", IF n = 0 THEN "empty" ELSE "copy")
        /\ UNCHANGED verdict
  /\ UNCHANGED <<header, window, body_len, put, got, idle>>

(* Nothing was there when the cursor was loaded; only now the flag is.     *)
CEmpty ==
  /\ at["consumer"] = "empty"
  /\ \/ done = "streaming" /\ Goto("consumer", "wait") /\ UNCHANGED verdict
     \/ done = "finished" /\ Leave("consumer", "over", "short")
     \/ done = "aborted" /\ Leave("consumer", "over", "aborted")
  /\ UNCHANGED <<header, window, body_len, seen, moving, put, got, idle>>

CWait == WaitFor("consumer", write_pos, "over")

CCopy ==
  /\ at["consumer"] = "copy"
  /\ got' = got \o [i \in 1 .. moving["consumer"] |-> window[OffsetOf(read_pos, i - 1)]]
  /\ Goto("consumer", "publish")
  /\ UNCHANGED <<header, window, body_len, seen, moving, put, idle, verdict>>

CPublish ==
  /\ at["consumer"] = "publish"
  /\ read_pos' = Advance(read_pos, moving["consumer"])
  /\ Goto("consumer", "wake") /\ Progress("consumer")
  /\ UNCHANGED <<write_pos, done, window, body_len, seen, moving, put, got, verdict>>

(* futex_wake on read_pos; then the loop is over or turns again.           *)
CWake ==
  /\ at["consumer"] = "wake"
  /\ at' = [at EXCEPT !["producer"] = Woken(@),
                       !["consumer"] = IF Len(got) = body_len THEN "over" ELSE "load"]
  /\ verdict' = IF Len(got) = body_len THEN [verdict EXCEPT !["consumer"] = "all"]
                                       ELSE verdict
  /\ UNCHANGED <<header, window, body_len, seen, moving, put, got, idle>>

Consumer == CStart \/ CLoad \/ CEmpty \/ CWait \/ Slice("consumer")
            \/ CCopy \/ CPublish \/ CWake

-----------------------------------------------------------------------------
Stopped(s) == at[s] \in {"over", "dead"}

(* The net component or the renderer is killed, or the broker drops the    *)
(* ring on its way to the renderer: the header stays as it is.             *)
Dies(s) ==
  /\ ~Stopped(s)
  /\ Goto(s, "dead")
  /\ UNCHANGED <<header, window, body_len, seen, moving, put, got, idle, verdict>>

(* A side that was not scheduled finds its deadline passed.                *)
TimePasses(s) ==
  /\ ~Stopped(s) /\ ~Late(s)
  /\ idle' = [idle EXCEPT ![s] = Patience]
  /\ UNCHANGED <<header, window, body_len, at, seen, moving, put, got, verdict>>

Next == Producer \/ Consumer \/ \E s \in Side : Dies(s) \/ TimePasses(s)

(* The kernel runs both processes while they live and ends each slice.     *)
Spec == Init /\ [][Next]_vars /\ WF_vars(Producer) /\ WF_vars(Consumer)

-----------------------------------------------------------------------------
(* Properties.                                                             *)

(* The types of the header, the window and both sides' locals.             *)
TypeOK ==
  /\ write_pos \in Cursor /\ read_pos \in Cursor
  /\ done \in {"streaming", "finished", "aborted"}
  /\ window \in [Offset -> Nat]
  /\ body_len \in Length
  /\ at \in [Side -> Place]
  /\ seen \in [Side -> Cursor]
  /\ moving \in [Side -> 0 .. Capacity]
  /\ put \in Nat /\ got \in Seq(Nat)
  /\ idle \in [Side -> 0 .. Patience]
  /\ verdict \in [Side -> Verdict]

(* The consumer's output is a prefix of the body, byte for byte, through   *)
(* every wrap of the window and of the cursors (ring.rs:1-5, 34-37), and   *)
(* it is the whole body when consume returns it.                           *)
BytesInOrder ==
  /\ Len(got) <= put /\ \A i \in DOMAIN got : got[i] = i
  /\ verdict["consumer"] = "all" => Len(got) = body_len

(* Two honest sides never take each other for corrupt: neither cursor is   *)
(* ever seen further away than the window is wide (ring.rs:13-17).         *)
HonestNeverCorrupt == \A s \in Side : verdict[s] # "corrupt"

(* While both sides are about to touch the window they touch different     *)
(* bytes of it (ring.rs:238-240, 338-340).                                 *)
RegionsDisjoint ==
  (at["producer"] = "copy" /\ at["consumer"] = "copy") =>
    Region(write_pos, moving["producer"]) \cap Region(read_pos, moving["consumer"]) = {}

(* A stream that was completed is not reported as short of its promised    *)
(* length (ring.rs:52-53, 275-276).                                        *)
ShortMeansShort == verdict["consumer"] = "short" => put < body_len

(* Whatever dies and whichever wake-up is lost, no side is left hanging    *)
(* (ring.rs:26-33).                                                        *)
StreamEnds == <>(\A s \in Side : Stopped(s))

(* The ring is the bounded pipe of module Stream.                          *)
Pipe == INSTANCE Stream WITH
  sent <- [i \in 1 .. put |-> i],
  received <- got,
  source <- done,
  sink <- IF verdict["consumer"] = "all" THEN "all"
          ELSE IF Stopped("consumer") THEN "failed" ELSE "open"

IsAPipe == Pipe!Spec
=============================================================================
