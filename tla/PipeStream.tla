----------------------------- MODULE PipeStream -----------------------------
(***************************************************************************)
(* What a pipe promises its users: a bounded FIFO byte stream.  A writer   *)
(* may append a byte while fewer than Capacity bytes are pending; a reader *)
(* may take the oldest pending byte.  Bytes are never lost, duplicated or  *)
(* reordered.  Pipe.tla is shown to implement this specification.         *)
(***************************************************************************)
EXTENDS Naturals, Sequences

CONSTANTS Capacity,  \* usable bytes of the ring (MAX_CURSOR_VALUE in the code)
          Bytes      \* values a byte may take

ASSUME Capacity \in Nat \ {0}

VARIABLE q  \* bytes written and not yet read, oldest first

Init == q = <<>>

Put == \E b \in Bytes : Len(q) < Capacity /\ q' = Append(q, b)

Get == q # <<>> /\ q' = Tail(q)

Spec == Init /\ [][Put \/ Get]_q

TypeOK == q \in Seq(Bytes) /\ Len(q) <= Capacity
=============================================================================
