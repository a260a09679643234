------------------------------ MODULE PcmFifo ------------------------------
(***************************************************************************)
(* What the PCM ring buffer promises its two users: a bounded FIFO of      *)
(* stereo frames.  Frames are named by their position in the produced      *)
(* audio, so the FIFO is two counters: frames 0 .. accepted-1 have been    *)
(* accepted, frames 0 .. delivered-1 have been delivered, and `heard' is   *)
(* the buffer the last read handed to its caller, padded with silence.     *)
(* SpscRing implements this specification; PcmStream is built on it.       *)
(***************************************************************************)
EXTENDS Integers, Sequences

CONSTANTS Capacity,     \* frames the buffer holds
          MaxOffer,     \* bound: frames offered to one write
          MaxRequest,   \* bound: frames requested by one read
          MaxFrames     \* bound: frames ever accepted

VARIABLES accepted, delivered, heard

fifoVars == <<accepted, delivered, heard>>

(* A frame of silence; real frames are numbered from 0. *)
Silence == -1

(* n frames starting at `first', padded with silence to `size'. *)
Padded(first, n, size) ==
  [k \in 1 .. size |-> IF k <= n THEN first + k - 1 ELSE Silence]

Buffered == accepted - delivered

FifoInit ==
  /\ accepted = 0
  /\ delivered = 0
  /\ heard = <<>>

(* A write accepts a prefix of what it is offered, never beyond Capacity. *)
Accept(n) ==
  /\ n \in 1 .. MaxOffer
  /\ Buffered + n <= Capacity
  /\ accepted' = accepted + n
  /\ UNCHANGED <<delivered, heard>>

(* A read takes the n oldest frames; its caller asked for `requested' and   *)
(* gets nothing but silence after them.                                     *)
Take(n) ==
  /\ n <= Buffered
  /\ delivered' = delivered + n
  /\ UNCHANGED accepted

Deliver(n, requested) ==
  /\ requested \in 1 .. MaxRequest
  /\ n \in 0 .. requested
  /\ Take(n)
  /\ heard' = Padded(delivered, n, requested)

(* reset(), which both sides must have stopped for. *)
Restart ==
  /\ accepted' = 0
  /\ delivered' = 0
  /\ UNCHANGED heard

FifoNext ==
  \/ \E n \in 1 .. MaxOffer : Accept(n)
  \/ \E requested \in 1 .. MaxRequest, n \in 0 .. MaxRequest : Deliver(n, requested)
  \/ Restart

FifoSpec == FifoInit /\ [][FifoNext]_fifoVars
=============================================================================
