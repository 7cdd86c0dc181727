-------------------------------- MODULE Fifo --------------------------------
(***************************************************************************)
(* What a thread queue promises: the data accepted come out once each, in  *)
(* the order they were accepted, to whoever takes them.                    *)
(***************************************************************************)
EXTENDS Naturals, Sequences

CONSTANT Data

VARIABLES
  accepted,   \* the data accepted so far, in order
  delivered   \* the data delivered, in order

FifoInit == accepted = << >> /\ delivered = << >>

Accept(d) == accepted' = Append(accepted, d) /\ UNCHANGED delivered

Deliver ==
  /\ Len(delivered) < Len(accepted)
  /\ delivered' = Append(delivered, accepted[Len(delivered) + 1])
  /\ UNCHANGED accepted

FifoNext == Deliver \/ \E d \in Data : Accept(d)

FifoSpec == FifoInit /\ [][FifoNext]_<<accepted, delivered>>

=============================================================================
