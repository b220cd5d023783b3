-------------------------------- MODULE Outbox --------------------------------
(***************************************************************************)
(* What a communicator with an outbox promises to its callers: messages    *)
(* are accepted in some order, and settled one at a time in that order,    *)
(* each by being handed to the transport or by being reported lost.        *)
(* Destroying the communicator forgets the messages not yet settled.       *)
(***************************************************************************)
EXTENDS Naturals, Sequences

CONSTANT Msg

VARIABLES
  accepted,   \* the messages accepted, in order
  settled,    \* how many of them have been settled
  wire,       \* those the transport took, in order
  open        \* the communicator has not been destroyed

ovars == <<accepted, settled, wire, open>>

OInit == accepted = <<>> /\ settled = 0 /\ wire = <<>> /\ open = TRUE

Accept(m) ==
  /\ open
  /\ accepted' = Append(accepted, m)
  /\ UNCHANGED <<settled, wire, open>>

Deliver ==
  /\ settled < Len(accepted)
  /\ wire' = Append(wire, accepted[settled + 1])
  /\ settled' = settled + 1
  /\ UNCHANGED <<accepted, open>>

Lose ==
  /\ settled < Len(accepted)
  /\ settled' = settled + 1
  /\ UNCHANGED <<accepted, wire, open>>

Close ==
  /\ open
  /\ open' = FALSE
  /\ UNCHANGED <<accepted, settled, wire>>

ONext == (\E m \in Msg : Accept(m)) \/ Deliver \/ Lose \/ Close

OSpec == OInit /\ [][ONext]_ovars
=============================================================================
