---------------------------- MODULE EventDelivery ----------------------------
(***************************************************************************)
(* What the event pipeline promises about each request event, whatever     *)
(* topics, retries and batches carry it: an event is published, travels,   *)
(* and is at last stored or lost, and neither end is ever undone.  While   *)
(* the only consumer that could move an event is off, it is stranded.      *)
(***************************************************************************)
CONSTANT Events

VARIABLE status

Statuses == {"unsent", "travelling", "stranded", "stored", "lost"}

Moves ==
    {<<"unsent", "travelling">>, <<"travelling", "stored">>,
     <<"travelling", "lost">>, <<"travelling", "stranded">>,
     <<"stranded", "travelling">>}

DeliveryInit == status = [e \in Events |-> "unsent"]

\* One step may move several events: a batch is stored as a whole.
DeliveryNext ==
    /\ status' \in [Events -> Statuses]
    /\ \A e \in Events :
        status'[e] # status[e] => <<status[e], status'[e]>> \in Moves

\* No end is undone, and nothing happens to an event out of turn.
DeliverySafety == DeliveryInit /\ [][DeliveryNext]_status

\* Nothing travels for ever.
Settles == \A e \in Events : (status[e] = "travelling") ~> (status[e] # "travelling")

DeliverySpec == DeliverySafety /\ Settles
=============================================================================
