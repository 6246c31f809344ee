--------------------------- MODULE MCNotification ---------------------------
(* Notification with an event of each type. *)
EXTENDS Notification

CONSTANTS created, canceled, updated

MCKindOf == [m \in {created, canceled, updated} |->
                IF m = created THEN "order.created"
                ELSE IF m = canceled THEN "order.canceled"
                ELSE "order.status_updated"]
=============================================================================
