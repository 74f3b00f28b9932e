---------------------------- MODULE GatewayData ----------------------------
(***************************************************************************)
(* The data the components behind the controller share.  A request carries *)
(* an idempotency key chosen by the client, and enqueueNotification        *)
(* generates one jobId for it, so a member of Requests stands both for the *)
(* request and for the jobId a response names.  Two requests with the same *)
(* key are a request and its duplicate.                                    *)
(***************************************************************************)
EXTENDS RequestData

CONSTANTS Keys,       \* values of dto.idempotencyKey
          Channels,   \* values of dto.channel
          Slots,      \* the concurrent processors of all the BullMQ workers
          KeyOf, ChannelOf,   \* the fields of a request
          NoJob,      \* no jobId
          NoSlot      \* no processor

ASSUME RequestFields == /\ KeyOf \in [Requests -> Keys]
                        /\ ChannelOf \in [Requests -> Channels]

ASSUME NoJobAssumption == NoJob \notin Requests

ASSUME NoSlotAssumption == NoSlot \notin Slots

Duplicates(k) == {r \in Requests : KeyOf[r] = k}
=============================================================================
