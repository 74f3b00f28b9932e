---------------------------- MODULE RequestData ----------------------------
(***************************************************************************)
(* A request is one POST /notifications/send from a user.                  *)
(***************************************************************************)

CONSTANTS Users,      \* values of dto.userId
          Requests,   \* requests, identified with the jobId generated for each
          UserOf      \* the userId of a request

ASSUME UserAssumption == UserOf \in [Requests -> Users]

RequestsOf(u) == {r \in Requests : UserOf[r] = u}
=============================================================================
