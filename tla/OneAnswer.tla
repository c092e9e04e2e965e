----------------------------- MODULE OneAnswer ------------------------------
(***************************************************************************)
(* What the tool relay promises about a request, however often its call is *)
(* held, issued again or closed: it only moves forward, it has one answer  *)
(* at most, the answer is used at most once, and nothing follows the end.  *)
(***************************************************************************)
CONSTANTS Requests

VARIABLES status      \* the status of each request on file

Later(s) ==
  CASE s = "none"     -> {"open", "answered", "used", "dropped"}
    [] s = "open"     -> {"answered", "used", "dropped"}
    [] s = "answered" -> {"used", "dropped"}
    [] OTHER          -> {}

Init == status = [r \in Requests |-> "none"]

\* One filing may record several steps of several requests.
File ==
  /\ DOMAIN status' = Requests
  /\ \A r \in Requests : status'[r] \in {status[r]} \cup Later(status[r])

Spec == Init /\ [][File]_status
=============================================================================
