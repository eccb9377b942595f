--------------------------- MODULE SignatureRecord ---------------------------
(***************************************************************************)
(* What the signing server promises of its two records (the signing        *)
(* server's README, "Adding a line"): a signature is in the private record *)
(* before it is in the public one, and a request's signature is returned   *)
(* only once the records that its kind calls for have it.                  *)
(***************************************************************************)
CONSTANT Requests       \* [kind, values]

VARIABLES private,      \* the requests the private record has a line for
          public,       \* the values whose signature the public record has
          returned      \* the requests whose signature was returned

vars == <<private, public, returned>>

Init == private = {} /\ public = {} /\ returned = {}

RecordPrivately(req) ==
    /\ private' = private \cup {req}
    /\ UNCHANGED <<public, returned>>

\* Only a live request is made public.
Publish(req) ==
    /\ req.kind = "live" /\ req \in private
    /\ public' = public \cup {req.values}
    /\ UNCHANGED <<private, returned>>

Return(req) ==
    /\ req \in private
    /\ req.kind = "live" => req.values \in public
    /\ returned' = returned \cup {req}
    /\ UNCHANGED <<private, public>>

Next == \E req \in Requests : RecordPrivately(req) \/ Publish(req) \/ Return(req)

Spec == Init /\ [][Next]_vars
==============================================================================
