---------------------------- MODULE MCCallGates -----------------------------
(***************************************************************************)
(* Instance of CallGates for TLC: requests with every handle the one-slot  *)
(* table can issue, and four malformed ones.                               *)
(***************************************************************************)
EXTENDS CallGates

Request(t, h) == [target |-> t, operation |-> 1, resource |-> 1, handle |-> h]

MCRequests == {Request(t, h) : t \in Services, h \in Handles}
                \cup {Request(1, <<0, 0>>), Request(ServiceTableSize, <<1, 1>>),
                      [Request(1, <<1, 1>>) EXCEPT !.operation = 0],
                      [Request(1, <<1, 1>>) EXCEPT !.resource = 0]}
=============================================================================
