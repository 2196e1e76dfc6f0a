-------------------------- MODULE MCOperalaBridge --------------------------
(* Instances of OperalaBridge for TLC: requests with and without headers,   *)
(* one that does not decode, one that is refused and one that never ends.   *)
EXTENDS OperalaBridge, TLC

Plain == [correlation |-> {"c1"}, key |-> {"k1"}, body |-> "runnable"]
Bare == [Plain EXCEPT !.correlation = {}]
Bad == [Plain EXCEPT !.body = "malformed"]
Refused == [Plain EXCEPT !.correlation = {"c2"}, !.key = {}, !.body = "refused"]
Slow == [Plain EXCEPT !.correlation = {"c2"}, !.key = {}, !.body = "slow"]

SafetyRequests == {Bare, Bad, Refused}
LiveRequests == {Plain, Bad, Slow}

ServerSymmetry == Permutations(Servers)
=============================================================================
