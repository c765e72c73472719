---------------------------- MODULE MCController -----------------------------
(* Instances of Controller: which of its failures may happen is chosen here. *)
EXTENDS Controller

CONSTANTS h1, unset, local    \* model values

MCHosts      == {h1}
NoFailure    == {}
StartFailure == {"patcher", "emulator"}
SetUpFailure == {"setup"}
AllFailures  == StartFailure \union SetUpFailure
==============================================================================
