------------------------------- MODULE Verdicts -------------------------------
(***************************************************************************)
(* What the kernel hooks promise to a system call that the defence daemon  *)
(* is asked about: it returns once, with the verdict the daemon has        *)
(* reached for this very call, or lets the call pass.                      *)
(***************************************************************************)
CONSTANTS Requests, UV_pass, UV_deny, NoVerdict

VARIABLES decided, result

Init ==
  /\ decided = [r \in Requests |-> NoVerdict]
  /\ result = [r \in Requests |-> NoVerdict]

Decide(r, v) ==
  /\ decided[r] = NoVerdict
  /\ decided' = [decided EXCEPT ![r] = v]
  /\ UNCHANGED result

Return(r, v) ==
  /\ result[r] = NoVerdict
  /\ v \in {UV_pass, decided[r]}
  /\ result' = [result EXCEPT ![r] = v]
  /\ UNCHANGED decided

Next == \E r \in Requests, v \in {UV_pass, UV_deny} : Decide(r, v) \/ Return(r, v)

Spec == Init /\ [][Next]_<<decided, result>>
=============================================================================
