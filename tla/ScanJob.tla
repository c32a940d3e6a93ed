-------------------------------- MODULE ScanJob --------------------------------
(***************************************************************************)
(* What a scan engine promises its observer, without threads: files are    *)
(* taken over and judged, each at most once, and the end of the job is     *)
(* announced when nothing taken over is left, unless the job was stopped.  *)
(* Nothing is taken over or judged after that, until the next job begins.  *)
(***************************************************************************)
CONSTANT Files

VARIABLES
  phase,     \* "idle", "running" or "ended" (ALL_FINISHED was sent)
  handed,    \* files taken over
  done,      \* files judged
  halted     \* Stop reached the job

jobVars == <<phase, handed, done, halted>>

Init == phase = "idle" /\ handed = {} /\ done = {} /\ halted = FALSE

Begin ==
  /\ phase \in {"idle", "ended"}
  /\ phase' = "running" /\ handed' = {} /\ done' = {} /\ halted' = FALSE

Take(f) ==
  /\ phase = "running" /\ f \notin handed
  /\ handed' = handed \cup {f}
  /\ UNCHANGED <<phase, done, halted>>

Judge(f) ==
  /\ phase = "running" /\ f \in handed \ done
  /\ done' = done \cup {f}
  /\ UNCHANGED <<phase, handed, halted>>

Halt ==
  /\ phase \in {"running", "ended"}
  /\ halted' = TRUE
  /\ UNCHANGED <<phase, handed, done>>

End ==
  /\ phase = "running"
  /\ halted \/ done = handed
  /\ phase' = "ended"
  /\ UNCHANGED <<handed, done, halted>>

Next == Begin \/ Halt \/ End \/ \E f \in Files : Take(f) \/ Judge(f)

Spec == Init /\ [][Next]_jobVars
=============================================================================
