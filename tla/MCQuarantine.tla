----------------------------- MODULE MCQuarantine -----------------------------
(* Small instances of Quarantine for TLC. *)
EXTENDS Quarantine, TLC
CONSTANTS f1, f2, f3, scan, defen

\* Files are interchangeable, and so are the threads that find them.
Interchangeable == Permutations({f1, f2, f3}) \cup Permutations({scan, defen})

\* Two threads in the index at a time do known harm, which every property
\* excepts: TLC does not follow what becomes of it.
Followed == "overlap" \notin harm
=============================================================================
