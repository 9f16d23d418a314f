--------------------------- MODULE AtomicJsonFile ---------------------------
(* What control_files.py promises its callers about one JSON control file,   *)
(* reduced to a counter as the repository's own tests do: every call takes   *)
(* effect at one instant.                                                    *)
EXTENDS Naturals

VARIABLES
  count,    \* the document
  effects   \* calls that have taken effect

Init == count = 0 /\ effects = 0

\* update_json_file with an incrementing updater.
Update == count' = count + 1 /\ effects' = effects + 1

\* write_json_file of a fresh document: whatever was there is replaced.
Write == count' = 0 /\ effects' = effects + 1

Next == Update \/ Write

Spec == Init /\ [][Next]_<<count, effects>>
=============================================================================
