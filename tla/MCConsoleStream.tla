--------------------------- MODULE MCConsoleStream ---------------------------
(* More events than a page, more clients than slots, a worker that falls     *)
(* silent.                                                                   *)
EXTENDS ConsoleStream
=============================================================================
