-------------------------------- MODULE Rows --------------------------------
(***************************************************************************)
(* What a request handler and its database session do to a row.            *)
(*                                                                         *)
(* Every request has a session of its own (db/database.py): a row is read  *)
(* once, its columns are changed in memory, and the commit sends an UPDATE *)
(* of the columns that differ from what was read.  Nothing locks the row   *)
(* or compares it with what it is by then.                                 *)
(***************************************************************************)

(* The row `cur` after a session that read it as `seen` commits it as `new`. *)
Flushed(cur, seen, new) == [c \in DOMAIN cur |-> IF new[c] = seen[c] THEN cur[c] ELSE new[c]]
=============================================================================
