-------------------------------- MODULE Ntx --------------------------------
(***************************************************************************)
(* Network transactions, src/src/ntx.c: the operations a task wants done   *)
(* on sockets, kept until its evaluation is known to have succeeded.       *)
(*                                                                         *)
(* A transaction belongs to one worker, so it is a value and not a         *)
(* component with steps of its own.  It is the list that can be reached    *)
(* from `first' and the position in it of the node `last' points to, 0 for *)
(* NULL.                                                                   *)
(***************************************************************************)
EXTENDS Naturals, Sequences

NtxNew == [ops |-> << >>, last |-> 0]               \* ntx_new_tx()

\* ntx_socket_write(), and ntx_socket_close() for the kind of operation: the
\* new operation becomes the successor of the last one.  Only the first
\* append moves `last'.
NtxAppend(tx, op) ==
  IF tx.last = 0 THEN [ops |-> <<op>>, last |-> 1]
                 ELSE [tx EXCEPT !.ops = SubSeq(@, 1, tx.last) \o <<op>>]

\* ntx_commit_tx() once it has passed on the first of the remaining
\* operations; the transaction is cleared behind the last one.
NtxRest(tx) ==
  IF Len(tx.ops) = 1 THEN NtxNew ELSE [tx EXCEPT !.ops = Tail(@)]

NtxKept(tx) == tx

NtxRollback(tx) == NtxNew                           \* ntx_rollback_tx()

=============================================================================
