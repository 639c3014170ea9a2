----------------------------- MODULE ClientState -----------------------------
(***************************************************************************)
(* What the parts of YasdClient (src/client.ts) share: the program that    *)
(* uses the client and whether close() has been called.                    *)
(*                                                                         *)
(* close() works in two turns: it marks the client closed and finishes the *)
(* transactions, and after an await it takes down the subscriber and the   *)
(* pool.  Promise continuations run in between, timers and sockets do not. *)
(***************************************************************************)
EXTENDS Naturals, SequencesExt

CONSTANTS
  None,
  Plan            \* what the program may do with a client

VARIABLES
  plan,           \* what it does with this one, a member of Plan
  life            \* "open", "closing" or "closed"

Closed == life # "open"

=============================================================================
