----------------------------- MODULE MCImapIdle -----------------------------
(* ImapIdle with one source of two folders, small enough for TLC. *)
EXTENDS ImapIdle

=============================================================================
