---------------------------- MODULE MailDelivery ----------------------------
(***************************************************************************)
(* What the importer promises, without polls, checkpoints or failures: a    *)
(* destination mailbox is given contents, a ledger remembers which of them  *)
(* came from which source, and a source may lose a message only to a ledger *)
(* entry that accounts for it.  MailFlow implements this specification for  *)
(* as long as no mail server renumbers a folder.                            *)
(***************************************************************************)
CONSTANTS Source, Destination, Content, MessageId, MessageIdOf, NoMessageId

VARIABLES
    inbox,      \* the contents in each destination mailbox
    ledger,     \* the entries of each destination's ledger
    gone        \* the messages the importer removed from their source

Entry == [src : Source, raw : Content, sanitized : BOOLEAN]
Removal == [dest : Destination, src : Source, raw : Content]

\* Entry e stands for content c of source s.
Accounts(e, s, c) ==
    \/ e.raw = c
    \/ /\ e.src = s
       /\ MessageIdOf[c] # NoMessageId
       /\ MessageIdOf[e.raw] = MessageIdOf[c]

Init ==
    /\ inbox = [d \in Destination |-> {}]
    /\ ledger = [d \in Destination |-> {}]
    /\ gone = {}

Put(d, c) ==
    /\ inbox' = [inbox EXCEPT ![d] = @ \cup {c}]
    /\ UNCHANGED <<ledger, gone>>

Enter(d, e) ==
    /\ e.raw \in inbox[d]
    /\ \A other \in ledger[d] : other.raw # e.raw
    /\ ledger' = [ledger EXCEPT ![d] = @ \cup {e}]
    /\ UNCHANGED <<inbox, gone>>

Remove(r) ==
    /\ \E e \in ledger[r.dest] : ~e.sanitized /\ Accounts(e, r.src, r.raw)
    /\ gone' = gone \cup {r}
    /\ UNCHANGED <<inbox, ledger>>

Next ==
    \/ \E d \in Destination, c \in Content : Put(d, c)
    \/ \E d \in Destination, e \in Entry : Enter(d, e)
    \/ \E r \in Removal : Remove(r)

Spec == Init /\ [][Next]_<<inbox, ledger, gone>>
=============================================================================
