--------------------------- MODULE MailboxSetup ---------------------------
(***************************************************************************)
(* The mailboxes of one user on the server: the source accounts mail is    *)
(* read from and the destination it is delivered to.  A source may be the  *)
(* destination's own mailbox only while it is disabled, or every message   *)
(* would be fetched and delivered back; the rule is kept by each           *)
(* transaction that enables a source or moves the destination, and not by  *)
(* the database.                                                           *)
(*                                                                         *)
(* A mailbox is a host with a user name.  The transport of an account, its *)
(* folders and what is done after a poll do not matter here; a save may    *)
(* also be refused because of them.  An account keeps its name.            *)
(*                                                                         *)
(* A transaction that only reads and writes the database is one step.  The *)
(* one that enables a source after its consent is two: it tests the        *)
(* connection between its comparison and its write, and others commit      *)
(* meanwhile.                                                              *)
(***************************************************************************)
EXTENDS Naturals, FiniteSets

CONSTANTS
    Ids,         \* names of source accounts
    Boxes,       \* mailboxes
    UserOf,      \* the user name of each mailbox
    OAuthBoxes,  \* mailboxes whose provider signs in with OAuth
    None,        \* no account, no mailbox
    Providers,   \* the kinds of destination that are used
    InitialRows  \* source accounts that may exist at first

Row == [box: Boxes, enabled: BOOLEAN, wants: BOOLEAN, linked: BOOLEAN]
Destination == [provider: Providers \cup {None}, box: Boxes \cup {None}]
Test == [row: Row, dest: Destination]

ASSUME MailboxAssumption ==
    /\ None \notin Boxes \cup {"GMAIL", "OUTLOOK", "IMAP"}
    /\ None \notin Row \cup Test
    /\ OAuthBoxes \subseteq Boxes
    /\ Providers \subseteq {"GMAIL", "OUTLOOK", "IMAP"}
    /\ InitialRows \subseteq [Ids -> Row \cup {None}]

VARIABLES
    rows,    \* user_email_account, by account
    dest,    \* user_mail_destination_config
    gmail,   \* the mailbox the stored Google credential opens
    outlook, \* whether a Microsoft credential of the destination is stored
    testing, \* enablings that have not committed yet: the account as it was
             \* read, and the destination it was compared with
    overtaken \* history: sources enabled by a comparison with a destination
              \* that had changed by then, and not compared again since

setupVars == <<rows, dest, gmail, outlook, testing, overtaken>>

SetupInit ==
    /\ rows \in InitialRows
    /\ dest = [provider |-> None, box |-> None]
    /\ gmail = None
    /\ outlook = FALSE
    /\ testing = [i \in Ids |-> None]
    /\ overtaken = {}

---------------------------------------------------------------------------
(* Who delivers to whom. *)

\* The mailbox the conflict checks compare with.  For Gmail they read the
\* address in the user's Gmail row, and nothing creates that row.
ComparedWith(d) == IF d.provider \in {"OUTLOOK", "IMAP"} THEN d.box ELSE None

\* The comparison itself looks at the user name alone: every host passes
\* for a Google host.
Matches(box, d) ==
    ComparedWith(d) # None /\ UserOf[box] = UserOf[ComparedWith(d)]

\* Sources that match the destination are disabled with it.
DisableMatching(d) ==
    [i \in Ids |-> IF rows[i] # None /\ Matches(rows[i].box, d)
                   THEN [rows[i] EXCEPT !.enabled = FALSE] ELSE rows[i]]

\* The provider whose credential the destination uses, and the one that a
\* requested destination would use.
LinkedProvider ==
    IF dest.provider \in {None, "GMAIL"} /\ gmail # None THEN "GOOGLE"
    ELSE IF dest.provider = "OUTLOOK" /\ outlook THEN "MICROSOFT"
    ELSE None

RequestedProvider(d) ==
    IF d.provider = "GMAIL" THEN "GOOGLE"
    ELSE IF d.provider = "OUTLOOK" THEN "MICROSOFT"
    ELSE None

---------------------------------------------------------------------------
(* The source accounts. *)

\* A save for an OAuth account without a token keeps it disabled, and only
\* remembers what was wanted.
Pending(id, box) ==
    box \in OAuthBoxes /\ (rows[id] = None \/ ~rows[id].linked)

Saved(id, box, enabled) ==
    [box |-> box, enabled |-> enabled /\ ~Pending(id, box),
     wants |-> enabled /\ Pending(id, box),
     linked |-> box \in OAuthBoxes /\ ~Pending(id, box)]

\* What upsert refuses: a name that is taken or unknown, a mailbox that is
\* taken, and an enabled source that matches the destination.
UpsertAccepted(add, id, box, enabled) ==
    /\ add <=> rows[id] = None
    /\ \A i \in Ids \ {id} : rows[i] # None => rows[i].box # box
    /\ Saved(id, box, enabled).enabled => ~Matches(box, dest)

Upsert(add, id, box, enabled) ==
    /\ UpsertAccepted(add, id, box, enabled)
    /\ rows' = [rows EXCEPT ![id] = Saved(id, box, enabled)]
    /\ overtaken' = overtaken \ {id}
    /\ UNCHANGED <<dest, gmail, outlook, testing>>

Delete(id) ==
    /\ rows[id] # None
    /\ rows' = [rows EXCEPT ![id] = None]
    /\ overtaken' = overtaken \ {id}
    /\ UNCHANGED <<dest, gmail, outlook, testing>>

\* The grant of a source is stored.  A source that waited for it is read,
\* compared with the destination and then tested.
StoreSourceGrant(id) ==
    /\ testing[id] = None
    /\ rows[id] # None
    /\ rows[id].box \in OAuthBoxes
    /\ rows' = [rows EXCEPT ![id].linked = TRUE]
    /\ testing' = IF rows[id].wants /\ ~Matches(rows[id].box, dest)
                  THEN [testing EXCEPT ![id] = [row |-> rows'[id], dest |-> dest]]
                  ELSE testing
    /\ UNCHANGED <<dest, gmail, outlook, overtaken>>

\* When the test succeeds the row is written back, enabled, as it was read;
\* the row of an account deleted meanwhile is not written.
EnableAfterSuccessfulOauthConnection(id) ==
    /\ testing[id] # None
    /\ \/ /\ rows[id] # None
          /\ rows' = [rows EXCEPT ![id] = [testing[id].row EXCEPT
                                             !.enabled = TRUE, !.wants = FALSE]]
          /\ overtaken' = IF testing[id].dest = dest THEN overtaken \ {id}
                          ELSE overtaken \cup {id}
       \/ rows' = rows /\ UNCHANGED overtaken
    /\ testing' = [testing EXCEPT ![id] = None]
    /\ UNCHANGED <<dest, gmail, outlook>>

---------------------------------------------------------------------------
(* The destination. *)

\* A save of the destination drops the credential of another provider.
UpdateDestination(d) ==
    /\ LET replaced == LinkedProvider # RequestedProvider(d)
       IN  /\ gmail' = IF replaced /\ LinkedProvider = "GOOGLE"
                       THEN None ELSE gmail
           /\ outlook' = (outlook /\ ~(replaced
                                         /\ LinkedProvider = "MICROSOFT"))
    /\ dest' = [d EXCEPT !.box = IF d.provider = "GMAIL" THEN None ELSE @]
    /\ rows' = DisableMatching(dest')
    /\ overtaken' = {}
    /\ UNCHANGED testing

\* Fault: the destination follows the account without looking at sources.
LinkOutlookOnly(box) ==
    /\ outlook' = TRUE
    /\ dest' = [provider |-> "OUTLOOK", box |-> box]
    /\ rows' = rows /\ overtaken' = {}
    /\ UNCHANGED <<gmail, testing>>

\* The code of a consent for the Outlook destination is exchanged: the user
\* signed in to box, which becomes the destination's mailbox.
LinkOutlook(box) ==
    /\ outlook' = TRUE
    /\ dest' = [provider |-> "OUTLOOK", box |-> box]
    /\ rows' = DisableMatching(dest') /\ overtaken' = {}
    /\ UNCHANGED <<gmail, testing>>

\* The same for Gmail, whose address is asked for and not recorded.
LinkGmail(box) ==
    /\ gmail' = box
    /\ rows' = DisableMatching(dest) /\ overtaken' = {}
    /\ UNCHANGED <<dest, outlook, testing>>

UnlinkDestination ==
    /\ gmail' = IF dest.provider \in {None, "GMAIL"} THEN None ELSE gmail
    /\ outlook' = (outlook /\ dest.provider # "OUTLOOK")
    /\ UNCHANGED <<rows, dest, testing, overtaken>>

---------------------------------------------------------------------------
\* What the destination can be set to: Gmail's has no address.
Drafts == {[provider |-> p, box |-> b] : p \in Providers \ {"GMAIL"}, b \in Boxes}
            \cup {[provider |-> p, box |-> None] : p \in Providers \cap {"GMAIL"}}

\* The server alone, under any requests.
SetupNext ==
    \/ \E add, enabled \in BOOLEAN, id \in Ids, b \in Boxes :
          Upsert(add, id, b, enabled)
    \/ \E id \in Ids : Delete(id)
    \/ \E id \in Ids : StoreSourceGrant(id)
    \/ \E id \in Ids : EnableAfterSuccessfulOauthConnection(id)
    \/ \E d \in Drafts : UpdateDestination(d)
    \/ "OUTLOOK" \in Providers /\ \E b \in OAuthBoxes : LinkOutlook(b)
    \/ "GMAIL" \in Providers /\ \E b \in OAuthBoxes : LinkGmail(b)
    \/ UnlinkDestination

SetupSpec == SetupInit /\ [][SetupNext]_setupVars

SetupTypeOK ==
    /\ rows \in [Ids -> Row \cup {None}]
    /\ dest \in Destination
    /\ gmail \in Boxes \cup {None}
    /\ outlook \in BOOLEAN
    /\ testing \in [Ids -> Test \cup {None}]
    /\ overtaken \subseteq Ids

(* No enabled source is the mailbox of a recorded destination, whatever was *)
(* saved, linked or unlinked in between: a message would travel in a circle *)
(* (UserEmailAccountService.upsert and enableAfterSuccessfulOauthConnection,*)
(* MailboxConflictService).  The one exception is a source whose consent    *)
(* enabled it while the destination was changed, until the source or the    *)
(* destination is saved again; one that only was tested in between, with    *)
(* the destination as it was compared, is none.                             *)
NoMailLoop ==
    \A i \in Ids : (rows[i] # None /\ rows[i].enabled /\ Matches(rows[i].box, dest))
                     => i \in overtaken

===========================================================================
