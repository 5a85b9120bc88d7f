----------------------------- MODULE MCSecurity -----------------------------
(* The extension's sign-in and the stored secrets, for TLC: a behaviour is   *)
(* about one of them, the part.                                              *)
EXTENDS ExtensionAuth, SecretConsole, TLC

CONSTANTS k1, k2

VARIABLE part
all == <<part, vars, consoleVars>>

Symmetry == Permutations(Flows) \cup Permutations(Records)

OfSignIn(A) == part = "signIn" /\ A /\ UNCHANGED <<part, consoleVars>>
OfSecrets(A) == part = "secrets" /\ A /\ UNCHANGED <<part, vars>>

\* The keys are interchangeable: the first deployment has k1, and no legacy
\* key when the page is open.  The sign-in starts with nothing stored.
MCInit ==
    /\ Init /\ ConsoleInit
    /\ active = k1
    /\ \/ part = "secrets" /\ (PageOpen => legacy = {})
       \/ part = "signIn" /\ ~PageOpen /\ legacy = {}

MCNext == OfSignIn(Next) \/ OfSecrets(ConsoleNext)

MCSpec == MCInit /\ [][MCNext]_all
=============================================================================
