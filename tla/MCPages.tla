------------------------------- MODULE MCPages -------------------------------
(* Pages of the console, for TLC: the mailboxes, the statistics, the date     *)
(* formats, the security settings and the arrangement of the workspace.  A    *)
(* behaviour is about one of them, the part.                                  *)
EXTENDS ConsoleMailboxes, StatisticsChart, DateFormats, ConsoleWorkspace, SecuritySettings

CONSTANTS
    a1, outlookBox, imapBox, s1, s2,
    MaxTurns  \* bound: requests, loads of folders and faults together

VARIABLE part

others == <<workspaceVars, securityVars>>
all == <<part, vars, statsVars, formatVars, others>>

-----------------------------------------------------------------------------
(* Values. *)

NamesOfBoxes == (outlookBox :> "me") @@ (imapBox :> "other")

\* The user starts with a source that waits for its consent.
OneRow ==
    {[i \in Ids |-> [box |-> outlookBox, enabled |-> FALSE, wants |-> TRUE,
                     linked |-> FALSE]]}

\* Days of two hours, weeks of four.
MCHoursIn == [u \in ToSet(Units) |->
    CASE u = "hour" -> 1 [] u = "day" -> 2 [] u = "week" -> 4 [] u = "month" -> 8
      [] u = "trimester" -> 16 [] u = "semester" -> 32 [] u = "year" -> 64]

\* One burst over midnight, with another or not, and one that has just begun.
MCHistories ==
    {[h \in 0..End |-> IF h \in busiest THEN 3 + h ELSE 1] : busiest \in {{1, 3, 4}, {End - 1}}}

MCSpans == {<<0, 1>>, <<0, 3>>, <<1, 5>>, <<0, 5>>}

\* The administrators are interchangeable.
Symmetry == Permutations(Admins)

MCFallbacks == GeoProviders \ {EnvPrimary}

TwoSections == <<s1, s2>>

-----------------------------------------------------------------------------
OfMailboxes(A) ==
    part = "mailboxes" /\ A /\ requests' + folderLoads' + faults' <= MaxTurns
    /\ UNCHANGED <<part, statsVars, formatVars, others>>
OfStatistics(A) == part = "statistics" /\ A /\ UNCHANGED <<part, vars, formatVars, others>>
OfFormats(A) == part = "formats" /\ A /\ UNCHANGED <<part, vars, statsVars, others>>
OfWorkspace(A) ==
    part = "workspace" /\ A /\ UNCHANGED <<part, vars, statsVars, formatVars, securityVars>>
OfSettings(A) ==
    part = "settings" /\ A /\ UNCHANGED <<part, vars, statsVars, formatVars, workspaceVars>>

\* What the other parts start with makes no difference.
MCInit ==
    /\ ConsoleInit /\ StatisticsInit /\ DateFormatInit /\ WorkspaceInit /\ SecurityInit
    /\ part \in {"mailboxes", "statistics", "formats", "workspace", "settings"}
    /\ part # "statistics" => runs[1] # 1
    /\ part # "formats" => locale = CHOOSE l \in Locales : TRUE

MCNext ==
    \/ OfMailboxes(Next) \/ OfStatistics(StatisticsNext) \/ OfFormats(DateFormatNext)
    \/ OfWorkspace(WorkspaceNext) \/ OfSettings(SecurityNext)

MCSpec == MCInit /\ [][MCNext]_all

=============================================================================
