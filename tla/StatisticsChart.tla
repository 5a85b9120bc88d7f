-------------------------- MODULE StatisticsChart --------------------------
(***************************************************************************)
(* The statistics of the console: the chart of the polls with its ranges   *)
(* and resolutions, and the warning that far more scheduled polls ran than *)
(* the interval allows.                                                    *)
(*                                                                         *)
(* Time is counted in hours, and the calendar is scaled down: HoursIn is   *)
(* the length of a day, a week and so on.  A bucket is a resolution and a  *)
(* number; the bucket [unit |-> u, n |-> k] holds the hours from           *)
(* k * HoursIn[u] on.  The server answers every preset range in the        *)
(* resolution of that range, and a custom range in one that suits it.      *)
(***************************************************************************)
EXTENDS Integers, FiniteSets, Sequences, SequencesExt, FiniteSetsExt, Functions

CONSTANTS
    NoSpan,         \* nothing
    HoursIn,        \* the hours of a day, week, month, trimester, semester, year
    Histories,      \* the scheduled polls that ran in each hour
    Threshold,      \* how many an hour are still plausible
    Spans,          \* the custom ranges that are asked for
    ByTheHour, ByTheDay,            \* longest spans answered by the hour and by the day
    FewDays, SomeWeeks, Years,      \* spans of fourteen, sixty and 730 days
    NoticeAge, WarningAge,          \* how old a warning may be
    Start, End      \* bound: the hours that pass

Units == <<"hour", "day", "week", "month", "trimester", "semester", "year">>
Presets == {"today", "yesterday", "pastWeek", "pastMonth", "pastTrimester", "pastSemester",
            "pastYear"}
Hours == 0..End

ASSUME StatisticsChartAssumption ==
    /\ HoursIn \in [ToSet(Units) -> Nat \ {0}] /\ HoursIn["hour"] = 1
    /\ Histories \subseteq [Hours -> Nat]
    /\ {Threshold, ByTheHour, ByTheDay, FewDays, SomeWeeks, Years, NoticeAge, WarningAge,
        Start, End} \subseteq Nat
    /\ Spans \subseteq {s \in Hours \X Hours : s[1] < s[2]}

VARIABLES
    runs,       \* the polls of each hour
    now,
    loaded,     \* the hour and the range keys of the statistics the page has
    range, resolution,  \* selectedRange, selectedResolution
    custom,     \* the custom range whose data is shown, or NoSpan
    asked,      \* the custom range that is being loaded, or NoSpan
    dialog,     \* whether the dialog of the custom range is open
    view,       \* the range and resolution that are remembered for the chart
    admin,      \* whether an administrator is signed in
    anomaly,    \* globalStatsAnomaly, or NoSpan
    known,      \* globalStatsAnomalyKeyRef
    pulse,      \* globalStatsNeedsAttention
    timer,      \* whether a timer is to end the pulse
    notice      \* whether the notification of the anomaly is in the history

chartVars == <<range, resolution, custom, asked, dialog, view>>
alertVars == <<known, pulse, timer, notice>>
statsVars == <<runs, now, loaded, chartVars, admin, anomaly, alertVars>>

NoStats == [at |-> 0, keys |-> {}]

---------------------------------------------------------------------------
(* Buckets and rows. *)

\* detectResolution, of the labels the server gives a range; no rows are
\* taken for days.
Native(r, keys, span) ==
    IF r \in {"today", "yesterday"} THEN "hour"
    ELSE IF r = "custom" THEN
        IF span = NoSpan THEN "day"
        ELSE IF span[2] - span[1] <= ByTheHour THEN "hour"
        ELSE IF span[2] - span[1] <= ByTheDay THEN "day" ELSE "month"
    ELSE IF r \notin keys THEN "day"
    ELSE CASE r = "pastWeek" -> "hour" [] r = "pastMonth" -> "day" [] OTHER -> "week"

\* The hours of a range: up to the hour of the load, the day before, or the span.
Window(r, at, span) ==
    LET upTo(len) == (IF at - len < -1 THEN 0 ELSE at - len + 1)..at
        yesterday == at \div HoursIn["day"] - 1
    IN CASE r = "today" -> upTo(HoursIn["day"])
         [] r = "yesterday" -> {h \in Hours : h \div HoursIn["day"] = yesterday}
         [] r = "pastWeek" -> upTo(HoursIn["week"])
         [] r = "pastMonth" -> upTo(HoursIn["month"])
         [] r = "pastTrimester" -> upTo(HoursIn["trimester"])
         [] r = "pastSemester" -> upTo(HoursIn["semester"])
         [] r = "pastYear" -> upTo(HoursIn["year"])
         [] r = "custom" -> IF span = NoSpan THEN {} ELSE span[1]..span[2]

Bucket(unit, hour) == [unit |-> unit, n |-> hour \div HoursIn[unit]]
FirstHour(b) == b.n * HoursIn[b.unit]

\* The points the server sends: the buckets of the window, with their polls.
Points(r, keys, at, span) ==
    LET unit == Native(r, keys, span)
        window == IF r = "custom" \/ r \in keys THEN Window(r, at, span) ELSE {}
    IN [b \in {Bucket(unit, h) : h \in window} |->
            MapThenSumSet(LAMBDA h : runs[h], {h \in window : Bucket(unit, h) = b})]

Rank(unit) == SelectInSeq(Units, LAMBDA u : u = unit)

\* What some points have together.
Total(values, points) == MapThenSumSet(LAMBDA b : values[b], points)

\* Fault: a row has the value of the last of its points.
LastPoint(values, row) == LET n == Max({b.n : b \in DOMAIN row}) IN
    values[CHOOSE b \in DOMAIN row : b.n = n]

\* A row has what its points have together.
RowValue(values, row) == Total(values, DOMAIN row)

\* aggregateBucketKey.  The labels of the hours of a custom range are not
\* those of the others, and stay as they are; so does what is not finer.
AggregateKey(b, target, r) ==
    IF b.unit = target \/ Rank(target) < Rank(b.unit) THEN b
    ELSE IF b.unit = "hour" /\ r \in {"custom", "yesterday"} THEN b
    ELSE Bucket(target, FirstHour(b))

\* aggregateChartRows.
Rows(points, target, r) ==
    [k \in {AggregateKey(b, target, r) : b \in DOMAIN points} |->
        RowValue(points, [b \in {c \in DOMAIN points : AggregateKey(c, target, r) = k} |-> k])]

---------------------------------------------------------------------------
(* Resolutions. *)

AtOrAbove(native, units) == {u \in units : Rank(u) >= Rank(native)}

CustomResolutions(span, native) ==
    LET length == span[2] - span[1]
    IN AtOrAbove(native,
           IF span = NoSpan THEN ToSet(Units)
           ELSE IF length < HoursIn["day"] THEN {"hour"}
           ELSE IF length < FewDays THEN {"hour", "day"}
           ELSE IF length < SomeWeeks THEN {"day", "week"}
           ELSE IF length < Years THEN {"week", "month"}
           ELSE {"month", "trimester", "semester", "year"})

\* availableResolutionsFor.
Available(r, native, span) ==
    CASE r \in {"today", "yesterday"} -> {"hour"}
      [] r = "pastWeek" -> IF native = "hour" THEN {"hour", "day"} ELSE {"day"}
      [] r = "pastMonth" -> IF native = "month" THEN {"month"} ELSE {"day", "week"}
      [] r = "custom" -> CustomResolutions(span, native)
      [] OTHER -> IF native = "month" THEN {"month"} ELSE {"week", "month"}

Finest(units) == Units[Min({Rank(u) : u \in units})]

\* defaultResolutionFor.
Default(r, native, span) ==
    CASE r \in {"today", "yesterday"} -> "hour"
      [] r = "pastWeek" -> IF native = "hour" THEN "day" ELSE native
      [] r = "pastMonth" -> IF native = "month" THEN "month" ELSE "day"
      [] r = "custom" -> LET units == CustomResolutions(span, native)
                         IN IF units = {} THEN native ELSE Finest(units)
      [] OTHER -> IF native = "month" THEN "month" ELSE "week"

\* The resolution that is kept when the range stays, or the range's own.
Kept(wanted, r, keys, span) ==
    LET native == Native(r, keys, span)
    IN IF wanted \in Available(r, native, span) THEN wanted ELSE Default(r, native, span)

Own(r, keys, span) == Default(r, Native(r, keys, span), span)

---------------------------------------------------------------------------
(* The warning. *)

\* The hours of a range that have more polls than is plausible.
Suspicious(r, keys, at) ==
    IF r \in keys THEN {h \in Window(r, at, NoSpan) : runs[h] > Threshold} ELSE {}

\* Contiguous hours make one span.
SpansOf(hours, r) ==
    {[range |-> r, from |-> f, to |-> t] : f \in {h \in hours : h - 1 \notin hours},
                                           t \in {h \in hours : h + 1 \notin hours}}
Contiguous(s, hours) == s.from <= s.to /\ s.from..s.to \subseteq hours

Peak(s) == Max({runs[h] : h \in s.from..s.to})

\* The ranges with hourly buckets, in the order the points are sorted.
HourlyRanges == <<"pastWeek", "today", "yesterday">>

\* detectScheduledRunAnomaly: the span that ended last, of those the one with
\* the highest peak, of those the first.
Detect(keys, at) ==
    LET of(r) == {s \in SpansOf(Suspicious(r, keys, at), r) :
                      Contiguous(s, Suspicious(r, keys, at))}
        all == UNION {of(r) : r \in ToSet(HourlyRanges)}
        last == {s \in all : \A o \in all : o.to <= s.to}
        best == {s \in last : \A o \in last : Peak(o) <= Peak(s)}
        order(s) == SelectInSeq(HourlyRanges, LAMBDA r : r = s.range)
    IN IF all = {} THEN NoSpan
       ELSE LET s == CHOOSE x \in best : \A y \in best : order(x) <= order(y)
            IN [range |-> s.range, from |-> s.from, to |-> s.to, peak |-> Peak(s),
                notify |-> at - s.to <= NoticeAge, warn |-> at - s.to <= WarningAge]

\* The part of an anomaly that tells it from another.
AnomalyKey(a) == [range |-> a.range, from |-> a.from, to |-> a.to, peak |-> a.peak]

\* The effect that follows the anomaly and the session.  Whenever it runs
\* again, the timer of its last run is cleared.
Announce(a, signedIn) ==
    LET fresh == signedIn /\ a # NoSpan /\ a.notify /\ known # AnomalyKey(a)
    IN /\ known' = IF ~signedIn THEN known ELSE IF a = NoSpan THEN NoSpan
                   ELSE IF fresh THEN AnomalyKey(a) ELSE known
       /\ notice' = (fresh \/ (notice /\ signedIn /\ a # NoSpan /\ a.notify))
       /\ timer' = fresh
       /\ pulse' = (fresh \/ (pulse /\ (~signedIn \/ (a # NoSpan /\ a.warn))))

---------------------------------------------------------------------------

StatisticsInit ==
    /\ runs \in Histories
    /\ now = Start
    /\ loaded = NoStats
    /\ range = "pastMonth" /\ resolution = "day"
    /\ custom = NoSpan /\ asked = NoSpan /\ dialog = FALSE /\ view = NoSpan
    /\ admin = TRUE
    /\ anomaly = NoSpan /\ known = NoSpan
    /\ pulse = FALSE /\ timer = FALSE /\ notice = FALSE

HourPasses ==
    /\ now < End
    /\ now' = now + 1
    /\ UNCHANGED <<runs, loaded, chartVars, admin, anomaly, alertVars>>

\* defaultSelectableRange, in the order of the presets (there are points in all).
PresetOrder == <<"today", "yesterday", "pastWeek", "pastMonth", "pastTrimester",
                 "pastSemester", "pastYear">>
FirstRange(keys) ==
    IF keys = {} THEN "pastMonth"
    ELSE PresetOrder[Min({i \in DOMAIN PresetOrder : PresetOrder[i] \in keys})]

\* A chart that is made begins with what it remembers, if there is still such a
\* range; a custom range has no data any longer.
Mounted(keys) ==
    LET r == IF view # NoSpan /\ view[1] \in keys THEN view[1] ELSE FirstRange(keys)
        wanted == IF view # NoSpan THEN view[2] ELSE Own(r, keys, NoSpan)
    IN /\ range' = r
       /\ resolution' = Kept(wanted, r, keys, NoSpan)
       /\ view' = <<r, resolution'>>
       /\ custom' = NoSpan /\ asked' = NoSpan /\ dialog' = FALSE

\* Fault: a range that the answer leaves out is not kept.
KeepsOnly(keys) == range = "custom" \/ range \in keys

\* The range that is selected stays selectable.
KeepsRange(keys) == TRUE

\* A load of the console brings the statistics, some ranges of which may be
\* left out; the first one makes the chart.
Load(keys) ==
    /\ admin
    /\ loaded' = [at |-> now, keys |-> keys]
    /\ IF loaded = NoStats THEN Mounted(keys)
       ELSE /\ range' = IF KeepsRange(keys) THEN range ELSE FirstRange(keys)
            /\ resolution' = Kept(resolution, range', keys, custom)
            /\ view' = <<range', resolution'>>
            /\ UNCHANGED <<custom, asked, dialog>>
    /\ anomaly' = Detect(keys, now)
    /\ Announce(anomaly', admin)
    /\ UNCHANGED <<runs, now, admin>>

\* The section is folded and unfolded, or the page is loaded again.
Remount ==
    /\ loaded # NoStats
    /\ Mounted(loaded.keys)
    /\ UNCHANGED <<runs, now, loaded, admin, anomaly, alertVars>>

ShowRange(r) ==
    /\ range' = r
    /\ resolution' = IF r # range THEN Own(r, loaded.keys, custom) ELSE resolution
    /\ view' = <<r, resolution'>>

SelectRange(r) ==
    /\ loaded # NoStats /\ ~dialog
    /\ r \in loaded.keys \cup {range} /\ r # "custom"
    /\ ShowRange(r)
    /\ UNCHANGED <<runs, now, loaded, custom, asked, dialog, admin, anomaly, alertVars>>

SelectResolution(u) ==
    /\ loaded # NoStats /\ ~dialog
    /\ u \in Available(range, Native(range, loaded.keys, custom), custom)
    /\ resolution' = u
    /\ view' = <<range, u>>
    /\ UNCHANGED <<runs, now, loaded, range, custom, asked, dialog, admin, anomaly, alertVars>>

\* "Show on chart" takes the chart to the range of the warning.
ShowAnomaly ==
    /\ anomaly # NoSpan /\ anomaly.warn /\ ~dialog
    /\ anomaly.range \in loaded.keys \cup {range}
    /\ ShowRange(anomaly.range)
    /\ UNCHANGED <<runs, now, loaded, custom, asked, dialog, admin, anomaly, alertVars>>

OpenCustomRange ==
    /\ loaded # NoStats /\ ~dialog
    /\ dialog' = TRUE
    /\ UNCHANGED <<runs, now, loaded, range, resolution, custom, asked, view, admin, anomaly,
                   alertVars>>

\* Closing does not take back what was asked for.
CloseCustomRange ==
    /\ dialog /\ dialog' = FALSE
    /\ UNCHANGED <<runs, now, loaded, range, resolution, custom, asked, view, admin, anomaly,
                   alertVars>>

ApplyCustomRange(span) ==
    /\ dialog /\ asked = NoSpan
    /\ span[2] <= now
    /\ asked' = span
    /\ UNCHANGED <<runs, now, loaded, range, resolution, custom, dialog, view, admin, anomaly,
                   alertVars>>

\* The data comes with its bounds, wherever the user is by then.
CustomRangeArrives ==
    /\ asked # NoSpan
    /\ custom' = asked /\ asked' = NoSpan /\ dialog' = FALSE
    /\ range' = "custom"
    /\ resolution' = IF range # "custom" THEN Own("custom", loaded.keys, asked)
                     ELSE Kept(resolution, "custom", loaded.keys, asked)
    /\ view' = <<"custom", resolution'>>
    /\ UNCHANGED <<runs, now, loaded, admin, anomaly, alertVars>>

CustomRangeFails ==
    /\ asked # NoSpan /\ asked' = NoSpan
    /\ UNCHANGED <<runs, now, loaded, range, resolution, custom, dialog, view, admin, anomaly,
                   alertVars>>

PulseEnds ==
    /\ timer /\ timer' = FALSE /\ pulse' = FALSE
    /\ UNCHANGED <<runs, now, loaded, chartVars, admin, anomaly, known, notice>>

ClearNotice ==
    /\ notice /\ notice' = FALSE
    /\ UNCHANGED <<runs, now, loaded, chartVars, admin, anomaly, known, pulse, timer>>

\* The console forgets the statistics, and what was shown of them; somebody
\* else, or the same administrator, signs in.
SignOut ==
    /\ admin
    /\ admin' = FALSE
    /\ loaded' = NoStats /\ anomaly' = NoSpan
    /\ range' = "pastMonth" /\ resolution' = "day"
    /\ custom' = NoSpan /\ asked' = NoSpan /\ dialog' = FALSE
    /\ Announce(NoSpan, FALSE)
    /\ UNCHANGED <<runs, now, view>>

SignIn ==
    /\ ~admin
    /\ admin' = TRUE
    /\ Announce(NoSpan, TRUE)
    /\ UNCHANGED <<runs, now, loaded, chartVars, anomaly>>

StatisticsNext ==
    \/ HourPasses \/ Remount \/ ShowAnomaly
    \/ \E keys \in {Presets, Presets \ {"pastWeek"}, {"today", "pastMonth"}} : Load(keys)
    \/ \E r \in Presets : SelectRange(r)
    \/ \E u \in ToSet(Units) : SelectResolution(u)
    \/ OpenCustomRange \/ CloseCustomRange \/ CustomRangeArrives \/ CustomRangeFails
    \/ \E span \in Spans : ApplyCustomRange(span)
    \/ PulseEnds \/ ClearNotice \/ SignOut \/ SignIn

StatisticsSpec == StatisticsInit /\ [][StatisticsNext]_statsVars

---------------------------------------------------------------------------

ShownPoints == Points(range, loaded.keys, loaded.at, custom)
ShownRows == Rows(ShownPoints, resolution, range)

\* Whatever range and resolution the user, a refresh or the warning chose, the
\* rows of the chart are buckets of that resolution, each with the polls of the
\* server's points that begin in it, and none is lost.  The days of a custom
\* range that was answered by the hour are not summed: they are left out here
\* (aggregateChartRows, aggregateBucketKey).
RowsAreTheirPoints ==
    /\ loaded # NoStats
    /\ ~(range = "custom" /\ resolution # "hour" /\ Native(range, loaded.keys, custom) = "hour")
    =>
        \A k \in DOMAIN ShownRows :
            /\ k.unit = resolution
            /\ ShownRows[k] = Total(ShownPoints,
                   {b \in DOMAIN ShownPoints : Bucket(resolution, FirstHour(b)) = k})

\* A load never takes the user to another range, nor to another resolution as
\* long as it brings the range that is shown (the selectable ranges of the
\* chart; "preserves its selected range and manual resolution choice").
LoadsKeepTheView ==
    [][<<range, resolution>>' # <<range, resolution>> /\ loaded # NoStats =>
           \A keys \in SUBSET Presets :
               Load(keys) =>
                   /\ range' = range
                   /\ (range = "custom" \/ range \in loaded.keys \cap keys) => resolution' = resolution
      ]_statsVars

=============================================================================
