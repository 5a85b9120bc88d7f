----------------------------- MODULE DateFormats -----------------------------
(***************************************************************************)
(* Custom date formats in the preferences of the admin console: the        *)
(* preference as it is stored, the dialog that edits a custom pattern in   *)
(* the language of the user (PreferencesDialog.jsx) with its token         *)
(* completion (AutocompleteInput.jsx), and the conversions between the     *)
(* stored tokens and their names in that language (formatters.js).         *)
(*                                                                         *)
(* A pattern is a sequence of characters.  Three of the seventeen tokens   *)
(* stand for all of them: the two years, which other languages rename, and *)
(* the meridiem, which none does and whose letter Spanish, French and      *)
(* Portuguese use for the years.  "-" stands for every separator.          *)
(***************************************************************************)
EXTENDS Integers, Sequences, FiniteSets, SequencesExt

CONSTANTS
    Locales,        \* languages of the user: "en", "de", "es"
    Keys,           \* characters the user types; a completion gives the others
    MaxLength,      \* longest pattern: 64 characters in the code
    MaxDepartures   \* bound on the formats that arrive from elsewhere

ASSUME DateFormatAssumption ==
    /\ Locales \subseteq {"en", "de", "es"}
    /\ Keys \subseteq {"Y", "J", "A", "-"}
    /\ MaxLength \in Nat /\ MaxDepartures \in Nat

VARIABLES
    dateFormat,     \* the preference
    locale,         \* the language
    draft,          \* customDateFormatDraft, empty while the dialog is closed: it is
                    \* seeded when it opens
    caret,          \* the selection of the input, empty
    editing,        \* showCustomDateFormatDialog
    menu,           \* the menu of languages is open
    listed,         \* suggestionsOpen
    active,         \* activeSuggestionIndex, from 1
    departures      \* budget used

formatVars == <<dateFormat, locale, draft, caret, editing, menu,
                listed, active, departures>>

Letters == {"Y", "J", "A"}
Characters == Letters \cup {"-"}

\* In the order of CUSTOM_DATE_FORMAT_TOKEN_DEFINITIONS.
Tokens == << <<"Y", "Y", "Y", "Y">>, <<"Y", "Y">>, <<"A">> >>

YearLetter(lang) == CASE lang = "de" -> "J" [] lang = "es" -> "A" [] OTHER -> "Y"

Alias(token, lang) ==
    [i \in 1..Len(token) |-> IF token[i] = "Y" THEN YearLetter(lang) ELSE token[i]]

\* What the token pattern of a language matches, longest first.
Variants(lang) ==
    SetToSortSeq(Range(Tokens) \cup {Alias(t, lang) : t \in Range(Tokens)},
                 LAMBDA s, t : Len(s) > Len(t))

-----------------------------------------------------------------------------
(* The conversions.                                                        *)

\* The parts a text is matched into, from the left, each the first variant
\* that fits; a letter that starts none is an empty part.
Parts(text, variants) ==
    LET fits(s, v) == IsPrefix(v, s)
        head(s) == IF s[1] \notin Letters THEN <<s[1]>>
                   ELSE IF \E v \in Range(variants) : fits(s, v)
                   THEN SelectSeq(variants, LAMBDA v : fits(s, v))[1]
                   ELSE <<>>
        split[s \in Seq(Characters)] ==
            IF s = <<>> THEN <<>>
            ELSE LET part == head(s)
                 IN  <<part>> \o split[SubSeq(s, IF part = <<>> THEN 2 ELSE Len(part) + 1,
                                                 Len(s))]
    IN  split[text]

Matched(parts) == \A i \in DOMAIN parts : parts[i] # <<>>

HasToken(parts, tokens) == \E i \in DOMAIN parts : parts[i] \in tokens

\* A canonical pattern: what validateCustomDateFormat accepts.
IsPattern(text) ==
    /\ text # <<>> /\ Len(text) <= MaxLength
    /\ LET parts == Parts(text, Tokens)
       IN  Matched(parts) /\ HasToken(parts, Range(Tokens))

\* The canonical token a part names, by its alias before its own name.
Canonical(part, lang) ==
    LET named == {t \in Range(Tokens) : Alias(t, lang) = part}
    IN  IF named # {} THEN CHOOSE t \in named : TRUE ELSE part

\* Fault: the parts are kept as they were typed.
AsTyped(text, lang) ==
    LET parts == Parts(text, Variants(lang))
    IN  IF Matched(parts) /\ HasToken(parts, Range(Variants(lang)))
        THEN FlattenSeq(parts) ELSE <<>>

\* The stored form of a pattern in a language, empty when it has none.
NormalizeLocalized(text, lang) ==
    LET parts == Parts(text, Variants(lang))
        rebuilt == FlattenSeq([i \in DOMAIN parts |-> Canonical(parts[i], lang)])
    IN  IF /\ text # <<>> /\ Matched(parts)
           /\ HasToken(parts, Range(Variants(lang)))
           /\ IsPattern(rebuilt)
        THEN rebuilt ELSE <<>>

\* A stored pattern in a language.
Localize(pattern, lang) ==
    LET parts == Parts(pattern, Tokens)
    IN  IF IsPattern(pattern)
        THEN FlattenSeq([i \in DOMAIN parts |->
                 IF parts[i] \in Range(Tokens) THEN Alias(parts[i], lang) ELSE parts[i]])
        ELSE <<>>

\* Preferences: automatic, a preset, or a pattern.
Automatic == [kind |-> "AUTO", pattern |-> <<>>]
Preset == [kind |-> "YMD_24", pattern |-> <<>>]
Custom(pattern) == [kind |-> "CUSTOM", pattern |-> pattern]

Normalized(pattern) == IF IsPattern(pattern) THEN Custom(pattern) ELSE Automatic

\* The pattern that stands for a preference; the automatic one of a language
\* puts the year first or last.
ToPattern(format, lang) ==
    CASE format.kind = "YMD_24" -> <<"Y", "Y", "Y", "Y">>
      [] format.kind = "AUTO"   -> IF lang = "en" THEN <<"Y", "Y", "-", "A">>
                                   ELSE <<"Y", "Y">>
      [] OTHER                  -> format.pattern

Seed(format, lang) == Localize(ToPattern(format, lang), lang)

DateFormatTypeOK ==
    /\ dateFormat.kind \in {"AUTO", "YMD_24", "CUSTOM"}
    /\ dateFormat.pattern \in Seq(Characters)
    /\ locale \in Locales
    /\ draft \in Seq(Characters) /\ caret \in 0..Len(draft)
    /\ {editing, menu, listed} \subseteq BOOLEAN
    /\ active \in 1..Len(Tokens)
    /\ departures \in 0..MaxDepartures

DateFormatInit ==
    /\ dateFormat = Automatic
    /\ locale \in Locales
    /\ draft = <<>> /\ caret = 0
    /\ editing = FALSE /\ menu = FALSE
    /\ listed = FALSE /\ active = 1
    /\ departures = 0

-----------------------------------------------------------------------------
(* The completion of tokens.                                               *)

\* The fragment of letters around the caret, as the positions next to it.
FragmentStart ==
    CHOOSE i \in 0..caret :
        /\ \A j \in i + 1..caret : draft[j] \in Letters
        /\ i = 0 \/ draft[i] \notin Letters

FragmentEnd ==
    CHOOSE i \in caret..Len(draft) :
        /\ \A j \in caret + 1..i : draft[j] \in Letters
        /\ i = Len(draft) \/ draft[i + 1] \notin Letters

\* The tokens whose name, in the language or as stored, starts like the
\* fragment.
Suggested(query, lang) ==
    SelectSeq(Tokens, LAMBDA t : \/ query = <<>>
                                 \/ IsPrefix(query, Alias(t, lang))
                                 \/ IsPrefix(query, t))

Suggestions == Suggested(SubSeq(draft, FragmentStart + 1, FragmentEnd), locale)

Clamp(i, list) == IF list = <<>> THEN 1 ELSE IF i > Len(list) THEN Len(list) ELSE i

ArrowDown ==
    /\ editing /\ listed /\ active < Len(Suggestions)
    /\ active' = active + 1
    /\ UNCHANGED <<dateFormat, locale, draft, caret, editing, menu, listed, departures>>

ArrowUp ==
    /\ editing /\ listed /\ active > 1 /\ Suggestions # <<>>
    /\ active' = active - 1
    /\ UNCHANGED <<dateFormat, locale, draft, caret, editing, menu, listed, departures>>

\* A click or the focus opens the list and tells where the caret is.
PlaceCaret(position) ==
    /\ editing /\ position # caret
    /\ caret' = position
    /\ listed' = (listed \/ Suggestions # <<>>)
    /\ UNCHANGED <<dateFormat, locale, draft, editing, menu, departures>>
    /\ active' = Clamp(active, Suggestions')

\* Escape, a click elsewhere, or the input scrolled out of sight.
CloseList ==
    /\ editing /\ listed
    /\ listed' = FALSE
    /\ UNCHANGED <<dateFormat, locale, draft, caret, editing, menu, active, departures>>

Redraft(text, position) ==
    /\ Len(text) <= MaxLength
    /\ draft' = text /\ caret' = position
    /\ UNCHANGED <<dateFormat, locale, editing, menu, departures>>
    /\ active' = Clamp(active, Suggestions')

\* A character typed or erased at the caret.
TypeCharacter(c) ==
    /\ editing
    /\ listed' = (Suggestions # <<>>)
    /\ Redraft(SubSeq(draft, 1, caret) \o <<c>> \o SubSeq(draft, caret + 1, Len(draft)),
               caret + 1)

EraseCharacter ==
    /\ editing /\ caret > 0
    /\ listed' = (Suggestions # <<>>)
    /\ Redraft(RemoveAt(draft, caret), caret - 1)

\* A suggestion, by Enter or Tab or by the mouse, takes the place of the
\* fragment around the caret.
ChooseSuggestion(i) ==
    /\ editing /\ listed /\ i \in DOMAIN Suggestions
    /\ LET token == Alias(Suggestions[i], locale)
       IN  Redraft(SubSeq(draft, 1, FragmentStart) \o token
                       \o SubSeq(draft, FragmentEnd + 1, Len(draft)),
                   FragmentStart + Len(token))
    /\ listed' = TRUE

-----------------------------------------------------------------------------
(* The dialog and the preference.                                          *)

Reseed(format, lang) ==
    /\ draft' = Seed(format, lang) /\ caret' = Len(draft')
    /\ active' = 1

OpenEditor ==
    /\ ~editing /\ ~menu
    /\ editing' = TRUE /\ listed' = FALSE
    /\ Reseed(dateFormat, locale)
    /\ UNCHANGED <<dateFormat, locale, menu, departures>>

CloseEditor ==
    /\ editing' = FALSE /\ listed' = FALSE
    /\ draft' = <<>> /\ caret' = 0 /\ active' = 1

CancelEditor ==
    /\ editing
    /\ CloseEditor
    /\ UNCHANGED <<dateFormat, locale, menu, departures>>

\* Save is disabled while the draft is not valid.
SaveCustomDateFormat ==
    LET pattern == NormalizeLocalized(draft, locale) IN
    /\ editing /\ pattern # <<>>
    /\ dateFormat' = Normalized(pattern)
    /\ CloseEditor
    /\ UNCHANGED <<locale, menu, departures>>

SelectDateFormat(format) ==
    /\ ~editing /\ ~menu /\ format # dateFormat
    /\ dateFormat' = format
    /\ UNCHANGED <<locale, draft, caret, editing, menu, listed, active, departures>>

\* A format saved by another page arrives with a load: an open editor starts
\* over from it.
FormatArrives(format) ==
    /\ departures < MaxDepartures /\ format # dateFormat
    /\ departures' = departures + 1
    /\ dateFormat' = format
    /\ IF editing THEN Reseed(format, locale)
       ELSE UNCHANGED <<draft, caret, active>>
    /\ UNCHANGED <<locale, editing, menu, listed>>

ToggleLanguageMenu ==
    /\ ~editing
    /\ menu' = ~menu
    /\ UNCHANGED <<dateFormat, locale, draft, caret, editing, listed, active, departures>>

ChooseLanguage(lang) ==
    /\ menu
    /\ locale' = lang /\ menu' = FALSE
    /\ UNCHANGED <<dateFormat, draft, caret, editing, listed, active, departures>>

DateFormatNext ==
    \/ ArrowDown \/ ArrowUp \/ CloseList
    \/ \E i \in 0..Len(draft) : PlaceCaret(i)
    \/ \E c \in Keys : TypeCharacter(c)
    \/ EraseCharacter
    \/ \E i \in 1..Len(Tokens) : ChooseSuggestion(i)
    \/ OpenEditor \/ CancelEditor \/ SaveCustomDateFormat
    \/ \E format \in {Automatic, Preset} : SelectDateFormat(format)
    \/ \E format \in {Automatic, Preset, Custom(<<"A", "Y", "Y">>)} : FormatArrives(format)
    \/ ToggleLanguageMenu
    \/ \E lang \in Locales : ChooseLanguage(lang)

DateFormatSpec == DateFormatInit /\ [][DateFormatNext]_formatVars

-----------------------------------------------------------------------------
(* Properties.                                                             *)

\* A text that names two patterns: where the years are spelled with the letter
\* of the meridiem, a meridiem runs into the year or the meridiem after it.
Ambiguous(pattern, lang) ==
    LET parts == Parts(pattern, Tokens) IN
    /\ YearLetter(lang) = "A"
    /\ \E i \in 1..Len(parts) - 1 : parts[i] = <<"A">> /\ parts[i + 1][1] \in Letters

\* A pattern that the user opens, does not change and saves is the pattern
\* that was stored, in every language, unless the text the user was shown names
\* another pattern as well (admin-ui/README.md on localized aliases).
UnchangedFormatsSurvive ==
    [][editing /\ ~editing' /\ draft = Seed(dateFormat, locale) =>
           \/ ToPattern(dateFormat', locale) = ToPattern(dateFormat, locale)
           \/ Ambiguous(ToPattern(dateFormat, locale), locale)]_formatVars
=============================================================================
