------------------------ MODULE ExtensionAuth_proofs ------------------------
(* Theorems about ExtensionAuth, for any number of asynchronous calls,       *)
(* sign-ins and refreshes; and about ExtensionLive, for any number of calls, *)
(* runs and checks.                                                          *)
EXTENDS ExtensionAuth, ExtensionLive, TLAPS

\* Where a call is with the server fits where it is in the extension, who asks
\* with a token has one, and who gives one up has seen it, or none, stored.
Shape(r) ==
    /\ r.pc = "refresh" <=> r.call \in {"sent", "locked", "rotated", "rejected"}
    /\ r.call = "authenticating" => r.pc = "use"
    /\ r.call \in {"pending", "approved"} => r.pc = "handoff"
    /\ r.pc \in {"refresh", "save", "use", "check", "drop"} => r.held \in Token
    /\ r.call = "rotated" => r.got \in Token
    /\ r.call = "authenticating" => r.seen = [state |-> "active", n |-> r.held.n]
    /\ r.pc = "use" /\ r.again => r.saw = r.held
    /\ r.pc = "drop" => r.saw \in {NoToken, r.held}
    /\ r.pc = "clear" /\ r.kind # "signOut" => r.base \in Token /\ r.saw \in {NoToken, r.base}

Shapes == \A f \in Flows : Shape(flow[f])

\* A lock is held by one refresh, for a token that is still the row's.
LockOK ==
    \A f \in Flows : flow[f].call = "locked" =>
        /\ Live(flow[f].held)
        /\ issued[flow[f].held.s] < MaxTokens
        /\ \A g \in Flows :
               (flow[g].call = "locked" /\ flow[g].held.s = flow[f].held.s) => g = f

BaseInv == TypeOK /\ Shapes /\ LockOK

\* A token that is around has been issued, and one that is dead stays so, but
\* for a rotation that is undone.
Known(t) == t \in Token => t.n <= issued[t.s]
Dead(t) == t \in Token /\ t.n <= issued[t.s] /\ (Live(t) => t \in crossed)

RecordKnown(r) == Known(r.held) /\ Known(r.got) /\ Known(r.base)

TokensKnown ==
    /\ Known(stored)
    /\ \A t \in stray : Known(t)
    /\ \A f \in Flows : RecordKnown(flow[f])

\* Who is refused, and what a careful call is about to give up.
GivesUpDead(r) ==
    /\ (r.call = "rejected" \/ r.pc \in {"check", "drop"}) => Dead(r.held)
    /\ (r.kind \in Careful /\ r.base # NoToken) => Dead(r.base)

DeadOK == \A f \in Flows : GivesUpDead(flow[f])

\* Nobody else has a token that is still on its way to the storage.
Fresh(f, t) ==
    /\ stored # t /\ t \notin stray
    /\ \A g \in Flows :
           /\ flow[g].held = t => g = f /\ flow[g].pc = "save"
           /\ flow[g].got = t => g = f /\ flow[g].call = "rotated"

FreshOK == \A f \in Flows, t \in Token : Undelivered(f, t) => Fresh(f, t)

\* A session without a row has been given no tokens.
RowsOK == \A s \in Sessions : row[s].state = "none" => issued[s] = 0

TokensOK ==
    /\ TokensKnown /\ DeadOK /\ FreshOK /\ RowsOK
    /\ AnswersAreCurrent

CurrentInv == BaseInv /\ TokensOK

-----------------------------------------------------------------------------
(* What a call becomes. *)

LEMMA TokenFacts ==
  /\ \A t \in Token : t.s \in Sessions /\ t.n \in 1 .. MaxTokens
  /\ \A t, u \in Token : t.s = u.s /\ t.n = u.n => t = u
  /\ NoToken \notin Token
  /\ Token \subseteq MaybeToken /\ NoToken \in MaybeToken
<1>1. 0 \notin Sessions
  BY BoundsAssumption DEF Sessions
<1> QED
  BY <1>1 DEF Token, NoToken, MaybeToken

\* A call that has just come to a step holds nothing.
LEMMA AtFacts ==
  ASSUME NEW k \in AllKinds, NEW step \in Steps
  PROVE  /\ At(k, step) \in Flow
         /\ At(k, step).pc = step /\ At(k, step).kind = k
         /\ At(k, step).held = NoToken /\ At(k, step).got = NoToken
         /\ At(k, step).base = NoToken /\ At(k, step).call = "none"
<1>1. 0 \in 0 .. MaxChecks /\ 0 \in 0 .. MaxTokens
  BY BoundsAssumption
<1>2. NoRow \in Row
  BY <1>1 DEF NoRow, Row
<1>3. NoToken \in MaybeToken /\ Unseen \in MaybeToken \cup {Unseen}
  BY TokenFacts
<1> QED
  BY <1>1, <1>2, <1>3 DEF At, Flow, Calls

\* A step without a token is one of these.
LEMMA AtShape ==
  ASSUME NEW k \in AllKinds,
         NEW step \in Steps \ {"refresh", "save", "use", "check", "drop"},
         step = "clear" => k = "signOut"
  PROVE  Shape(At(k, step))
BY AtFacts DEF Shape

LEMMA IdleFacts ==
  /\ Idle \in Flow /\ Shape(Idle) /\ Idle.pc = "idle" /\ Idle.call = "none"
  /\ Idle.held = NoToken /\ Idle.got = NoToken /\ Idle.base = NoToken /\ Idle.kind = "prefs"
BY AtFacts, AtShape DEF Idle, AllKinds, Steps

\* A call that gives a sign-in up remembers which, and what it saw.
LEMMA ClearsFacts ==
  ASSUME NEW me \in Flow, NEW t \in Token, NEW saw \in {NoToken, t}
  PROVE  LET r == Clears(me, t, saw)
         IN  /\ r \in Flow /\ Shape(r)
             /\ r.pc = "clear" /\ r.call = "none"
             /\ r.held = NoToken /\ r.got = NoToken
             /\ r.base = t /\ r.kind = me.kind
<1> DEFINE r == Clears(me, t, saw)
<1>1. me.kind \in AllKinds /\ "clear" \in Steps
  BY DEF Flow, Steps
<1>2. t \in MaybeToken /\ saw \in MaybeToken
  BY TokenFacts
<1>3. /\ At(me.kind, "clear") \in Flow
      /\ At(me.kind, "clear").pc = "clear" /\ At(me.kind, "clear").kind = me.kind
      /\ At(me.kind, "clear").held = NoToken /\ At(me.kind, "clear").got = NoToken
      /\ At(me.kind, "clear").call = "none"
  <2> HIDE DEF r
  <2> QED
    BY <1>1, AtFacts
<1>4. /\ r \in Flow /\ r.pc = "clear" /\ r.call = "none" /\ r.held = NoToken
      /\ r.got = NoToken /\ r.base = t /\ r.kind = me.kind /\ r.saw = saw
  BY <1>2, <1>3 DEF Clears, Flow
<1> HIDE DEF r
<1>5. Shape(r)
  BY <1>4 DEF Shape
<1> QED
  BY <1>4, <1>5 DEF r

\* A loaded sign-in is used, given up, loaded again, or left.
LEMMA LoadedFacts ==
  ASSUME NEW f \in Flows, flow[f] \in Flow, NEW t \in Token, NEW failed \in BOOLEAN
  PROVE  LET r == Loaded(f, t, failed)
         IN  /\ r \in Flow /\ Shape(r)
             /\ r.call = "none" /\ r.got = NoToken
             /\ r.pc \in {"use", "clear", "load", "idle"}
             /\ r.held \in {NoToken, t}
             /\ r.base \in {NoToken, flow[f].base}
             /\ r.base # NoToken => r.kind = flow[f].kind
<1> DEFINE me == flow[f]
           use == [At(me.kind, "use") EXCEPT !.held = t, !.failed = failed]
<1>0. me.kind \in AllKinds /\ {"use", "load"} \subseteq Steps /\ t \in MaybeToken
  BY TokenFacts DEF Flow, Steps
<1>1. /\ use \in Flow /\ use.pc = "use" /\ use.held = t /\ use.got = NoToken
      /\ use.base = NoToken /\ use.call = "none" /\ use.again = FALSE
  <2>1. 0 \in 0 .. MaxChecks /\ 0 \in 0 .. MaxTokens
    BY BoundsAssumption
  <2>2. NoRow \in Row
    BY <2>1 DEF NoRow, Row
  <2> QED
    BY <1>0, <2>1, <2>2, TokenFacts DEF At, Flow, Calls
<1>2. Shape(use)
  BY <1>1 DEF Shape
<1>3. CASE me.base = NoToken
  BY <1>1, <1>2, <1>3 DEF Loaded
<1>4. CASE me.base # NoToken /\ t = me.base
  <2>1. Loaded(f, t, failed) = Clears(me, t, t)
    BY <1>4 DEF Loaded
  <2> QED
    BY <1>0, <1>4, <2>1, ClearsFacts
<1>5. CASE me.base # NoToken /\ t # me.base /\ me.kind \in Restarting
  <2>1. Loaded(f, t, failed) = At(me.kind, "load")
    BY <1>5 DEF Loaded
  <2>2. "load" \in Steps \ {"refresh", "save", "use", "check", "drop"} /\ "load" # "clear"
    BY <1>0
  <2>3. Shape(At(me.kind, "load"))
    BY <1>0, <2>2, AtShape
  <2> QED
    BY <1>0, <2>1, <2>3, AtFacts
<1>6. CASE me.base # NoToken /\ t # me.base /\ me.kind \notin Restarting /\ me.kind = "popupPoll"
  <2>1. Loaded(f, t, failed) = Idle
    BY <1>6 DEF Loaded
  <2> QED
    BY <2>1, IdleFacts
<1>7. CASE me.base # NoToken /\ t # me.base /\ me.kind \notin Restarting /\ me.kind # "popupPoll"
  <2> DEFINE u == [use EXCEPT !.again = TRUE, !.saw = t]
  <2>1. /\ u \in Flow /\ u.pc = "use" /\ u.held = t /\ u.got = NoToken
        /\ u.base = NoToken /\ u.call = "none" /\ u.saw = t
    BY <1>0, <1>1 DEF Flow
  <2>2. Shape(u)
    BY <2>1 DEF Shape
  <2>3. Loaded(f, t, failed) = u
    BY <1>7 DEF Loaded
  <2> HIDE DEF u
  <2> QED
    BY <2>1, <2>2, <2>3
<1> QED
  BY <1>3, <1>4, <1>5, <1>6, <1>7

LEMMA SignedOutFacts ==
  ASSUME NEW f \in Flows, flow[f] \in Flow
  PROVE  LET r == SignedOut(f)
         IN  /\ r \in Flow /\ Shape(r)
             /\ r.call = "none" /\ r.got = NoToken /\ r.held = NoToken
             /\ r.pc \in {"clear", "idle"}
             /\ r.base \in {NoToken, flow[f].base}
             /\ r.base # NoToken => r.kind = flow[f].kind
<1>1. flow[f].base \in MaybeToken
  BY DEF Flow
<1>2. CASE flow[f].base = NoToken
  BY <1>2, IdleFacts DEF SignedOut
<1>3. CASE flow[f].base # NoToken
  <2>1. flow[f].base \in Token
    BY <1>1, <1>3 DEF MaybeToken
  <2>2. SignedOut(f) = Clears(flow[f], flow[f].base, NoToken)
    BY <1>3 DEF SignedOut
  <2> QED
    BY <2>1, <2>2, ClearsFacts
<1> QED
  BY <1>2, <1>3

-----------------------------------------------------------------------------
(* Types, shapes and locks, however requests overlap. *)

\* One call goes on and is not given a lock; no row changes.
LEMMA QuietBase ==
  ASSUME BaseInv, NEW f \in Flows, NEW r \in Flow, Shape(r), r.call # "locked",
         flow' = [flow EXCEPT ![f] = r], UNCHANGED <<row, issued>>,
         stored' \in MaybeToken, aged' \subseteq Token, stray' \subseteq Token,
         crossed' \subseteq [s : Sessions, n : 0 .. MaxTokens]
  PROVE  BaseInv'
<1>1. \A g \in Flows : flow'[g] = IF g = f THEN r ELSE flow[g]
  BY DEF BaseInv, TypeOK
<1>2. TypeOK'
  BY DEF BaseInv, TypeOK
<1>3. Shapes'
  BY <1>1 DEF BaseInv, Shapes
<1>4. LockOK'
  BY <1>1 DEF BaseInv, LockOK, Live
<1> QED
  BY <1>2, <1>3, <1>4 DEF BaseInv

\* The row of one session changes, and who goes on is the one that held its
\* lock, or nobody holds it.
LEMMA RowBase ==
  ASSUME BaseInv, NEW f \in Flows, NEW r \in Flow, Shape(r), r.call # "locked",
         flow' = [flow EXCEPT ![f] = r], NEW s \in Sessions,
         \A g \in Flows : flow[g].call = "locked" /\ flow[g].held.s = s => g = f,
         row' \in [Sessions -> Row], issued' \in [Sessions -> 0 .. MaxTokens],
         \A u \in Sessions \ {s} : row'[u] = row[u] /\ issued'[u] = issued[u],
         stored' \in MaybeToken, aged' \subseteq Token, stray' \subseteq Token,
         crossed' \subseteq [s : Sessions, n : 0 .. MaxTokens]
  PROVE  BaseInv'
<1>1. \A g \in Flows : flow'[g] = IF g = f THEN r ELSE flow[g]
  BY DEF BaseInv, TypeOK
<1>2. TypeOK'
  BY DEF BaseInv, TypeOK
<1>3. Shapes'
  BY <1>1 DEF BaseInv, Shapes
<1>4. ASSUME NEW g \in Flows, flow'[g].call = "locked"
      PROVE  /\ g # f /\ flow'[g] = flow[g] /\ flow[g].call = "locked"
             /\ flow[g].held \in Token /\ flow[g].held.s \in Sessions \ {s}
  BY <1>1, <1>4, TokenFacts DEF BaseInv, Shapes, Shape
<1>5. ASSUME NEW g \in Flows, flow'[g].call = "locked"
      PROVE  (Live(flow[g].held) /\ issued[flow[g].held.s] < MaxTokens)'
  <2>1. /\ flow'[g] = flow[g] /\ flow[g].call = "locked"
        /\ flow[g].held \in Token /\ flow[g].held.s \in Sessions \ {s}
    BY <1>4, <1>5
  <2>2. /\ row'[flow[g].held.s] = row[flow[g].held.s]
        /\ issued'[flow[g].held.s] = issued[flow[g].held.s]
    BY <2>1
  <2>3. Live(flow[g].held) /\ issued[flow[g].held.s] < MaxTokens
    BY <2>1 DEF BaseInv, LockOK
  <2> QED
    BY <2>1, <2>2, <2>3 DEF Live
<1>6. ASSUME NEW g \in Flows, NEW h \in Flows, flow'[g].call = "locked",
             flow'[h].call = "locked", flow'[h].held.s = flow'[g].held.s
      PROVE  h = g
  BY <1>4, <1>6 DEF BaseInv, LockOK
<1>7. LockOK'
  BY <1>5, <1>6 DEF LockOK
<1> QED
  BY <1>2, <1>3, <1>7 DEF BaseInv

\* The same when nobody goes on.
LEMMA RowOnlyBase ==
  ASSUME BaseInv, UNCHANGED flow, NEW s \in Sessions, ~Locked(s),
         row' \in [Sessions -> Row], issued' \in [Sessions -> 0 .. MaxTokens],
         \A u \in Sessions \ {s} : row'[u] = row[u] /\ issued'[u] = issued[u],
         stored' \in MaybeToken, aged' \subseteq Token, stray' \subseteq Token,
         crossed' \subseteq [s : Sessions, n : 0 .. MaxTokens]
  PROVE  BaseInv'
<1>1. TypeOK'
  BY DEF BaseInv, TypeOK
<1>2. Shapes'
  BY DEF BaseInv, Shapes
<1>3. ASSUME NEW g \in Flows, flow[g].call = "locked"
      PROVE  flow[g].held \in Token /\ flow[g].held.s \in Sessions \ {s}
  BY <1>3, TokenFacts DEF BaseInv, Shapes, Shape, Locked
<1>4. LockOK'
  BY <1>3 DEF BaseInv, LockOK, Live
<1> QED
  BY <1>1, <1>2, <1>4 DEF BaseInv

\* A rotation keeps the types.
LEMMA RotatesTypes ==
  ASSUME TypeOK, NEW s \in Sessions, issued[s] < MaxTokens, Rotates(s)
  PROVE  /\ row' \in [Sessions -> Row] /\ issued' \in [Sessions -> 0 .. MaxTokens]
         /\ \A u \in Sessions \ {s} : row'[u] = row[u] /\ issued'[u] = issued[u]
         /\ row'[s].state = row[s].state /\ row'[s].n = issued[s] + 1
         /\ issued'[s] = issued[s] + 1
         /\ NextToken(s) \in Token
<1>1. issued[s] \in 0 .. MaxTokens /\ issued[s] + 1 \in 0 .. MaxTokens
      /\ issued[s] + 1 \in 1 .. MaxTokens
  BY BoundsAssumption DEF TypeOK
<1>2. row[s] \in Row /\ [row[s] EXCEPT !.n = issued[s] + 1] \in Row
  BY <1>1 DEF TypeOK, Row
<1>3. row' = [row EXCEPT ![s] = [row[s] EXCEPT !.n = issued[s] + 1]]
  BY DEF Rotates, TypeOK
<1>4. issued' = [issued EXCEPT ![s] = issued[s] + 1]
  BY DEF Rotates, TypeOK
<1>5. row'[s] = [row[s] EXCEPT !.n = issued[s] + 1]
  BY <1>3 DEF TypeOK
<1>6. row'[s].state = row[s].state /\ row'[s].n = issued[s] + 1
  BY <1>2, <1>5 DEF Row
<1>7. NextToken(s) \in Token
  BY <1>1 DEF NextToken, Token
<1> QED
  BY <1>1, <1>2, <1>3, <1>4, <1>6, <1>7 DEF TypeOK

-----------------------------------------------------------------------------
(* Most steps only move tokens a call has, and end or fail what it asked for. *)

\* What a call becomes without being given a lock, an answer or a row.
Quiet(f, r) ==
    /\ r \in Flow /\ Shape(r)
    /\ r.call \notin {"locked", "rotated", "authenticating"} /\ r.pc # "save"
    /\ r.held \in {NoToken, stored, flow[f].held}
    /\ r.got \in {NoToken, stored, flow[f].got}
    /\ r.base \in {NoToken, flow[f].base, flow[f].held}
    /\ RecordKnown(flow[f]) /\ GivesUpDead(flow[f]) => GivesUpDead(r)

QuietStep(f) ==
    \E r \in Flow :
        /\ Quiet(f, r)
        /\ flow' = [flow EXCEPT ![f] = r]
        /\ UNCHANGED <<row, issued, aged, crossed>>
        /\ stored' \in {stored, NoToken, flow[f].held, flow[f].got}
        /\ stray' = stray \/ (flow[f].held \in Token /\ stray' = stray \cup {flow[f].held})

LEMMA FlowFacts ==
  ASSUME BaseInv, NEW f \in Flows
  PROVE  /\ flow[f] \in Flow /\ Shape(flow[f])
         /\ flow[f].held \in MaybeToken /\ flow[f].got \in MaybeToken
         /\ flow[f].base \in MaybeToken /\ flow[f].kind \in AllKinds
         /\ stored \in MaybeToken
BY DEF BaseInv, TypeOK, Shapes, Flow

\* Ending is quiet.
LEMMA IdleQuiet ==
  ASSUME NEW f \in Flows
  PROVE  Quiet(f, Idle)
BY IdleFacts DEF Quiet, GivesUpDead, Careful

\* So is going back with a sign-in, or without one.
LEMMA LoadedQuiet ==
  ASSUME BaseInv, NEW f \in Flows, NEW t \in Token, NEW failed \in BOOLEAN,
         t \in {stored, flow[f].held}
  PROVE  Quiet(f, Loaded(f, t, failed))
<1> DEFINE r == Loaded(f, t, failed)
<1>1. /\ r \in Flow /\ Shape(r)
      /\ r.call = "none" /\ r.got = NoToken
      /\ r.pc \in {"use", "clear", "load", "idle"}
      /\ r.held \in {NoToken, t}
      /\ r.base \in {NoToken, flow[f].base}
      /\ r.base # NoToken => r.kind = flow[f].kind
  BY FlowFacts, LoadedFacts
<1> HIDE DEF r
<1>2. GivesUpDead(flow[f]) => GivesUpDead(r)
  BY <1>1 DEF GivesUpDead
<1>3. Quiet(f, r)
  BY <1>1, <1>2 DEF Quiet
<1> QED
  BY <1>3 DEF r

LEMMA SignedOutQuiet ==
  ASSUME BaseInv, NEW f \in Flows
  PROVE  Quiet(f, SignedOut(f))
<1> DEFINE r == SignedOut(f)
<1>1. /\ r \in Flow /\ Shape(r)
      /\ r.call = "none" /\ r.got = NoToken /\ r.held = NoToken
      /\ r.pc \in {"clear", "idle"}
      /\ r.base \in {NoToken, flow[f].base}
      /\ r.base # NoToken => r.kind = flow[f].kind
  BY FlowFacts, SignedOutFacts
<1> HIDE DEF r
<1>2. GivesUpDead(flow[f]) => GivesUpDead(r)
  BY <1>1 DEF GivesUpDead
<1>3. Quiet(f, r)
  BY <1>1, <1>2 DEF Quiet
<1> QED
  BY <1>3 DEF r

\* A step that starts over with nothing in its hands.
LEMMA AtQuiet ==
  ASSUME NEW f \in Flows, NEW k \in AllKinds,
         NEW step \in Steps \ {"refresh", "save", "use", "check", "drop"},
         step = "clear" => k = "signOut"
  PROVE  Quiet(f, At(k, step))
BY AtFacts, AtShape DEF Quiet, GivesUpDead

LEMMA LoadIsQuiet ==
  ASSUME BaseInv, NEW f \in Flows, LoadConfig(f)
  PROVE  QuietStep(f)
<1>0. UNCHANGED <<stored, row, issued, aged, stray, crossed>>
  BY DEF LoadConfig
<1>1. CASE stored = NoToken /\ Become(f, SignedOut(f))
  BY <1>0, <1>1, SignedOutQuiet DEF Become, QuietStep, Quiet
<1>2. CASE stored # NoToken /\ Become(f, Loaded(f, stored, FALSE))
  <2>1. stored \in Token
    BY <1>2, FlowFacts DEF MaybeToken
  <2>2. Quiet(f, Loaded(f, stored, FALSE))
    BY <2>1, LoadedQuiet
  <2> QED
    BY <1>0, <1>2, <2>2 DEF Become, QuietStep, Quiet
<1>3. CASE stored \in aged /\ Become(f, [flow[f] EXCEPT !.pc = "refresh", !.held = stored,
                                                        !.call = "sent"])
  <2> DEFINE r == [flow[f] EXCEPT !.pc = "refresh", !.held = stored, !.call = "sent"]
  <2>1. stored \in Token
    BY <1>3 DEF BaseInv, TypeOK
  <2>2. /\ r \in Flow /\ r.pc = "refresh" /\ r.held = stored /\ r.call = "sent"
        /\ r.got = flow[f].got /\ r.base = flow[f].base /\ r.kind = flow[f].kind
    <3>1. flow[f] \in Flow /\ stored \in MaybeToken
      BY FlowFacts
    <3> QED
      BY <3>1 DEF Flow, Steps, Calls
  <2> HIDE DEF r
  <2>3. Shape(r) /\ (GivesUpDead(flow[f]) => GivesUpDead(r))
    BY <2>1, <2>2 DEF Shape, GivesUpDead
  <2>4. Quiet(f, r)
    BY <2>2, <2>3 DEF Quiet
  <2>5. flow' = [flow EXCEPT ![f] = r]
    BY <1>3 DEF Become, r
  <2> QED
    BY <1>0, <2>2, <2>4, <2>5 DEF QuietStep
<1> QED
  BY <1>1, <1>2, <1>3 DEF LoadConfig

\* The server finds no row for the token, so it is dead.
LEMMA RefusalIsQuiet ==
  ASSUME BaseInv, NEW f \in Flows, FindForUpdate(f), ~Live(flow[f].held)
  PROVE  QuietStep(f)
<1> DEFINE r == [flow[f] EXCEPT !.call = "rejected"]
<1>0. UNCHANGED <<stored, row, issued, aged, stray, crossed>> /\ flow' = [flow EXCEPT ![f] = r]
  BY DEF FindForUpdate, Become
<1>1. flow[f] \in Flow /\ Shape(flow[f]) /\ flow[f].call = "sent"
  BY FlowFacts DEF FindForUpdate
<1>2. /\ r \in Flow /\ r.pc = flow[f].pc /\ r.held = flow[f].held /\ r.call = "rejected"
      /\ r.got = flow[f].got /\ r.base = flow[f].base /\ r.kind = flow[f].kind
  BY <1>1 DEF Flow, Calls
<1>3. flow[f].pc = "refresh" /\ flow[f].held \in Token
  BY <1>1 DEF Shape
<1> HIDE DEF r
<1>4. Shape(r)
  BY <1>2, <1>3 DEF Shape
<1>5. RecordKnown(flow[f]) /\ GivesUpDead(flow[f]) => GivesUpDead(r)
  BY <1>2, <1>3 DEF GivesUpDead, RecordKnown, Known, Dead
<1>6. Quiet(f, r)
  BY <1>2, <1>3, <1>4, <1>5 DEF Quiet
<1> QED
  BY <1>0, <1>2, <1>6 DEF QuietStep

\* A refusal that is answered leaves a dead token to be checked and dropped.
LEMMA RejectionIsQuiet ==
  ASSUME BaseInv, NEW f \in Flows, RefreshAnswered(f), flow[f].call = "rejected"
  PROVE  QuietStep(f)
<1> DEFINE r == [flow[f] EXCEPT !.pc = "check", !.got = NoToken, !.call = "none"]
<1>1. flow[f] \in Flow /\ Shape(flow[f])
  BY FlowFacts
<1>0. UNCHANGED <<stored, row, issued, aged, stray, crossed>> /\ flow' = [flow EXCEPT ![f] = r]
  BY <1>1 DEF RefreshAnswered, Become, Flow
<1>2. /\ r \in Flow /\ r.pc = "check" /\ r.held = flow[f].held /\ r.call = "none"
      /\ r.got = NoToken /\ r.base = flow[f].base /\ r.kind = flow[f].kind
  BY <1>1, TokenFacts DEF Flow, Calls, Steps
<1>3. flow[f].pc = "refresh" /\ flow[f].held \in Token
  BY <1>1 DEF Shape
<1> HIDE DEF r
<1>4. Shape(r)
  BY <1>2, <1>3 DEF Shape
<1>5. GivesUpDead(flow[f]) => GivesUpDead(r)
  BY <1>2 DEF GivesUpDead
<1>6. Quiet(f, r)
  BY <1>2, <1>3, <1>4, <1>5 DEF Quiet
<1> QED
  BY <1>0, <1>2, <1>6 DEF QuietStep

\* What a refresh brought is stored; without an answer the old sign-in is used.
LEMMA RefreshIsQuiet ==
  ASSUME BaseInv, NEW f \in Flows, SaveRotated(f) \/ RefreshUnanswered(f)
  PROVE  QuietStep(f)
<1>1. flow[f].held \in Token
  BY FlowFacts DEF SaveRotated, RefreshUnanswered, Shape
<1>2. CASE SaveRotated(f)
  <2>1. Quiet(f, Loaded(f, flow[f].held, FALSE))
    BY <1>1, LoadedQuiet
  <2> QED
    BY <1>2, <2>1 DEF SaveRotated, Become, QuietStep, Quiet
<1>3. CASE RefreshUnanswered(f)
  <2>1. Quiet(f, Loaded(f, flow[f].held, TRUE))
    BY <1>1, LoadedQuiet
  <2> QED
    BY <1>1, <1>3, <2>1 DEF RefreshUnanswered, Become, QuietStep, Quiet
<1> QED
  BY <1>2, <1>3

\* A rejected refresh looks for a newer sign-in, and drops the old one.
LEMMA WaitIsQuiet ==
  ASSUME BaseInv, NEW f \in Flows, WaitForRotated(f) \/ DropConfig(f)
  PROVE  QuietStep(f)
<1>1. flow[f] \in Flow /\ Shape(flow[f])
  BY FlowFacts
<1>2. CASE WaitForRotated(f) /\ stored \notin {NoToken, flow[f].held}
  <2>1. stored \in Token
    BY <1>2, FlowFacts DEF MaybeToken
  <2>2. Quiet(f, Loaded(f, stored, FALSE))
    BY <2>1, LoadedQuiet
  <2> QED
    BY <1>2, <2>2 DEF WaitForRotated, Become, QuietStep, Quiet
<1>3. CASE WaitForRotated(f) /\ stored \in {NoToken, flow[f].held} /\ ChecksLeft(f)
  <2> DEFINE r == [flow[f] EXCEPT !.tries = flow[f].tries + 1, !.saw = stored]
  <2>1. flow[f].pc = "check" /\ flow[f].tries < MaxChecks
    BY <1>3 DEF WaitForRotated, ChecksLeft
  <2>2. flow[f].tries + 1 \in 0 .. MaxChecks
    BY <1>1, <2>1, BoundsAssumption DEF Flow
  <2>3. /\ r \in Flow /\ r.pc = flow[f].pc /\ r.held = flow[f].held /\ r.call = flow[f].call
        /\ r.got = flow[f].got /\ r.base = flow[f].base /\ r.kind = flow[f].kind
    BY <1>1, <2>2, FlowFacts DEF Flow
  <2>4. flow' = [flow EXCEPT ![f] = r] /\ UNCHANGED <<stored, row, issued, aged, stray, crossed>>
    BY <1>1, <1>3 DEF WaitForRotated, Become, Checked, Flow
  <2> HIDE DEF r
  <2>5. Quiet(f, r)
    BY <1>1, <2>1, <2>3 DEF Quiet, Shape, GivesUpDead
  <2> QED
    BY <2>3, <2>4, <2>5 DEF QuietStep
<1>4. CASE WaitForRotated(f) /\ stored \in {NoToken, flow[f].held} /\ ~ChecksLeft(f)
  <2> DEFINE r == [flow[f] EXCEPT !.pc = "drop", !.tries = 0, !.saw = stored]
  <2>1. flow[f].pc = "check" /\ 0 \in 0 .. MaxChecks
    BY <1>4, BoundsAssumption DEF WaitForRotated
  <2>3. /\ r \in Flow /\ r.pc = "drop" /\ r.held = flow[f].held /\ r.call = flow[f].call
        /\ r.got = flow[f].got /\ r.base = flow[f].base /\ r.kind = flow[f].kind
        /\ r.saw = stored
    BY <1>1, <2>1, FlowFacts DEF Flow, Steps
  <2>4. flow' = [flow EXCEPT ![f] = r] /\ UNCHANGED <<stored, row, issued, aged, stray, crossed>>
    BY <1>4 DEF WaitForRotated, Become
  <2> HIDE DEF r
  <2>5. Quiet(f, r)
    BY <1>1, <1>4, <2>1, <2>3 DEF Quiet, Shape, GivesUpDead
  <2> QED
    BY <2>3, <2>4, <2>5 DEF QuietStep
<1>5. CASE DropConfig(f)
  BY <1>5, SignedOutQuiet DEF DropConfig, Become, QuietStep, Quiet
<1> QED
  BY <1>2, <1>3, <1>4, <1>5 DEF WaitForRotated

\* A rejected request starts over, and is given up the second time.  A careful
\* call whose refresh has not failed was refused for a dead token.
LEMMA RequestIsQuiet ==
  ASSUME BaseInv, NEW f \in Flows, RequestRejected(f) \/ RequestFails(f)
  PROVE  QuietStep(f)
<1>1. flow[f] \in Flow /\ Shape(flow[f]) /\ flow[f].kind \in AllKinds
  BY FlowFacts
<1>2. CASE RequestFails(f)
  BY <1>2, IdleQuiet DEF RequestFails, Ends, Become, QuietStep, Quiet
<1>3. CASE RequestRejected(f)
  <2> DEFINE me == flow[f]
  <2>1. me.pc = "use" /\ me.held \in Token /\ me.held \in MaybeToken
    BY <1>1, <1>3, TokenFacts DEF RequestRejected, Shape
  <2>2. me.failed \/ ~Live(me.held)
    BY <1>3 DEF RequestRejected
  <2>3. CASE me.failed /\ me.kind \in Careful
    BY <1>3, <2>3, IdleQuiet DEF RequestRejected, Rejection, Become, QuietStep, Quiet
  <2>4. CASE ~(me.failed /\ me.kind \in Careful)
    <3>1. me.kind \in Careful /\ RecordKnown(me) => Dead(me.held)
      BY <2>1, <2>2, <2>4 DEF Dead, RecordKnown, Known
    <3>2. CASE me.again
      <4> DEFINE r == Clears(me, me.held, me.saw)
      <4>0. me.saw = me.held
        BY <1>1, <2>1, <3>2 DEF Shape
      <4>1. /\ r \in Flow /\ Shape(r) /\ r.pc = "clear" /\ r.call = "none"
            /\ r.held = NoToken /\ r.got = NoToken /\ r.base = me.held /\ r.kind = me.kind
        BY <1>1, <2>1, <4>0, ClearsFacts
      <4>2. flow' = [flow EXCEPT ![f] = r] /\ UNCHANGED <<stored, row, issued, aged, stray, crossed>>
        BY <1>3, <2>4, <3>2 DEF RequestRejected, Rejection, Become
      <4> HIDE DEF r
      <4>3. Quiet(f, r)
        BY <3>1, <4>1 DEF Quiet, GivesUpDead
      <4> QED
        BY <4>1, <4>2, <4>3 DEF QuietStep
    <3>3. CASE ~me.again
      <4> DEFINE r == [At(me.kind, "load") EXCEPT !.base = me.held]
      <4>1. /\ r \in Flow /\ r.pc = "load" /\ r.call = "none"
            /\ r.held = NoToken /\ r.got = NoToken /\ r.base = me.held /\ r.kind = me.kind
        <5>1. At(me.kind, "load") \in Flow
          BY <1>1, AtFacts DEF Steps
        <5>2. r \in Flow /\ r.base = me.held
          BY <2>1, <5>1 DEF Flow
        <5> QED
          BY <5>2 DEF At
      <4>2. flow' = [flow EXCEPT ![f] = r] /\ UNCHANGED <<stored, row, issued, aged, stray, crossed>>
        BY <1>3, <2>4, <3>3 DEF RequestRejected, Rejection, Become
      <4> HIDE DEF r
      <4>3. Shape(r)
        BY <4>1 DEF Shape
      <4>4. Quiet(f, r)
        BY <3>1, <4>1, <4>3 DEF Quiet, GivesUpDead
      <4> QED
        BY <4>1, <4>2, <4>4 DEF QuietStep
    <3> QED
      BY <3>2, <3>3
  <2> QED
    BY <2>3, <2>4
<1> QED
  BY <1>2, <1>3

\* Preferences, saves and sign-outs write what the call has, or nothing.
LEMMA RecordIsQuiet ==
  ASSUME BaseInv, NEW f \in Flows,
         ReadRecord(f) \/ WriteRecord(f) \/ SaveConfig(f) \/ ClearConfig(f)
  PROVE  QuietStep(f)
<1>1. flow[f] \in Flow /\ Shape(flow[f]) /\ stored \in MaybeToken
  BY FlowFacts
<1>2. CASE SaveConfig(f) \/ ClearConfig(f)
  BY <1>2, IdleQuiet DEF SaveConfig, ClearConfig, Ends, Become, QuietStep, Quiet
<1>3. CASE WriteRecord(f) /\ Ends(f)
  BY <1>3, IdleQuiet DEF WriteRecord, Ends, Become, QuietStep, Quiet
<1>4. CASE WriteRecord(f) /\ Become(f, [flow[f] EXCEPT !.pc = "saveHeld"])
  <2> DEFINE r == [flow[f] EXCEPT !.pc = "saveHeld"]
  <2>1. flow[f].pc = "prefsSet"
    BY <1>4 DEF WriteRecord
  <2>2. /\ r \in Flow /\ r.pc = "saveHeld" /\ r.held = flow[f].held /\ r.call = flow[f].call
        /\ r.got = flow[f].got /\ r.base = flow[f].base /\ r.kind = flow[f].kind
    BY <1>1 DEF Flow, Steps
  <2>3. /\ flow' = [flow EXCEPT ![f] = r] /\ UNCHANGED <<row, issued, aged, stray, crossed>>
        /\ stored' = flow[f].got
    BY <1>4 DEF WriteRecord, Become
  <2> HIDE DEF r
  <2>4. Quiet(f, r)
    BY <1>1, <2>1, <2>2 DEF Quiet, Shape, GivesUpDead
  <2> QED
    BY <2>2, <2>3, <2>4 DEF QuietStep
<1>5. CASE ReadRecord(f)
  <2> DEFINE r == [flow[f] EXCEPT !.pc = "prefsSet", !.got = stored]
  <2>1. flow[f].pc = "prefsGet"
    BY <1>5 DEF ReadRecord
  <2>2. /\ r \in Flow /\ r.pc = "prefsSet" /\ r.held = flow[f].held /\ r.call = flow[f].call
        /\ r.got = stored /\ r.base = flow[f].base /\ r.kind = flow[f].kind
    BY <1>1 DEF Flow, Steps
  <2>3. flow' = [flow EXCEPT ![f] = r] /\ UNCHANGED <<stored, row, issued, aged, stray, crossed>>
    BY <1>5 DEF ReadRecord, Become
  <2> HIDE DEF r
  <2>4. Quiet(f, r)
    BY <1>1, <2>1, <2>2 DEF Quiet, Shape, GivesUpDead
  <2> QED
    BY <2>2, <2>3, <2>4 DEF QuietStep
<1> QED
  BY <1>2, <1>3, <1>4, <1>5 DEF WriteRecord

\* Until the server answers, a sign-in asks and waits.
LEMMA HandoffIsQuiet ==
  ASSUME BaseInv, NEW f \in Flows,
         \/ LoginExtension(f) /\ UNCHANGED <<stored, row, issued, aged, stray, crossed>>
         \/ CompleteHandoff(f) \/ HandoffFails(f)
  PROVE  QuietStep(f) \/ (LoginExtension(f) /\ \E s \in Sessions : SignedIn(f, s))
<1>1. flow[f] \in Flow /\ Shape(flow[f])
  BY FlowFacts
<1>2. CASE HandoffFails(f)
  BY <1>2, IdleQuiet DEF HandoffFails, Ends, Become, QuietStep, Quiet
<1>3. CASE CompleteHandoff(f)
  <2> DEFINE r == [flow[f] EXCEPT !.call = "approved"]
  <2>1. flow[f].call = "pending" /\ flow[f].pc = "handoff"
    BY <1>1, <1>3 DEF CompleteHandoff, Shape
  <2>2. /\ r \in Flow /\ r.pc = flow[f].pc /\ r.held = flow[f].held /\ r.call = "approved"
        /\ r.got = flow[f].got /\ r.base = flow[f].base /\ r.kind = flow[f].kind
    BY <1>1 DEF Flow, Calls
  <2>3. flow' = [flow EXCEPT ![f] = r] /\ UNCHANGED <<stored, row, issued, aged, stray, crossed>>
    BY <1>3 DEF CompleteHandoff, Become
  <2> HIDE DEF r
  <2>4. Quiet(f, r)
    BY <1>1, <2>1, <2>2 DEF Quiet, Shape, GivesUpDead
  <2> QED
    BY <2>2, <2>3, <2>4 DEF QuietStep
<1>4. CASE LoginExtension(f) /\ Ends(f) /\ UNCHANGED <<stored, row, issued, aged, stray, crossed>>
  BY <1>4, IdleQuiet DEF Ends, Become, QuietStep, Quiet
<1>5. CASE /\ LoginExtension(f)
           /\ Become(f, [flow[f] EXCEPT !.pc = "handoff", !.call = "pending"])
           /\ UNCHANGED <<stored, row, issued, aged, stray, crossed>>
  <2> DEFINE r == [flow[f] EXCEPT !.pc = "handoff", !.call = "pending"]
  <2>1. flow[f].pc = "login"
    BY <1>5 DEF LoginExtension
  <2>2. /\ r \in Flow /\ r.pc = "handoff" /\ r.held = flow[f].held /\ r.call = "pending"
        /\ r.got = flow[f].got /\ r.base = flow[f].base /\ r.kind = flow[f].kind
    BY <1>1 DEF Flow, Calls, Steps
  <2>3. flow' = [flow EXCEPT ![f] = r]
    BY <1>5 DEF Become
  <2> HIDE DEF r
  <2>4. Quiet(f, r)
    BY <1>1, <2>1, <2>2 DEF Quiet, Shape, GivesUpDead
  <2> QED
    BY <1>5, <2>2, <2>3, <2>4 DEF QuietStep
<1> QED
  BY <1>2, <1>3, <1>4, <1>5 DEF LoginExtension

LEMMA BeginIsQuiet ==
  ASSUME BaseInv, NEW f \in Flows, NEW k \in Kinds, Begin(f, k)
  PROVE  QuietStep(f)
<1>1. k \in AllKinds
  BY KindsAssumption
<1>2. /\ FirstStep(k) \in {"login", "clear", "prefsGet", "load"}
      /\ FirstStep(k) = "clear" => k = "signOut"
  BY DEF FirstStep
<1>3. Quiet(f, At(k, FirstStep(k)))
  BY <1>1, <1>2, AtQuiet DEF Steps
<1> QED
  BY <1>3 DEF Begin, Become, QuietStep, Quiet

-----------------------------------------------------------------------------
(* The other steps: locks, answers, rows and new sessions. *)

\* A refresh is given the lock of a row that matches its token.
LockGiven(f, r) ==
    /\ r \in Flow /\ Shape(r) /\ r.call = "locked" /\ r.pc = "refresh"
    /\ r.held = flow[f].held /\ r.got = flow[f].got
    /\ r.base = flow[f].base /\ r.kind = flow[f].kind
    /\ flow' = [flow EXCEPT ![f] = r]
    /\ Live(r.held) /\ ~Locked(r.held.s) /\ issued[r.held.s] < MaxTokens
    /\ UNCHANGED <<stored, row, issued, aged, stray, crossed>>

LEMMA LockGivenFacts ==
  ASSUME BaseInv, NEW f \in Flows, FindForUpdate(f), Live(flow[f].held)
  PROVE  \E r \in Flow : LockGiven(f, r)
<1> DEFINE r == [flow[f] EXCEPT !.call = "locked"]
<1>1. flow[f] \in Flow /\ Shape(flow[f]) /\ flow[f].call = "sent"
  BY FlowFacts DEF FindForUpdate
<1>2. flow[f].pc = "refresh" /\ flow[f].held \in Token
  BY <1>1 DEF Shape
<1>3. /\ r \in Flow /\ r.pc = flow[f].pc /\ r.held = flow[f].held /\ r.call = "locked"
      /\ r.got = flow[f].got /\ r.base = flow[f].base /\ r.kind = flow[f].kind
  BY <1>1 DEF Flow, Calls
<1>4. /\ flow' = [flow EXCEPT ![f] = r] /\ UNCHANGED <<stored, row, issued, aged, stray, crossed>>
      /\ ~Locked(flow[f].held.s) /\ issued[flow[f].held.s] < MaxTokens
  BY DEF FindForUpdate, Become
<1> HIDE DEF r
<1>5. Shape(r)
  BY <1>2, <1>3 DEF Shape
<1> QED
  BY <1>2, <1>3, <1>4, <1>5 DEF LockGiven

\* The commit of a refresh rotates the row under its lock.
Rotated(f, r, s) ==
    /\ r \in Flow /\ Shape(r) /\ r.call = "rotated" /\ r.pc = "refresh"
    /\ r.held = flow[f].held /\ r.got = NextToken(s)
    /\ r.base = flow[f].base /\ r.kind = flow[f].kind
    /\ flow[f].call = "locked" /\ s = flow[f].held.s /\ flow[f].held \in Token
    /\ flow' = [flow EXCEPT ![f] = r]
    /\ Rotates(s) /\ issued[s] < MaxTokens
    /\ UNCHANGED <<stored, aged, stray, crossed>>

LEMMA RotatedFacts ==
  ASSUME BaseInv, NEW f \in Flows, RotateSessionTokens(f)
  PROVE  \E r \in Flow, s \in Sessions : Rotated(f, r, s)
<1> DEFINE s == flow[f].held.s
           r == [flow[f] EXCEPT !.call = "rotated", !.got = NextToken(s)]
<1>1. flow[f] \in Flow /\ Shape(flow[f]) /\ flow[f].call = "locked"
  BY FlowFacts DEF RotateSessionTokens
<1>2. flow[f].pc = "refresh" /\ flow[f].held \in Token
  BY <1>1 DEF Shape
<1>3. s \in Sessions /\ issued[s] < MaxTokens
  BY <1>1, <1>2, TokenFacts DEF BaseInv, LockOK
<1>4. Rotates(s) /\ flow' = [flow EXCEPT ![f] = r] /\ UNCHANGED <<stored, aged, stray, crossed>>
  BY DEF RotateSessionTokens, Become
<1>5. NextToken(s) \in Token /\ NextToken(s) \in MaybeToken
  BY <1>3, <1>4, RotatesTypes, TokenFacts DEF BaseInv
<1>6. /\ r \in Flow /\ r.pc = flow[f].pc /\ r.held = flow[f].held /\ r.call = "rotated"
      /\ r.got = NextToken(s) /\ r.base = flow[f].base /\ r.kind = flow[f].kind
  BY <1>1, <1>5 DEF Flow, Calls
<1> HIDE DEF r
<1>7. Shape(r)
  BY <1>2, <1>5, <1>6 DEF Shape
<1> QED
  BY <1>1, <1>2, <1>3, <1>4, <1>6, <1>7 DEF Rotated

\* The answer brings the new tokens.
Delivered(f, r) ==
    /\ r \in Flow /\ Shape(r) /\ r.call = "none" /\ r.pc = "save"
    /\ r.held = flow[f].got /\ r.got = NoToken
    /\ r.base = flow[f].base /\ r.kind = flow[f].kind
    /\ flow[f].call = "rotated" /\ flow[f].got \in Token
    /\ flow' = [flow EXCEPT ![f] = r]
    /\ UNCHANGED <<stored, row, issued, aged, stray, crossed>>

LEMMA DeliveredFacts ==
  ASSUME BaseInv, NEW f \in Flows, RefreshAnswered(f), flow[f].call = "rotated"
  PROVE  \E r \in Flow : Delivered(f, r)
<1> DEFINE r == [flow[f] EXCEPT !.pc = "save", !.held = flow[f].got, !.got = NoToken,
                                !.call = "none"]
<1>1. flow[f] \in Flow /\ Shape(flow[f])
  BY FlowFacts
<1>2. flow[f].got \in Token /\ flow[f].got \in MaybeToken /\ NoToken \in MaybeToken
  BY <1>1, TokenFacts DEF Shape
<1>3. /\ r \in Flow /\ r.pc = "save" /\ r.held = flow[f].got /\ r.call = "none"
      /\ r.got = NoToken /\ r.base = flow[f].base /\ r.kind = flow[f].kind
  BY <1>1, <1>2 DEF Flow, Calls, Steps
<1>4. flow' = [flow EXCEPT ![f] = r] /\ UNCHANGED <<stored, row, issued, aged, stray, crossed>>
  BY DEF RefreshAnswered, Become
<1> HIDE DEF r
<1>5. Shape(r)
  BY <1>2, <1>3 DEF Shape
<1> QED
  BY <1>2, <1>3, <1>4, <1>5 DEF Delivered

\* authenticate reads a row ...
Authenticates(f, r) ==
    /\ r \in Flow /\ Shape(r) /\ r.call = "authenticating" /\ r.pc = "use"
    /\ r.held = flow[f].held /\ r.got = flow[f].got
    /\ r.base = flow[f].base /\ r.kind = flow[f].kind
    /\ r.seen = row[r.held.s]
    /\ Live(r.held)
    /\ flow' = [flow EXCEPT ![f] = r]
    /\ UNCHANGED <<stored, row, issued, aged, stray, crossed>>

LEMMA AuthenticatesFacts ==
  ASSUME BaseInv, NEW f \in Flows, AuthenticateRead(f)
  PROVE  \E r \in Flow : Authenticates(f, r)
<1> DEFINE r == [flow[f] EXCEPT !.call = "authenticating", !.seen = row[flow[f].held.s]]
<1>1. flow[f] \in Flow /\ Shape(flow[f]) /\ flow[f].pc = "use"
  BY FlowFacts DEF AuthenticateRead
<1>2. flow[f].held \in Token /\ row[flow[f].held.s] \in Row
  BY <1>1, TokenFacts DEF Shape, BaseInv, TypeOK
<1>3. /\ r \in Flow /\ r.pc = flow[f].pc /\ r.held = flow[f].held /\ r.call = "authenticating"
      /\ r.got = flow[f].got /\ r.base = flow[f].base /\ r.kind = flow[f].kind
      /\ r.seen = row[flow[f].held.s] /\ r.again = flow[f].again /\ r.saw = flow[f].saw
  BY <1>1, <1>2 DEF Flow, Calls
<1>4. /\ flow' = [flow EXCEPT ![f] = r] /\ UNCHANGED <<stored, row, issued, aged, stray, crossed>>
      /\ Live(flow[f].held)
  BY DEF AuthenticateRead, Become
<1> HIDE DEF r
<1>5. Shape(r)
  BY <1>1, <1>2, <1>3, <1>4 DEF Shape, Live
<1> QED
  BY <1>1, <1>3, <1>4, <1>5 DEF Authenticates

\* ... and writes it back as it was read.
WritesRow(f, r, s) ==
    /\ Quiet(f, r)
    /\ flow[f].call = "authenticating" /\ s = flow[f].held.s /\ flow[f].held \in Token
    /\ ~Locked(s)
    /\ row' = [row EXCEPT ![s] = flow[f].seen] /\ flow[f].seen \in Row
    /\ flow[f].seen = [state |-> "active", n |-> flow[f].held.n]
    /\ crossed' = IF flow[f].seen = row[s] THEN crossed
                  ELSE crossed \cup {[s |-> s, n |-> flow[f].seen.n],
                                     [s |-> s, n |-> row[s].n]}
    /\ flow' = [flow EXCEPT ![f] = r]
    /\ UNCHANGED <<stored, issued, aged, stray>>

LEMMA WritesRowFacts ==
  ASSUME BaseInv, NEW f \in Flows, AuthenticateCommit(f)
  PROVE  \E r \in Flow, s \in Sessions : WritesRow(f, r, s)
<1> DEFINE s == flow[f].held.s
           kept == [At("identity", "prefsGet") EXCEPT !.held = flow[f].held]
<1>1. flow[f] \in Flow /\ Shape(flow[f]) /\ flow[f].call = "authenticating"
  BY FlowFacts DEF AuthenticateCommit
<1>2. /\ flow[f].held \in Token /\ s \in Sessions /\ flow[f].seen \in Row
      /\ flow[f].held \in MaybeToken
      /\ flow[f].seen = [state |-> "active", n |-> flow[f].held.n]
  BY <1>1, TokenFacts DEF Shape, Flow
<1>3. /\ row' = [row EXCEPT ![s] = flow[f].seen] /\ ~Locked(s)
      /\ UNCHANGED <<stored, issued, aged, stray>>
      /\ crossed' = IF flow[f].seen = row[s] THEN crossed
                    ELSE crossed \cup {[s |-> s, n |-> flow[f].seen.n],
                                       [s |-> s, n |-> row[s].n]}
  BY DEF AuthenticateCommit
<1>4. Quiet(f, kept)
  <2>1. /\ At("identity", "prefsGet") \in Flow
        /\ At("identity", "prefsGet").base = NoToken
    BY AtFacts DEF AllKinds, Steps
  <2>2. kept \in Flow /\ kept.held = flow[f].held
    BY <1>2, <2>1 DEF Flow
  <2>3. /\ kept.pc = "prefsGet" /\ kept.call = "none" /\ kept.got = NoToken
        /\ kept.base = NoToken
    BY DEF At
  <2> HIDE DEF kept
  <2> QED
    BY <2>2, <2>3 DEF Quiet, Shape, GivesUpDead
<1>5. Quiet(f, At("prefs", "prefsGet"))
  BY AtQuiet DEF AllKinds, Steps
<1> HIDE DEF kept
<1>6. \E r \in {Idle, kept, At("prefs", "prefsGet")} : flow' = [flow EXCEPT ![f] = r]
  BY DEF AuthenticateCommit, Become, kept
<1> QED
  BY <1>1, <1>2, <1>3, <1>4, <1>5, <1>6, IdleQuiet DEF WritesRow, Quiet

\* A session signs in, and its first tokens are on the way.
Starts(f, r, s) ==
    /\ r \in Flow /\ Shape(r) /\ r.call = "none" /\ r.pc = "saveHeld"
    /\ r.held = [s |-> s, n |-> 1] /\ r.got = flow[f].got
    /\ r.base = flow[f].base /\ r.kind = flow[f].kind
    /\ flow[f].call \in {"none", "approved"} /\ flow[f].pc \in {"login", "handoff"}
    /\ NewSession(s)
    /\ flow' = [flow EXCEPT ![f] = r]
    /\ UNCHANGED <<stored, aged, stray, crossed>>

LEMMA StartsFacts ==
  ASSUME BaseInv, NEW f \in Flows, NEW s \in Sessions, SignedIn(f, s),
         flow[f].pc = "login" \/ flow[f].call = "approved"
  PROVE  \E r \in Flow : Starts(f, r, s)
<1> DEFINE r == [flow[f] EXCEPT !.pc = "saveHeld", !.call = "none",
                                !.held = [s |-> s, n |-> 1]]
<1>1. flow[f] \in Flow /\ Shape(flow[f])
  BY FlowFacts
<1>2. /\ flow[f].call \in {"none", "approved"} /\ flow[f].pc \in {"login", "handoff"}
  BY <1>1 DEF Shape, Flow, Calls
<1>3. [s |-> s, n |-> 1] \in MaybeToken
  BY BoundsAssumption DEF MaybeToken, Token
<1>4. /\ r \in Flow /\ r.pc = "saveHeld" /\ r.held = [s |-> s, n |-> 1] /\ r.call = "none"
      /\ r.got = flow[f].got /\ r.base = flow[f].base /\ r.kind = flow[f].kind
  BY <1>1, <1>3 DEF Flow, Calls, Steps
<1>5. NewSession(s) /\ flow' = [flow EXCEPT ![f] = r] /\ UNCHANGED <<stored, aged, stray, crossed>>
  BY DEF SignedIn, Become
<1> HIDE DEF r
<1>6. Shape(r)
  BY <1>4 DEF Shape
<1> QED
  BY <1>2, <1>4, <1>5, <1>6 DEF Starts

\* Every step is one of these.
LEMMA StepFacts ==
  ASSUME BaseInv, Next
  PROVE  \/ \E f \in Flows :
              \/ QuietStep(f)
              \/ \E r \in Flow : LockGiven(f, r) \/ Delivered(f, r) \/ Authenticates(f, r)
              \/ \E r \in Flow, s \in Sessions :
                     Rotated(f, r, s) \/ WritesRow(f, r, s) \/ Starts(f, r, s)
         \/ \E t \in Token : TokenAges(t) \/ RefreshStray(t)
         \/ \E s \in Sessions : SessionEnds(s)
<1>1. CASE \E f \in Flows : FlowStep(f) \/ CompleteHandoff(f)
  <2> PICK f \in Flows : FlowStep(f) \/ CompleteHandoff(f)
    BY <1>1
  <2>1. CASE LoadConfig(f)
    BY <2>1, LoadIsQuiet
  <2>2. CASE FindForUpdate(f)
    BY <2>2, LockGivenFacts, RefusalIsQuiet
  <2>3. CASE RotateSessionTokens(f)
    BY <2>3, RotatedFacts
  <2>4. CASE RefreshAnswered(f)
    <3>1. flow[f].call \in {"rotated", "rejected"}
      BY <2>4 DEF RefreshAnswered
    <3> QED
      BY <2>4, <3>1, DeliveredFacts, RejectionIsQuiet
  <2>5. CASE SaveRotated(f) \/ RefreshUnanswered(f)
    BY <2>5, RefreshIsQuiet
  <2>6. CASE WaitForRotated(f) \/ DropConfig(f)
    BY <2>6, WaitIsQuiet
  <2>7. CASE AuthenticateRead(f)
    BY <2>7, AuthenticatesFacts
  <2>8. CASE AuthenticateCommit(f)
    BY <2>8, WritesRowFacts
  <2>9. CASE RequestRejected(f) \/ RequestFails(f)
    BY <2>9, RequestIsQuiet
  <2>10. CASE ReadRecord(f) \/ WriteRecord(f) \/ SaveConfig(f) \/ ClearConfig(f)
    BY <2>10, RecordIsQuiet
  <2>11. CASE LoginExtension(f)
    <3>1. CASE \E s \in Sessions : SignedIn(f, s)
      BY <2>11, <3>1, StartsFacts DEF LoginExtension
    <3>2. CASE UNCHANGED <<stored, row, issued, aged, stray, crossed>>
      <4>1. QuietStep(f) \/ \E s \in Sessions : SignedIn(f, s)
        BY <2>11, <3>2, HandoffIsQuiet
      <4> QED
        BY <3>1, <4>1
    <3> QED
      BY <2>11, <3>1, <3>2 DEF LoginExtension
  <2>12. CASE RedeemHandoff(f)
    BY <2>12, StartsFacts DEF RedeemHandoff
  <2>13. CASE CompleteHandoff(f) \/ HandoffFails(f)
    <3>1. QuietStep(f) \/ (LoginExtension(f) /\ \E s \in Sessions : SignedIn(f, s))
      BY <2>13, HandoffIsQuiet
    <3> QED
      BY <2>11, <3>1
  <2> QED
    BY <2>1, <2>2, <2>3, <2>4, <2>5, <2>6, <2>7, <2>8, <2>9, <2>10, <2>11, <2>12, <2>13
       DEF FlowStep, RefreshStep
<1>2. CASE \E f \in Flows, k \in Kinds : Begin(f, k)
  BY <1>2, BeginIsQuiet
<1> QED
  BY <1>1, <1>2 DEF Next

LEMMA InitBase == Init => BaseInv
<1> SUFFICES ASSUME Init
             PROVE  BaseInv
  OBVIOUS
<1>1. 0 \in 0 .. MaxTokens /\ NoRow \in Row
  BY BoundsAssumption DEF NoRow, Row
<1>2. TypeOK
  BY <1>1, IdleFacts, TokenFacts DEF Init, TypeOK
<1>3. Shapes
  BY IdleFacts DEF Init, Shapes
<1>4. LockOK
  BY IdleFacts DEF Init, LockOK
<1> QED
  BY <1>2, <1>3, <1>4 DEF BaseInv

LEMMA QuietStepBase ==
  ASSUME BaseInv, NEW f \in Flows, QuietStep(f)
  PROVE  BaseInv'
<1>1. PICK r \in Flow :
        /\ Quiet(f, r)
        /\ flow' = [flow EXCEPT ![f] = r]
        /\ UNCHANGED <<row, issued, aged, crossed>>
        /\ stored' \in {stored, NoToken, flow[f].held, flow[f].got}
        /\ stray' = stray \/ (flow[f].held \in Token /\ stray' = stray \cup {flow[f].held})
  BY DEF QuietStep
<1>2. Shape(r) /\ r.call # "locked"
  BY <1>1 DEF Quiet
<1>3. stored' \in MaybeToken /\ stray' \subseteq Token /\ aged' \subseteq Token
      /\ crossed' \subseteq [s : Sessions, n : 0 .. MaxTokens]
  BY <1>1, FlowFacts, TokenFacts DEF BaseInv, TypeOK
<1> QED
  BY <1>1, <1>2, <1>3, QuietBase

LEMMA LockGivenBase ==
  ASSUME BaseInv, NEW f \in Flows, NEW r \in Flow, LockGiven(f, r)
  PROVE  BaseInv'
<1>1. \A g \in Flows : flow'[g] = IF g = f THEN r ELSE flow[g]
  BY DEF LockGiven, BaseInv, TypeOK
<1>2. TypeOK'
  BY DEF LockGiven, BaseInv, TypeOK
<1>3. Shapes'
  BY <1>1 DEF LockGiven, BaseInv, Shapes
<1>4. \A g \in Flows : flow[g].call = "locked" => flow[g].held.s # r.held.s
  BY DEF LockGiven, Locked
<1>5. ASSUME NEW g \in Flows, flow'[g].call = "locked"
      PROVE  (Live(flow[g].held) /\ issued[flow[g].held.s] < MaxTokens)'
  BY <1>1, <1>5 DEF LockGiven, BaseInv, LockOK, Live
<1>6. ASSUME NEW g \in Flows, NEW h \in Flows, flow'[g].call = "locked",
             flow'[h].call = "locked", flow'[h].held.s = flow'[g].held.s
      PROVE  h = g
  BY <1>1, <1>4, <1>6 DEF BaseInv, LockOK
<1>7. LockOK'
  BY <1>5, <1>6 DEF LockOK
<1> QED
  BY <1>2, <1>3, <1>7 DEF BaseInv

LEMMA DeliveredBase ==
  ASSUME BaseInv, NEW f \in Flows, NEW r \in Flow, Delivered(f, r)
  PROVE  BaseInv'
BY QuietBase DEF Delivered, BaseInv, TypeOK

LEMMA AuthenticatesBase ==
  ASSUME BaseInv, NEW f \in Flows, NEW r \in Flow, Authenticates(f, r)
  PROVE  BaseInv'
BY QuietBase DEF Authenticates, BaseInv, TypeOK

LEMMA RotatedBase ==
  ASSUME BaseInv, NEW f \in Flows, NEW r \in Flow, NEW s \in Sessions, Rotated(f, r, s)
  PROVE  BaseInv'
<1>1. \A g \in Flows : flow[g].call = "locked" /\ flow[g].held.s = s => g = f
  BY DEF Rotated, BaseInv, LockOK
<1>2. /\ row' \in [Sessions -> Row] /\ issued' \in [Sessions -> 0 .. MaxTokens]
      /\ \A u \in Sessions \ {s} : row'[u] = row[u] /\ issued'[u] = issued[u]
  BY RotatesTypes DEF Rotated, BaseInv
<1>3. /\ Shape(r) /\ r.call # "locked" /\ flow' = [flow EXCEPT ![f] = r]
      /\ stored' \in MaybeToken /\ aged' \subseteq Token /\ stray' \subseteq Token
      /\ crossed' \subseteq [s : Sessions, n : 0 .. MaxTokens]
  BY DEF Rotated, BaseInv, TypeOK
<1> QED
  BY <1>1, <1>2, <1>3, RowBase

LEMMA WritesRowBase ==
  ASSUME BaseInv, NEW f \in Flows, NEW r \in Flow, NEW s \in Sessions, WritesRow(f, r, s)
  PROVE  BaseInv'
<1>1. \A g \in Flows : flow[g].call = "locked" /\ flow[g].held.s = s => g = f
  BY DEF WritesRow, Locked
<1>2. /\ row' \in [Sessions -> Row] /\ issued' \in [Sessions -> 0 .. MaxTokens]
      /\ \A u \in Sessions \ {s} : row'[u] = row[u] /\ issued'[u] = issued[u]
  BY DEF WritesRow, BaseInv, TypeOK
<1>3. /\ Shape(r) /\ r.call # "locked" /\ flow' = [flow EXCEPT ![f] = r]
      /\ stored' \in MaybeToken /\ aged' \subseteq Token /\ stray' \subseteq Token
  BY DEF WritesRow, Quiet, BaseInv, TypeOK
<1>4. crossed' \subseteq [s : Sessions, n : 0 .. MaxTokens]
  BY DEF WritesRow, BaseInv, TypeOK, Row
<1> QED
  BY <1>1, <1>2, <1>3, <1>4, RowBase

\* A session that starts has no row a refresh could have locked.
LEMMA StartsBase ==
  ASSUME BaseInv, NEW f \in Flows, NEW r \in Flow, NEW s \in Sessions, Starts(f, r, s)
  PROVE  BaseInv'
<1>1. \A g \in Flows : flow[g].call = "locked" /\ flow[g].held.s = s => g = f
  <2> SUFFICES ASSUME NEW g \in Flows, flow[g].call = "locked", flow[g].held.s = s
               PROVE  FALSE
    OBVIOUS
  <2>1. row[flow[g].held.s] = [state |-> "active", n |-> flow[g].held.n]
    BY DEF BaseInv, LockOK, Live
  <2>2. row[s].state = "active"
    BY <2>1
  <2> QED
    BY <2>2 DEF Starts, NewSession
<1>2. /\ row' \in [Sessions -> Row] /\ issued' \in [Sessions -> 0 .. MaxTokens]
      /\ \A u \in Sessions \ {s} : row'[u] = row[u] /\ issued'[u] = issued[u]
  <2>1. 1 \in 0 .. MaxTokens
    BY BoundsAssumption
  <2>2. [state |-> "active", n |-> 1] \in Row
    BY <2>1 DEF Row
  <2> QED
    BY <2>1, <2>2 DEF Starts, NewSession, BaseInv, TypeOK
<1>3. /\ Shape(r) /\ r.call # "locked" /\ flow' = [flow EXCEPT ![f] = r]
      /\ stored' \in MaybeToken /\ aged' \subseteq Token /\ stray' \subseteq Token
      /\ crossed' \subseteq [s : Sessions, n : 0 .. MaxTokens]
  BY DEF Starts, BaseInv, TypeOK
<1> QED
  BY <1>1, <1>2, <1>3, RowBase

LEMMA StrayBase ==
  ASSUME BaseInv, NEW t \in Token, RefreshStray(t)
  PROVE  BaseInv'
<1>0. t.s \in Sessions
  BY TokenFacts
<1>1. UNCHANGED <<stored, aged, crossed, flow>> /\ stray' \subseteq Token /\ stored \in MaybeToken
  BY DEF RefreshStray, BaseInv, TypeOK
<1>2. CASE UNCHANGED <<row, issued>>
  BY <1>1, <1>2 DEF BaseInv, TypeOK, Shapes, LockOK, Live
<1>3. CASE issued[t.s] < MaxTokens /\ ~Locked(t.s) /\ Rotates(t.s)
  <2>1. /\ row' \in [Sessions -> Row] /\ issued' \in [Sessions -> 0 .. MaxTokens]
        /\ \A u \in Sessions \ {t.s} : row'[u] = row[u] /\ issued'[u] = issued[u]
    BY <1>0, <1>3, RotatesTypes DEF BaseInv
  <2> QED
    BY <1>0, <1>1, <1>3, <2>1, RowOnlyBase DEF BaseInv, TypeOK
<1> QED
  BY <1>2, <1>3 DEF RefreshStray

LEMMA AgesBase ==
  ASSUME BaseInv, NEW t \in Token, TokenAges(t)
  PROVE  BaseInv'
BY DEF TokenAges, BaseInv, TypeOK, Shapes, LockOK, Live

LEMMA EndsBase ==
  ASSUME BaseInv, NEW s \in Sessions, SessionEnds(s)
  PROVE  BaseInv'
<1>1. row[s] \in Row /\ [row[s] EXCEPT !.state = "ended"] \in Row
  BY DEF BaseInv, TypeOK, Row
<1>2. /\ row' \in [Sessions -> Row]
      /\ \A u \in Sessions \ {s} : row'[u] = row[u]
  BY <1>1 DEF SessionEnds, BaseInv, TypeOK
<1> QED
  BY <1>2, RowOnlyBase DEF SessionEnds, BaseInv, TypeOK

LEMMA NextBase == BaseInv /\ [Next]_vars => BaseInv'
<1> SUFFICES ASSUME BaseInv, [Next]_vars
             PROVE  BaseInv'
  OBVIOUS
<1>1. CASE UNCHANGED vars
  BY <1>1 DEF vars, BaseInv, TypeOK, Shapes, LockOK, Live
<1>2. CASE Next
  BY <1>2, StepFacts, QuietStepBase, LockGivenBase, DeliveredBase, AuthenticatesBase,
     RotatedBase, WritesRowBase, StartsBase, AgesBase, StrayBase, EndsBase
<1> QED
  BY <1>1, <1>2

\* Whatever overlaps, the bundle in the storage and what every call holds are
\* tokens, calls and server agree about who waits for what, and only one
\* refresh at a time holds a session's row.
THEOREM TypeCorrect == Spec => []TypeOK
<1>1. BaseInv => TypeOK
  BY DEF BaseInv
<1> QED
  BY <1>1, InitBase, NextBase, PTL DEF Spec

-----------------------------------------------------------------------------
(* Current tokens, but for those a write-back of authenticate has crossed. *)

\* No step takes tokens back, or makes a dead one live that is not crossed.
Onward ==
    /\ crossed \subseteq crossed'
    /\ \A t \in Token : t.n <= issued[t.s] =>
          /\ t.n <= issued'[t.s]
          /\ row'[t.s] = [state |-> "active", n |-> t.n] => Live(t) \/ t \in crossed'

LEMMA OnwardKeeps ==
  ASSUME Onward
  PROVE  /\ \A t \in MaybeToken : Known(t) => Known(t)'
         /\ \A t \in MaybeToken : Dead(t) => Dead(t)'
         /\ \A q \in Flow : RecordKnown(q) => RecordKnown(q)'
         /\ \A q \in Flow : GivesUpDead(q) => GivesUpDead(q)'
<1>1. \A t \in MaybeToken : Known(t) => Known(t)'
  BY DEF Onward, Known
<1>2. \A t \in MaybeToken : Dead(t) => Dead(t)'
  BY DEF Onward, Dead, Live
<1> QED
  BY <1>1, <1>2 DEF RecordKnown, GivesUpDead, Flow

LEMMA SameIsOnward ==
  ASSUME UNCHANGED <<row, issued, crossed>>
  PROVE  Onward
BY TokenFacts DEF Onward, Live

LEMMA RotationIsOnward ==
  ASSUME CurrentInv, NEW s \in Sessions, issued[s] < MaxTokens, Rotates(s),
         UNCHANGED crossed
  PROVE  Onward
<1>1. /\ row' \in [Sessions -> Row] /\ issued' \in [Sessions -> 0 .. MaxTokens]
      /\ \A u \in Sessions \ {s} : row'[u] = row[u] /\ issued'[u] = issued[u]
      /\ row'[s].n = issued[s] + 1 /\ issued'[s] = issued[s] + 1
  BY RotatesTypes DEF CurrentInv, BaseInv
<1>2. issued[s] \in Nat
  BY BoundsAssumption DEF CurrentInv, BaseInv, TypeOK
<1> SUFFICES ASSUME NEW t \in Token, t.n <= issued[t.s]
             PROVE  /\ t.n <= issued'[t.s]
                    /\ row'[t.s] = [state |-> "active", n |-> t.n] => Live(t)
  BY DEF Onward
<1>3. t.s \in Sessions /\ t.n \in Nat
  BY TokenFacts
<1>4. CASE t.s = s
  <2>1. t.n <= issued'[t.s]
    BY <1>1, <1>2, <1>3, <1>4
  <2>2. row'[t.s] = [state |-> "active", n |-> t.n] => row'[s].n = t.n
    BY <1>4
  <2> QED
    BY <1>1, <1>2, <1>3, <1>4, <2>1, <2>2
<1>5. CASE t.s # s
  BY <1>1, <1>3, <1>5 DEF Live
<1> QED
  BY <1>4, <1>5

\* One call goes on with tokens that are known, and gives up only dead ones.
LEMMA GoesOn ==
  ASSUME CurrentInv, Onward, NEW f \in Flows, NEW r \in Flow,
         flow' = [flow EXCEPT ![f] = r], RecordKnown(r)', GivesUpDead(r)',
         Known(stored)', \A t \in stray' : Known(t)'
  PROVE  TokensKnown' /\ DeadOK'
<1>1. \A g \in Flows : flow[g] \in Flow /\ flow'[g] = IF g = f THEN r ELSE flow[g]
  BY DEF CurrentInv, BaseInv, TypeOK
<1>2. \A g \in Flows : \E q \in Flow : /\ q = flow'[g]
                                       /\ RecordKnown(q)' /\ GivesUpDead(q)'
  BY <1>1, OnwardKeeps DEF CurrentInv, TokensOK, TokensKnown, DeadOK
<1>3. TokensKnown'
  BY <1>2 DEF TokensKnown, RecordKnown, Known
<1>4. DeadOK'
  <2> SUFFICES ASSUME NEW g \in Flows
               PROVE  GivesUpDead(flow[g])'
    BY DEF DeadOK
  <2>1. PICK q \in Flow : q = flow'[g] /\ GivesUpDead(q)'
    BY <1>2
  <2> QED
    BY <2>1 DEF GivesUpDead, Dead, Live
<1> QED
  BY <1>3, <1>4

\* Nobody goes on.
LEMMA NobodyGoesOn ==
  ASSUME CurrentInv, Onward, UNCHANGED <<stored, flow>>, stray' \subseteq stray
  PROVE  TokensKnown' /\ DeadOK'
<1>1. /\ \A g \in Flows : flow[g] \in Flow
      /\ stored \in MaybeToken /\ stray \subseteq MaybeToken
  BY TokenFacts DEF CurrentInv, BaseInv, TypeOK
<1>2. \A g \in Flows : \E q \in Flow : /\ q = flow'[g]
                                       /\ RecordKnown(q)' /\ GivesUpDead(q)'
  BY <1>1, OnwardKeeps DEF CurrentInv, TokensOK, TokensKnown, DeadOK
<1>3. TokensKnown'
  <2>1. Known(stored)'
    <3>1. PICK t \in MaybeToken : t = stored /\ Known(t)'
      BY <1>1, OnwardKeeps DEF CurrentInv, TokensOK, TokensKnown
    <3> QED
      BY <3>1 DEF Known
  <2>2. \A t \in stray' : Known(t)'
    BY <1>1, OnwardKeeps DEF CurrentInv, TokensOK, TokensKnown
  <2> QED
    BY <1>2, <2>1, <2>2 DEF TokensKnown, RecordKnown, Known
<1>4. DeadOK'
  <2> SUFFICES ASSUME NEW g \in Flows
               PROVE  GivesUpDead(flow[g])'
    BY DEF DeadOK
  <2>1. PICK q \in Flow : q = flow'[g] /\ GivesUpDead(q)'
    BY <1>2
  <2> QED
    BY <2>1 DEF GivesUpDead, Dead, Live
<1> QED
  BY <1>3, <1>4

\* A quiet step delivers nothing, and touches no token on its way.
LEMMA QuietMoves ==
  ASSUME CurrentInv, Onward, NEW f \in Flows, NEW r \in Flow, Quiet(f, r),
         flow' = [flow EXCEPT ![f] = r], UNCHANGED issued,
         stored' \in {stored, NoToken, flow[f].held, flow[f].got},
         stray' = stray \/ (flow[f].held \in Token /\ stray' = stray \cup {flow[f].held})
  PROVE  /\ TokensKnown' /\ DeadOK' /\ FreshOK'
         /\ \A g \in Flows, t \in Token : Undelivered(g, t)' => Undelivered(g, t)
<1>1. \A g \in Flows : flow'[g] = IF g = f THEN r ELSE flow[g]
  BY DEF CurrentInv, BaseInv, TypeOK
<1>2. NoToken \notin Token
  BY TokenFacts
<1>3. RecordKnown(flow[f]) /\ GivesUpDead(flow[f]) /\ Known(stored)
  BY DEF CurrentInv, TokensOK, TokensKnown, DeadOK
<1>4. TokensKnown' /\ DeadOK'
  <2>1. RecordKnown(r) /\ GivesUpDead(r)
    BY <1>2, <1>3 DEF Quiet, RecordKnown, Known
  <2>2. PICK q \in Flow : q = r /\ RecordKnown(q)' /\ GivesUpDead(q)'
    BY <2>1, OnwardKeeps
  <2>3. RecordKnown(r)' /\ GivesUpDead(r)'
    BY <2>2
  <2>4. Known(stored)' /\ \A t \in stray' : Known(t)'
    BY <1>2, <1>3 DEF CurrentInv, TokensOK, TokensKnown, RecordKnown, Known
  <2> QED
    BY <2>3, <2>4, GoesOn
<1>5. ASSUME NEW g \in Flows, NEW t \in Token, Undelivered(g, t)'
      PROVE  Undelivered(g, t) /\ g # f
  BY <1>1, <1>5 DEF Undelivered, Quiet
<1>6. FreshOK'
  <2> SUFFICES ASSUME NEW g \in Flows, NEW t \in Token, Undelivered(g, t)'
               PROVE  Fresh(g, t)'
    BY DEF FreshOK
  <2>1. Fresh(g, t) /\ g # f
    BY <1>5 DEF CurrentInv, TokensOK, FreshOK
  <2>2. flow[f].held # t /\ flow[f].got # t /\ stored # t /\ t \notin stray
    BY <2>1 DEF Fresh
  <2>3. r.held # t /\ r.got # t /\ stored' # t /\ t \notin stray'
    BY <1>2, <2>2 DEF Quiet
  <2> QED
    BY <1>1, <2>1, <2>3 DEF Fresh
<1> QED
  BY <1>4, <1>5, <1>6

LEMMA QuietCurrent ==
  ASSUME CurrentInv, NEW f \in Flows, QuietStep(f)
  PROVE  TokensOK'
<1>1. UNCHANGED <<row, issued, crossed>> /\ Onward
  BY SameIsOnward DEF QuietStep
<1>2. /\ TokensKnown' /\ DeadOK' /\ FreshOK'
      /\ \A g \in Flows, t \in Token : Undelivered(g, t)' => Undelivered(g, t)
  BY <1>1, QuietMoves DEF QuietStep
<1>3. AnswersAreCurrent'
  BY <1>1, <1>2 DEF CurrentInv, TokensOK, AnswersAreCurrent
<1>4. RowsOK'
  BY <1>1 DEF CurrentInv, TokensOK, RowsOK
<1> QED
  BY <1>2, <1>3, <1>4 DEF TokensOK

\* A lock that is given moves no token.
LEMMA LockGivenCurrent ==
  ASSUME CurrentInv, NEW f \in Flows, NEW r \in Flow, LockGiven(f, r)
  PROVE  TokensOK'
<1>1. \A g \in Flows : flow'[g] = IF g = f THEN r ELSE flow[g]
  BY DEF LockGiven, CurrentInv, BaseInv, TypeOK
<1>2. UNCHANGED <<stored, row, issued, stray, crossed>> /\ Onward
  BY SameIsOnward DEF LockGiven
<1>3. TokensKnown' /\ DeadOK'
  <2>1. RecordKnown(flow[f]) /\ GivesUpDead(flow[f])
    BY DEF CurrentInv, TokensOK, TokensKnown, DeadOK
  <2>2. RecordKnown(r)' /\ GivesUpDead(r)'
    BY <1>2, <2>1 DEF LockGiven, RecordKnown, GivesUpDead, Known, Dead, Live
  <2>3. Known(stored)' /\ \A t \in stray' : Known(t)'
    BY <1>2 DEF CurrentInv, TokensOK, TokensKnown, Known
  <2> QED
    BY <1>2, <2>2, <2>3, GoesOn DEF LockGiven
<1>4. ASSUME NEW g \in Flows, NEW t \in Token, Undelivered(g, t)'
      PROVE  Undelivered(g, t) /\ g # f
  BY <1>1, <1>4 DEF Undelivered, LockGiven
<1>5. AnswersAreCurrent'
  BY <1>2, <1>4 DEF CurrentInv, TokensOK, AnswersAreCurrent
<1>6. FreshOK'
  <2> SUFFICES ASSUME NEW g \in Flows, NEW t \in Token, Undelivered(g, t)'
               PROVE  Fresh(g, t)'
    BY DEF FreshOK
  <2>1. Fresh(g, t) /\ g # f
    BY <1>4 DEF CurrentInv, TokensOK, FreshOK
  <2>2. r.held # t /\ r.got # t /\ stored' # t /\ t \notin stray'
    BY <1>2, <2>1 DEF Fresh, LockGiven
  <2> QED
    BY <1>1, <2>1, <2>2 DEF Fresh
<1>7. RowsOK'
  BY <1>2 DEF CurrentInv, TokensOK, RowsOK
<1> QED
  BY <1>3, <1>5, <1>6, <1>7 DEF TokensOK

\* An answer only moves its tokens from the wire to the call.
LEMMA DeliveredCurrent ==
  ASSUME CurrentInv, NEW f \in Flows, NEW r \in Flow, Delivered(f, r)
  PROVE  TokensOK'
<1>1. \A g \in Flows : flow'[g] = IF g = f THEN r ELSE flow[g]
  BY DEF Delivered, CurrentInv, BaseInv, TypeOK
<1>2. UNCHANGED <<stored, row, issued, stray, crossed>> /\ Onward /\ NoToken \notin Token
  BY SameIsOnward, TokenFacts DEF Delivered
<1>3. TokensKnown' /\ DeadOK'
  <2>1. RecordKnown(flow[f]) /\ GivesUpDead(flow[f])
    BY DEF CurrentInv, TokensOK, TokensKnown, DeadOK
  <2>2. RecordKnown(r)' /\ GivesUpDead(r)'
    BY <1>2, <2>1 DEF Delivered, RecordKnown, GivesUpDead, Known, Dead, Live
  <2>3. Known(stored)' /\ \A t \in stray' : Known(t)'
    BY <1>2 DEF CurrentInv, TokensOK, TokensKnown, Known
  <2> QED
    BY <1>2, <2>2, <2>3, GoesOn DEF Delivered
<1>4. ASSUME NEW g \in Flows, NEW t \in Token, Undelivered(g, t)'
      PROVE  Undelivered(g, t)
  BY <1>1, <1>4 DEF Undelivered, Delivered
<1>5. AnswersAreCurrent'
  BY <1>2, <1>4 DEF CurrentInv, TokensOK, AnswersAreCurrent
<1>6. FreshOK'
  <2> SUFFICES ASSUME NEW g \in Flows, NEW t \in Token, Undelivered(g, t)'
               PROVE  Fresh(g, t)'
    BY DEF FreshOK
  <2>1. Fresh(g, t)
    BY <1>4 DEF CurrentInv, TokensOK, FreshOK
  <2>2. r.got # t /\ stored' # t /\ t \notin stray' /\ (r.held = t => g = f /\ r.pc = "save")
    BY <1>2, <2>1 DEF Fresh, Delivered
  <2> QED
    BY <1>1, <2>1, <2>2 DEF Fresh
<1>7. RowsOK'
  BY <1>2 DEF CurrentInv, TokensOK, RowsOK
<1> QED
  BY <1>3, <1>5, <1>6, <1>7 DEF TokensOK

\* A request that reads the row moves no token.
LEMMA AuthenticatesCurrent ==
  ASSUME CurrentInv, NEW f \in Flows, NEW r \in Flow, Authenticates(f, r)
  PROVE  TokensOK'
<1>1. \A g \in Flows : flow'[g] = IF g = f THEN r ELSE flow[g]
  BY DEF Authenticates, CurrentInv, BaseInv, TypeOK
<1>2. UNCHANGED <<stored, row, issued, stray, crossed>> /\ Onward
  BY SameIsOnward DEF Authenticates
<1>3. TokensKnown' /\ DeadOK'
  <2>1. RecordKnown(flow[f]) /\ GivesUpDead(flow[f])
    BY DEF CurrentInv, TokensOK, TokensKnown, DeadOK
  <2>2. RecordKnown(r)' /\ GivesUpDead(r)'
    BY <1>2, <2>1 DEF Authenticates, RecordKnown, GivesUpDead, Known, Dead, Live
  <2>3. Known(stored)' /\ \A t \in stray' : Known(t)'
    BY <1>2 DEF CurrentInv, TokensOK, TokensKnown, Known
  <2> QED
    BY <1>2, <2>2, <2>3, GoesOn DEF Authenticates
<1>4. ASSUME NEW g \in Flows, NEW t \in Token, Undelivered(g, t)'
      PROVE  Undelivered(g, t) /\ g # f
  BY <1>1, <1>4 DEF Undelivered, Authenticates
<1>5. AnswersAreCurrent'
  BY <1>2, <1>4 DEF CurrentInv, TokensOK, AnswersAreCurrent
<1>6. FreshOK'
  <2> SUFFICES ASSUME NEW g \in Flows, NEW t \in Token, Undelivered(g, t)'
               PROVE  Fresh(g, t)'
    BY DEF FreshOK
  <2>1. Fresh(g, t) /\ g # f
    BY <1>4 DEF CurrentInv, TokensOK, FreshOK
  <2>2. r.held # t /\ r.got # t /\ stored' # t /\ t \notin stray'
    BY <1>2, <2>1 DEF Fresh, Authenticates
  <2> QED
    BY <1>1, <2>1, <2>2 DEF Fresh
<1>7. RowsOK'
  BY <1>2 DEF CurrentInv, TokensOK, RowsOK
<1> QED
  BY <1>3, <1>5, <1>6, <1>7 DEF TokensOK

\* A rotation replaces the tokens of the call that holds the lock: no other
\* call has the row's tokens on their way.
LEMMA RotatedCurrent ==
  ASSUME CurrentInv, NEW f \in Flows, NEW r \in Flow, NEW s \in Sessions, Rotated(f, r, s)
  PROVE  TokensOK'
<1>0. NextToken(s) \in Token
  BY RotatesTypes DEF Rotated, CurrentInv, BaseInv
<1> PICK new \in Token : new = NextToken(s)
  BY <1>0
<1>1. \A g \in Flows : flow[g] \in Flow /\ flow'[g] = IF g = f THEN r ELSE flow[g]
  BY DEF Rotated, CurrentInv, BaseInv, TypeOK
<1>2. /\ \A u \in Sessions \ {s} : row'[u] = row[u] /\ issued'[u] = issued[u]
      /\ row'[s].state = row[s].state /\ row'[s].n = issued[s] + 1
      /\ issued'[s] = issued[s] + 1
      /\ UNCHANGED <<stored, stray, crossed>> /\ Onward
  BY RotatesTypes, RotationIsOnward DEF Rotated, CurrentInv, BaseInv
<1>3. /\ issued[s] \in Nat /\ stored \in MaybeToken /\ stray \subseteq Token
      /\ new.s = s /\ new.n = issued[s] + 1
  BY BoundsAssumption DEF CurrentInv, BaseInv, TypeOK, NextToken
<1>4. /\ Live(flow[f].held) /\ flow[f].held.s = s /\ flow[f].held \in Token
      /\ flow[f].call = "locked"
  BY DEF Rotated, CurrentInv, BaseInv, LockOK
<1>5. row[s].n = flow[f].held.n /\ row[s].state = "active"
  BY <1>4 DEF Live
<1>6. /\ r.held = flow[f].held /\ r.base = flow[f].base /\ r.kind = flow[f].kind
      /\ r.got = new /\ r.call = "rotated" /\ r.pc = "refresh"
      /\ flow' = [flow EXCEPT ![f] = r]
  BY DEF Rotated
<1>7. \A t \in Token : Known(t) => t # new
  BY <1>3 DEF Known
<1>8. RecordKnown(flow[f]) /\ GivesUpDead(flow[f]) /\ Known(stored)
  BY DEF CurrentInv, TokensOK, TokensKnown, DeadOK
<1>9. TokensKnown' /\ DeadOK'
  <2>1. PICK q \in Flow : q = flow[f] /\ RecordKnown(q)' /\ GivesUpDead(q)'
    BY <1>1, <1>2, <1>8, OnwardKeeps
  <2>2. Known(new)'
    BY <1>2, <1>3 DEF Known
  <2>3. RecordKnown(r)' /\ GivesUpDead(r)'
    BY <1>4, <1>6, <2>1, <2>2 DEF RecordKnown, GivesUpDead
  <2>4. Known(stored)'
    <3>1. PICK t \in MaybeToken : t = stored /\ Known(t)'
      BY <1>2, <1>3, <1>8, OnwardKeeps
    <3> QED
      BY <1>2, <3>1 DEF Known
  <2>5. \A t \in stray' : Known(t)'
    BY <1>2, <1>3, OnwardKeeps, TokenFacts DEF CurrentInv, TokensOK, TokensKnown
  <2> QED
    BY <1>2, <1>6, <2>3, <2>4, <2>5, GoesOn
\* Another call's tokens are another session's.
<1>10. ASSUME NEW g \in Flows, NEW t \in Token, Undelivered(g, t)', g # f
       PROVE  /\ Undelivered(g, t) /\ Fresh(g, t)
              /\ (row[t.s].n = t.n /\ t.s \in Sessions \ {s}) \/ t \in crossed
  <2>1. Undelivered(g, t)
    BY <1>1, <1>10 DEF Undelivered
  <2>2. Fresh(g, t) /\ (row[t.s].n = t.n \/ t \in crossed)
    BY <2>1 DEF CurrentInv, TokensOK, FreshOK, AnswersAreCurrent
  <2>3. flow[f].held # t
    BY <1>10, <2>2 DEF Fresh
  <2> QED
    BY <1>4, <1>5, <2>1, <2>2, <2>3, TokenFacts
<1>11. ASSUME NEW t \in Token, Undelivered(f, t)'
       PROVE  t = new
  BY <1>1, <1>6, <1>11 DEF Undelivered
<1>12. AnswersAreCurrent'
  <2> SUFFICES ASSUME NEW g \in Flows, NEW t \in Token, Undelivered(g, t)'
               PROVE  row'[t.s].n = t.n \/ t \in crossed'
    BY DEF AnswersAreCurrent
  <2>1. CASE g = f
    BY <1>2, <1>3, <1>11, <2>1
  <2>2. CASE g # f
    BY <1>2, <1>10, <2>2
  <2> QED
    BY <2>1, <2>2
<1>13. FreshOK'
  <2> SUFFICES ASSUME NEW g \in Flows, NEW t \in Token, Undelivered(g, t)'
               PROVE  Fresh(g, t)'
    BY DEF FreshOK
  <2>1. CASE g = f
    <3>1. t = new
      BY <1>11, <2>1
    <3>2. stored' # t /\ t \notin stray'
      BY <1>2, <1>7, <3>1 DEF CurrentInv, TokensOK, TokensKnown
    <3>3. \A h \in Flows : flow[h].held # t /\ flow[h].got # t
      BY <1>7, <3>1 DEF CurrentInv, TokensOK, TokensKnown, RecordKnown
    <3> QED
      BY <1>1, <1>6, <2>1, <3>2, <3>3 DEF Fresh
  <2>2. CASE g # f
    <3>1. Fresh(g, t) /\ Undelivered(g, t)
      BY <1>10, <2>2
    <3>2. t # new
      BY <1>7, <3>1 DEF Undelivered, CurrentInv, TokensOK, TokensKnown, RecordKnown
    <3>3. flow[f].held # t
      BY <2>2, <3>1 DEF Fresh
    <3> QED
      BY <1>1, <1>2, <1>6, <2>2, <3>1, <3>2, <3>3 DEF Fresh
  <2> QED
    BY <2>1, <2>2
<1>14. RowsOK'
  <2> SUFFICES ASSUME NEW u \in Sessions
               PROVE  row'[u].state = "none" => issued'[u] = 0
    BY DEF RowsOK
  <2> QED
    BY <1>2, <1>5 DEF CurrentInv, TokensOK, RowsOK
<1> QED
  BY <1>9, <1>12, <1>13, <1>14 DEF TokensOK

\* What authenticate writes back is what the row still holds, or crosses the
\* tokens it takes out of the row and those it puts there.
LEMMA WritesRowCurrent ==
  ASSUME CurrentInv, NEW f \in Flows, NEW r \in Flow, NEW s \in Sessions, WritesRow(f, r, s)
  PROVE  TokensOK'
<1>1. /\ \A u \in Sessions \ {s} : row'[u] = row[u]
      /\ row'[s] = flow[f].seen /\ flow[f].seen.state = "active"
      /\ row \in [Sessions -> Row]
  BY DEF WritesRow, CurrentInv, BaseInv, TypeOK
<1>2. UNCHANGED <<stored, issued, stray>> /\ crossed \subseteq crossed'
  BY DEF WritesRow
<1>3. ASSUME NEW t \in Token, t.s = s, row'[s] # row[s],
             t.n = row[s].n \/ t.n = row'[s].n
      PROVE  t \in crossed'
  <2>1. t = [s |-> s, n |-> t.n]
    BY <1>3 DEF Token
  <2> QED
    BY <1>1, <1>3, <2>1 DEF WritesRow
<1>4. Onward
  <2> SUFFICES ASSUME NEW t \in Token, t.n <= issued[t.s],
                      row'[t.s] = [state |-> "active", n |-> t.n]
               PROVE  Live(t) \/ t \in crossed'
    BY <1>2 DEF Onward
  <2>1. row'[t.s].n = t.n
    OBVIOUS
  <2> QED
    BY <1>1, <1>3, <2>1, TokenFacts DEF Live
<1>5. /\ TokensKnown' /\ DeadOK' /\ FreshOK'
      /\ \A g \in Flows, t \in Token : Undelivered(g, t)' => Undelivered(g, t)
  BY <1>2, <1>4, QuietMoves DEF WritesRow
<1>6. AnswersAreCurrent'
  <2> SUFFICES ASSUME NEW g \in Flows, NEW t \in Token, Undelivered(g, t)'
               PROVE  row'[t.s].n = t.n \/ t \in crossed'
    BY DEF AnswersAreCurrent
  <2>1. row[t.s].n = t.n \/ t \in crossed
    BY <1>5 DEF CurrentInv, TokensOK, AnswersAreCurrent
  <2> QED
    BY <1>1, <1>2, <1>3, <2>1, TokenFacts
<1>7. RowsOK'
  BY <1>1, <1>2 DEF CurrentInv, TokensOK, RowsOK
<1> QED
  BY <1>5, <1>6, <1>7 DEF TokensOK

\* A session that starts had no tokens before.
LEMMA StartsCurrent ==
  ASSUME CurrentInv, NEW f \in Flows, NEW r \in Flow, NEW s \in Sessions, Starts(f, r, s)
  PROVE  TokensOK'
<1> DEFINE first == [s |-> s, n |-> 1]
<1>1. \A g \in Flows : flow[g] \in Flow /\ flow'[g] = IF g = f THEN r ELSE flow[g]
  BY DEF Starts, CurrentInv, BaseInv, TypeOK
<1>2. /\ \A u \in Sessions \ {s} : row'[u] = row[u] /\ issued'[u] = issued[u]
      /\ row'[s] = [state |-> "active", n |-> 1] /\ issued'[s] = 1
      /\ UNCHANGED <<stored, stray, crossed>>
      /\ row[s].state = "none" /\ issued[s] = 0
  BY DEF Starts, NewSession, CurrentInv, BaseInv, TypeOK, TokensOK, RowsOK
<1>3. stored \in MaybeToken /\ stray \subseteq Token /\ first \in Token
  BY BoundsAssumption DEF CurrentInv, BaseInv, TypeOK, Token
<1>4. /\ r.held = first /\ r.base = flow[f].base /\ r.kind = flow[f].kind
      /\ r.got = flow[f].got /\ r.call = "none" /\ r.pc = "saveHeld"
      /\ flow' = [flow EXCEPT ![f] = r]
  BY DEF Starts
<1>5. first.s = s /\ first.n = 1
  OBVIOUS
<1> HIDE DEF first
<1>6. \A t \in Token : Known(t) => t.s \in Sessions \ {s}
  BY <1>2, TokenFacts DEF Known
<1>7. Onward
  BY <1>2, <1>6 DEF Onward, Known, Live
<1>8. RecordKnown(flow[f]) /\ GivesUpDead(flow[f]) /\ Known(stored)
  BY DEF CurrentInv, TokensOK, TokensKnown, DeadOK
<1>9. TokensKnown' /\ DeadOK'
  <2>1. PICK q \in Flow : q = flow[f] /\ RecordKnown(q)' /\ GivesUpDead(q)'
    BY <1>1, <1>7, <1>8, OnwardKeeps
  <2>2. Known(first)'
    BY <1>2, <1>5 DEF Known
  <2>3. RecordKnown(r)' /\ GivesUpDead(r)'
    BY <1>4, <2>1, <2>2 DEF RecordKnown, GivesUpDead
  <2>4. Known(stored)'
    <3>1. PICK t \in MaybeToken : t = stored /\ Known(t)'
      BY <1>3, <1>7, <1>8, OnwardKeeps
    <3> QED
      BY <1>2, <3>1 DEF Known
  <2>5. \A t \in stray' : Known(t)'
    BY <1>2, <1>3, <1>7, OnwardKeeps, TokenFacts DEF CurrentInv, TokensOK, TokensKnown
  <2> QED
    BY <1>4, <1>7, <2>3, <2>4, <2>5, GoesOn
<1>10. ASSUME NEW g \in Flows, NEW t \in Token, Undelivered(g, t)'
       PROVE  g # f /\ Undelivered(g, t) /\ Fresh(g, t) /\ t.s \in Sessions \ {s}
  <2>1. g # f /\ Undelivered(g, t)
    BY <1>1, <1>4, <1>10 DEF Undelivered
  <2>2. Known(t)
    BY <2>1 DEF Undelivered, CurrentInv, TokensOK, TokensKnown, RecordKnown
  <2> QED
    BY <1>6, <2>1, <2>2 DEF CurrentInv, TokensOK, FreshOK
<1>11. AnswersAreCurrent'
  BY <1>2, <1>10 DEF CurrentInv, TokensOK, AnswersAreCurrent
<1>12. FreshOK'
  <2> SUFFICES ASSUME NEW g \in Flows, NEW t \in Token, Undelivered(g, t)'
               PROVE  Fresh(g, t)'
    BY DEF FreshOK
  <2>1. g # f /\ Fresh(g, t) /\ t.s # s
    BY <1>10
  <2>2. r.held # t /\ r.got # t
    BY <1>4, <1>5, <2>1 DEF Fresh
  <2> QED
    BY <1>1, <1>2, <2>1, <2>2 DEF Fresh
<1>13. RowsOK'
  <2> SUFFICES ASSUME NEW u \in Sessions
               PROVE  row'[u].state = "none" => issued'[u] = 0
    BY DEF RowsOK
  <2> QED
    BY <1>2 DEF CurrentInv, TokensOK, RowsOK
<1> QED
  BY <1>9, <1>11, <1>12, <1>13 DEF TokensOK

\* A request nobody waits for rotates only a row whose tokens nobody is about
\* to be given.
LEMMA StrayCurrent ==
  ASSUME CurrentInv, NEW t0 \in Token, RefreshStray(t0)
  PROVE  TokensOK'
<1> DEFINE s == t0.s
<1>1. UNCHANGED <<stored, crossed, flow>> /\ stray' \subseteq stray /\ t0 \in stray
  BY DEF RefreshStray
<1>2. s \in Sessions
  BY TokenFacts
<1>3. FreshOK'
  BY <1>1 DEF CurrentInv, TokensOK, FreshOK, Undelivered, Fresh
<1>4. CASE UNCHANGED <<row, issued>>
  <2>1. TokensKnown' /\ DeadOK'
    BY <1>1, <1>4, SameIsOnward, NobodyGoesOn
  <2>2. AnswersAreCurrent' /\ RowsOK'
    BY <1>1, <1>4 DEF CurrentInv, TokensOK, AnswersAreCurrent, Undelivered, RowsOK
  <2> QED
    BY <1>3, <2>1, <2>2 DEF TokensOK
<1>5. CASE Live(t0) /\ issued[s] < MaxTokens /\ Rotates(s)
  <2>1. /\ \A u \in Sessions \ {s} : row'[u] = row[u] /\ issued'[u] = issued[u]
        /\ row'[s].state = row[s].state /\ row'[s].n = issued[s] + 1
        /\ issued'[s] = issued[s] + 1 /\ Onward
    BY <1>1, <1>2, <1>5, RotatesTypes, RotationIsOnward DEF CurrentInv, BaseInv
  <2>2. row[s].n = t0.n /\ row[s].state = "active"
    BY <1>5 DEF Live
  <2>3. TokensKnown' /\ DeadOK'
    BY <1>1, <2>1, NobodyGoesOn
  <2>4. ASSUME NEW g \in Flows, NEW t \in Token, Undelivered(g, t)'
        PROVE  (row[t.s].n = t.n /\ t.s \in Sessions \ {s}) \/ t \in crossed
    <3>1. Undelivered(g, t)
      BY <1>1, <2>4 DEF Undelivered
    <3>2. Fresh(g, t) /\ (row[t.s].n = t.n \/ t \in crossed)
      BY <3>1 DEF CurrentInv, TokensOK, FreshOK, AnswersAreCurrent
    <3> QED
      BY <1>1, <2>2, <3>2, TokenFacts DEF Fresh
  <2>5. AnswersAreCurrent'
    BY <1>1, <2>1, <2>4 DEF AnswersAreCurrent
  <2>6. RowsOK'
    <3> SUFFICES ASSUME NEW u \in Sessions
                 PROVE  row'[u].state = "none" => issued'[u] = 0
      BY DEF RowsOK
    <3> QED
      BY <2>1, <2>2 DEF CurrentInv, TokensOK, RowsOK
  <2> QED
    BY <1>3, <2>3, <2>5, <2>6 DEF TokensOK
<1> QED
  BY <1>4, <1>5 DEF RefreshStray

LEMMA AgesCurrent ==
  ASSUME CurrentInv, NEW t \in Token, TokenAges(t)
  PROVE  TokensOK'
<1>1. UNCHANGED <<stored, row, issued, stray, crossed, flow>>
  BY DEF TokenAges
<1>2. TokensKnown' /\ DeadOK'
  BY <1>1, SameIsOnward, NobodyGoesOn
<1>3. FreshOK' /\ AnswersAreCurrent' /\ RowsOK'
  BY <1>1 DEF CurrentInv, TokensOK, FreshOK, AnswersAreCurrent, Undelivered, Fresh, RowsOK
<1> QED
  BY <1>2, <1>3 DEF TokensOK

LEMMA EndsCurrent ==
  ASSUME CurrentInv, NEW s \in Sessions, SessionEnds(s)
  PROVE  TokensOK'
<1>1. /\ UNCHANGED <<stored, issued, stray, crossed, flow>>
      /\ row[s] \in Row /\ row' = [row EXCEPT ![s].state = "ended"]
  BY DEF SessionEnds, CurrentInv, BaseInv, TypeOK
<1>2. /\ \A u \in Sessions \ {s} : row'[u] = row[u]
      /\ row'[s].state = "ended" /\ row'[s].n = row[s].n
  BY <1>1 DEF CurrentInv, BaseInv, TypeOK, Row
<1>3. Onward
  <2> SUFFICES ASSUME NEW t \in Token, t.n <= issued[t.s]
               PROVE  /\ t.n <= issued'[t.s]
                      /\ row'[t.s] = [state |-> "active", n |-> t.n] => Live(t)
    BY <1>1 DEF Onward
  <2>1. row'[t.s] = [state |-> "active", n |-> t.n] => row'[t.s].state = "active"
    OBVIOUS
  <2> QED
    BY <1>1, <1>2, <2>1, TokenFacts DEF Live
<1>4. TokensKnown' /\ DeadOK'
  BY <1>1, <1>3, NobodyGoesOn
<1>5. FreshOK'
  BY <1>1 DEF CurrentInv, TokensOK, FreshOK, Undelivered, Fresh
<1>6. AnswersAreCurrent'
  BY <1>1, <1>2, TokenFacts DEF CurrentInv, TokensOK, AnswersAreCurrent, Undelivered
<1>7. RowsOK'
  BY <1>1, <1>2 DEF CurrentInv, TokensOK, RowsOK
<1> QED
  BY <1>4, <1>5, <1>6, <1>7 DEF TokensOK

LEMMA InitCurrent == Init => CurrentInv
<1> SUFFICES ASSUME Init
             PROVE  CurrentInv
  OBVIOUS
<1>1. TokensKnown /\ DeadOK
  BY IdleFacts, TokenFacts
     DEF Init, TokensKnown, RecordKnown, Known, DeadOK, GivesUpDead
<1>2. FreshOK /\ AnswersAreCurrent
  BY IdleFacts DEF Init, FreshOK, AnswersAreCurrent, Undelivered
<1>3. RowsOK
  BY DEF Init, RowsOK
<1> QED
  BY <1>1, <1>2, <1>3, InitBase DEF CurrentInv, TokensOK

LEMMA NextCurrent ==
  ASSUME CurrentInv, [Next]_vars
  PROVE  CurrentInv'
<1>1. BaseInv'
  BY NextBase DEF CurrentInv
<1>2. CASE UNCHANGED vars
  <2>1. UNCHANGED <<stored, row, issued, stray, crossed, flow>>
    BY <1>2 DEF vars
  <2>2. TokensKnown' /\ DeadOK'
    BY <2>1, SameIsOnward, NobodyGoesOn
  <2>3. FreshOK' /\ AnswersAreCurrent' /\ RowsOK'
    BY <2>1 DEF CurrentInv, TokensOK, FreshOK, AnswersAreCurrent, Undelivered, Fresh, RowsOK
  <2> QED
    BY <1>1, <2>2, <2>3 DEF CurrentInv, TokensOK
<1>3. CASE Next
  <2>1. BaseInv
    BY DEF CurrentInv
  <2>2. TokensOK'
    BY <1>3, <2>1, StepFacts, QuietCurrent, LockGivenCurrent, DeliveredCurrent,
       AuthenticatesCurrent, RotatedCurrent, WritesRowCurrent, StartsCurrent,
       AgesCurrent, StrayCurrent, EndsCurrent
  <2> QED
    BY <1>1, <2>2 DEF CurrentInv
<1> QED
  BY <1>2, <1>3

\* The tokens a refresh brings are the session's when they are stored, whoever
\* else asks meanwhile, but for those before and after a rotation that
\* authenticate's write-back has undone (ExtensionSessionService.refresh,
\* authenticate, auth-refresh.js).
THEOREM AnswersAlwaysCurrent == Spec => []AnswersAreCurrent
<1>1. CurrentInv /\ [Next]_vars => CurrentInv'
  BY NextCurrent
<1>2. CurrentInv => AnswersAreCurrent
  BY DEF CurrentInv, TokensOK
<1> QED
  BY <1>1, <1>2, InitCurrent, PTL DEF Spec

\* A load that drops the sign-in, and a badge refresh or an options page that
\* clears it, erases live tokens only if another context has stored them since
\* the call last looked at the storage, or a write-back has crossed them
\* (background-auth.js, auth-refresh.js).
THEOREM LiveTokensAreKept == Spec => []CarefulFlowsKeepLiveTokens
<1>1. CurrentInv /\ [Next]_vars => CurrentInv'
  BY NextCurrent
<1>2. CurrentInv => CarefulFlowsKeepLiveTokens
  <2> SUFFICES ASSUME CurrentInv, NEW f \in Flows,
                      Erases(f), Live(stored), stored \notin crossed
               PROVE  flow[f].saw \notin {Unseen, stored}
    BY DEF CarefulFlowsKeepLiveTokens
  <2>1. Shape(flow[f]) /\ GivesUpDead(flow[f])
    BY DEF CurrentInv, BaseInv, Shapes, TokensOK, DeadOK
  <2>2. stored \in Token /\ ~Dead(stored)
    BY DEF Live, Dead
  <2>3. PICK t \in Token : Dead(t) /\ flow[f].saw \in {NoToken, t}
    <3>1. CASE flow[f].pc = "drop"
      BY <2>1, <3>1 DEF Shape, GivesUpDead, Dead
    <3>2. CASE flow[f].pc = "clear" /\ flow[f].kind \in Careful
      BY <2>1, <3>2, TokenFacts DEF Shape, GivesUpDead, Careful
    <3> QED
      BY <3>1, <3>2 DEF Erases
  <2>4. Unseen \notin Token /\ Unseen # NoToken
    BY TokenFacts DEF Token, Unseen, NoToken, Sessions
  <2> QED
    BY <2>2, <2>3, <2>4, TokenFacts
<1> QED
  BY <1>1, <1>2, InitCurrent, PTL DEF Spec

-----------------------------------------------------------------------------
(* The running indicator of a manual poll (ExtensionLive). *)

\* The menu's call shows its overlay, and nothing else is in its place.
MenuShowsOverlay ==
    \A t \in Tasks : task[t].pc # "none" /\ task[t].kind = "menu" =>
        task[t].pc \in {"icon", "finish"} /\ task[t].face \notin {"error", "signedOut"}

WorkerInv ==
    /\ WorkerTypeOK
    /\ running => done < MaxPollRuns
    /\ MenuShowsOverlay
    /\ OverlayIsTimed

\* A call that will look at the pending poll again, or schedule the check.
Watches(k) == k.pc # "none" /\ k.kind \in {"check", "menu"}

\* A status, a pending poll and a call are made of their parts.
LEMMA StatusMade ==
  ASSUME NEW b \in BOOLEAN, NEW d \in Runs
  PROVE  [running |-> b, done |-> d] \in Status
BY Zenon DEF Status

LEMMA PendingMade ==
  ASSUME NEW a \in BOOLEAN, NEW d \in Runs, NEW r \in BOOLEAN
  PROVE  [asked |-> a, last |-> d, returned |-> r] \in Pending
BY Zenon DEF Pending

LEMMA ManualMade ==
  ASSUME NEW p \in Pending, NEW b \in BOOLEAN, NEW n \in 0..MaxAttempts
  PROVE  [pending |-> p, timer |-> b, attempts |-> n] \in Manual
BY Zenon DEF Manual

LEMMA ManualParts ==
  ASSUME NEW m \in Manual
  PROVE  /\ m = [pending |-> m.pending, timer |-> m.timer, attempts |-> m.attempts]
         /\ m.pending \in Pending /\ m.timer \in BOOLEAN /\ m.attempts \in 0..MaxAttempts
         /\ m.pending = [asked |-> m.pending.asked, last |-> m.pending.last,
                         returned |-> m.pending.returned]
         /\ m.pending.asked \in BOOLEAN /\ m.pending.last \in Runs
         /\ m.pending.returned \in BOOLEAN
BY DEF Manual, Pending

LEMMA TaskMade ==
  ASSUME NEW pc \in {"none", "fetch", "save", "icon", "notified", "finish"},
         NEW k \in TaskKinds, NEW s \in MaybeStatus, NEW f \in Faces
  PROVE  [pc |-> pc, kind |-> k, status |-> s, face |-> f] \in Task
BY DEF Task

LEMMA TaskParts ==
  ASSUME NEW k \in Task
  PROVE  /\ k = [pc |-> k.pc, kind |-> k.kind, status |-> k.status, face |-> k.face]
         /\ k.pc \in {"none", "fetch", "save", "icon", "notified", "finish"}
         /\ k.kind \in TaskKinds /\ k.status \in MaybeStatus /\ k.face \in Faces
BY DEF Task

\* A call that gets on: its place, and its status or its face.
LEMMA TaskGoes ==
  ASSUME NEW k \in Task, NEW pc \in {"none", "fetch", "save", "icon", "notified", "finish"}
  PROVE  [k EXCEPT !.pc = pc] \in Task
         /\ [k EXCEPT !.pc = pc] = [pc |-> pc, kind |-> k.kind, status |-> k.status,
                                    face |-> k.face]
BY DEF Task

LEMMA TaskChanges ==
  ASSUME NEW k \in Task, NEW x
  PROVE  /\ [k EXCEPT !.status = x] = [pc |-> k.pc, kind |-> k.kind, status |-> x,
                                       face |-> k.face]
         /\ [k EXCEPT !.face = x] = [pc |-> k.pc, kind |-> k.kind, status |-> k.status,
                                     face |-> x]
BY DEF Task

LEMMA TaskGoesAndChanges ==
  ASSUME NEW k \in Task, NEW pc \in {"none", "fetch", "save", "icon", "notified", "finish"},
         NEW x
  PROVE  [k EXCEPT !.pc = pc, !.status = x]
             = [pc |-> pc, kind |-> k.kind, status |-> x, face |-> k.face]
<1> DEFINE q == [k EXCEPT !.pc = pc]
<1>1. [k EXCEPT !.pc = pc, !.status = x] = [q EXCEPT !.status = x]
  OBVIOUS
<1>2. q \in Task /\ q = [pc |-> pc, kind |-> k.kind, status |-> k.status, face |-> k.face]
  BY TaskGoes
<1> HIDE DEF q
<1>3. q.pc = pc /\ q.kind = k.kind /\ q.status = k.status /\ q.face = k.face
  BY <1>2
<1> QED
  BY <1>1, <1>2, <1>3, TaskChanges

LEMMA TaskGoesAndFaces ==
  ASSUME NEW k \in Task, NEW pc \in {"none", "fetch", "save", "icon", "notified", "finish"},
         NEW x
  PROVE  [k EXCEPT !.pc = pc, !.face = x]
             = [pc |-> pc, kind |-> k.kind, status |-> k.status, face |-> x]
<1> DEFINE q == [k EXCEPT !.pc = pc]
<1>1. [k EXCEPT !.pc = pc, !.face = x] = [q EXCEPT !.face = x]
  OBVIOUS
<1>2. q \in Task /\ q = [pc |-> pc, kind |-> k.kind, status |-> k.status, face |-> k.face]
  BY TaskGoes
<1> HIDE DEF q
<1>3. q.pc = pc /\ q.kind = k.kind /\ q.status = k.status /\ q.face = k.face
  BY <1>2
<1> QED
  BY <1>1, <1>2, <1>3, TaskChanges

\* No poll is pending.
LEMMA NoManualIsManual == NoManual \in Manual /\ ~NoManual.pending.asked
<1>0. 0 \in Runs
  BY LiveBoundsAssumption DEF Runs
<1>1. NoPoll \in Pending
  BY <1>0, PendingMade, Zenon DEF NoPoll
<1>2. 0 \in 0..MaxAttempts
  BY LiveBoundsAssumption
<1>3. NoManual \in Manual
  BY <1>1, <1>2, ManualMade DEF NoManual
<1>4. ~NoManual.pending.asked
  BY DEF NoManual, NoPoll
<1> QED
  BY <1>3, <1>4

\* A status with the overlay is a status, and the overlay adds none.
LEMMA OverlaidStatus ==
  ASSUME NEW m \in Manual, NEW s \in MaybeStatus
  PROVE  Overlaid(m, s) \in MaybeStatus
<1>1. CASE s = Nothing
  BY <1>1 DEF Overlaid, Synthetic
<1>2. CASE s \in Status
  <2>1. [s EXCEPT !.running = TRUE] \in Status
    BY <1>2, Zenon DEF Status
  <2> QED
    BY <1>2, <2>1 DEF Overlaid, MaybeStatus
<1> QED
  BY <1>1, <1>2 DEF MaybeStatus

\* What a status looks like is no error and no missing sign-in.
LEMMA FaceOfStatus ==
  ASSUME NEW s
  PROVE  Face(s) \in Faces /\ Face(s) \notin {"error", "signedOut"}
BY DEF Face, Faces

\* A check that is scheduled has its timer, or the poll is given up.
LEMMA ScheduledIsTimed ==
  ASSUME NEW m \in Manual
  PROVE  Scheduled(m) \in Manual /\ (Scheduled(m).pending.asked => Scheduled(m).timer)
<1>1. CASE ~m.pending.asked \/ Exhausted(m)
  BY <1>1, NoManualIsManual DEF Scheduled
<1>2. CASE ~(~m.pending.asked \/ Exhausted(m)) /\ m.timer
  BY <1>2 DEF Scheduled
<1>3. CASE ~(~m.pending.asked \/ Exhausted(m)) /\ ~m.timer
  <2> DEFINE n == IF m.attempts < MaxAttempts THEN m.attempts + 1 ELSE m.attempts
  <2>1. Scheduled(m) = [pending |-> m.pending, timer |-> TRUE, attempts |-> n]
    BY <1>3 DEF Scheduled, Manual
  <2>2. n \in 0..MaxAttempts
    <3>1. m.attempts \in 0..MaxAttempts
      BY DEF Manual
    <3> QED
      BY <3>1, LiveBoundsAssumption
  <2> HIDE DEF n
  <2>3. [pending |-> m.pending, timer |-> TRUE, attempts |-> n] \in Manual
    BY <2>2, ManualParts, ManualMade
  <2> QED
    BY <2>1, <2>3
<1> QED
  BY <1>1, <1>2, <1>3

LEMMA AskedIsManual ==
  ASSUME last \in MaybeStatus, NEW m \in Manual
  PROVE  Asked(m) \in Manual
<1> DEFINE d == IF last = Nothing THEN 0 ELSE last.done
<1>1. d \in Runs
  BY LiveBoundsAssumption DEF MaybeStatus, Status, Runs
<1> HIDE DEF d
<1> DEFINE p == [asked |-> TRUE, last |-> d, returned |-> FALSE]
<1>2. p \in Pending
  BY <1>1, PendingMade
<1>3. Asked(m) = [m EXCEPT !.pending = p]
  BY DEF Asked, d
<1> HIDE DEF p
<1>4. Asked(m) = [pending |-> p, timer |-> m.timer, attempts |-> m.attempts]
  BY <1>3, ManualParts
<1>5. m.timer \in BOOLEAN /\ m.attempts \in 0..MaxAttempts
  BY DEF Manual
<1> QED
  BY <1>2, <1>4, <1>5, ManualMade, Zenon

\* Overlaying drops a poll or leaves it.
LEMMA AfterOverlayKeeps ==
  ASSUME NEW m \in Manual, NEW s
  PROVE  AfterOverlay(m, s) \in {m, NoManual}
BY DEF AfterOverlay


\* Where a call is put at its place.
LEMMA TaskPut ==
  ASSUME WorkerTypeOK, NEW t \in Tasks, NEW k \in Task
  PROVE  /\ [task EXCEPT ![t] = k] \in [Tasks -> Task]
         /\ [task EXCEPT ![t] = k][t] = k
         /\ \A u \in Tasks \ {t} : [task EXCEPT ![t] = k][u] = task[u]
BY DEF WorkerTypeOK

LEMMA WorkerInitHolds == WorkerInit => WorkerInv
<1> SUFFICES ASSUME WorkerInit
             PROVE  WorkerInv
  OBVIOUS
<1>1. NoTask \in Task
  BY TaskMade DEF NoTask, TaskKinds, Faces, MaybeStatus
<1>2. 0 \in Runs /\ MaxPollRuns \in Nat /\ MaxPolls \in Nat /\ MaxMoves \in Nat
  BY LiveBoundsAssumption DEF Runs
<1>3. Opened \in LiveState
  BY DEF Opened, LiveState
<1>4. <<>> \in Seq(Events)
  OBVIOUS
<1>5. WorkerTypeOK
  <2>0. polls \in 0 .. MaxPolls /\ moves \in 0 .. MaxMoves
    BY <1>2 DEF WorkerInit
  <2>1. /\ running \in BOOLEAN /\ done \in Runs /\ signedIn \in BOOLEAN
        /\ cache \in MaybeStatus /\ last \in MaybeStatus
        /\ wanted \in BOOLEAN
    BY <1>2, Zenon DEF WorkerInit, MaybeStatus
  <2>2. /\ badge \in Faces /\ icon \in Faces /\ asked \in Faces
        /\ owner \in Tasks \cup {Nobody}
    BY DEF WorkerInit, Faces
  <2>3. /\ manual \in Manual /\ live \in LiveState /\ liveEvents \in Seq(Events)
    BY <1>3, <1>4, NoManualIsManual DEF WorkerInit
  <2>4. /\ task \in [Tasks -> Task]
        /\ trigger \in [Callers -> {"none", "posting", "taken", "started",
                                    "refused", "failed"}]
    BY <1>1 DEF WorkerInit
  <2> QED
    BY <2>0, <2>1, <2>2, <2>3, <2>4 DEF WorkerTypeOK
<1>6. OverlayIsTimed
  BY NoManualIsManual DEF WorkerInit, OverlayIsTimed
<1>7. MenuShowsOverlay
  BY DEF WorkerInit, MenuShowsOverlay, NoTask
<1> QED
  BY <1>5, <1>6, <1>7 DEF WorkerInit, WorkerInv

\* A step in which one call gets on: what it must see to.
LEMMA TaskSteps ==
  ASSUME WorkerInv, NEW t \in Tasks, NEW k \in Task, task' = [task EXCEPT ![t] = k],
         (k.pc # "none" /\ k.kind = "menu") =>
             (k.pc \in {"icon", "finish"} /\ k.face \notin {"error", "signedOut"}),
         manual'.pending.asked =>
             \/ manual'.timer \/ Watches(k)
             \/ manual' = manual /\ ~Watches(task[t])
  PROVE  task' \in [Tasks -> Task] /\ MenuShowsOverlay' /\ OverlayIsTimed'
<1>1. /\ task' \in [Tasks -> Task] /\ task'[t] = k
      /\ \A u \in Tasks \ {t} : task'[u] = task[u]
  BY TaskPut DEF WorkerInv
<1>2. MenuShowsOverlay'
  BY <1>1 DEF WorkerInv, MenuShowsOverlay
<1>3. ASSUME manual'.pending.asked, ~manual'.timer
      PROVE  \E u \in Tasks : Watches(task'[u])
  <2>1. CASE Watches(k)
    BY <1>1, <2>1
  <2>2. CASE manual' = manual /\ ~Watches(task[t])
    <3>1. PICK u \in Tasks : Watches(task[u])
      BY <1>3, <2>2 DEF WorkerInv, OverlayIsTimed, Watches
    <3> QED
      BY <1>1, <2>2, <3>1
  <2> QED
    BY <1>3, <2>1, <2>2
<1> QED
  BY <1>1, <1>2, <1>3 DEF OverlayIsTimed, Watches

\* A step in which no call does.
LEMMA NoTaskSteps ==
  ASSUME WorkerInv, task' = task,
         manual'.pending.asked => manual'.timer \/ (manual.pending.asked /\ ~manual.timer)
  PROVE  task' \in [Tasks -> Task] /\ MenuShowsOverlay' /\ OverlayIsTimed'
BY DEF WorkerInv, WorkerTypeOK, MenuShowsOverlay, OverlayIsTimed

\* The server's part, and what is left of the type invariant.
ServerOK == running \in BOOLEAN /\ done \in Runs /\ (running => done < MaxPollRuns)
ShownOK ==
    badge \in Faces /\ icon \in Faces /\ asked \in Faces /\ owner \in Tasks \cup {Nobody}
StoredOK == signedIn \in BOOLEAN /\ cache \in MaybeStatus /\ last \in MaybeStatus
LiveOK == live \in LiveState /\ liveEvents \in Seq(Events)
CallsOK ==
    /\ wanted \in BOOLEAN
    /\ trigger \in [Callers -> {"none", "posting", "taken", "started", "refused", "failed"}]
    /\ polls \in 0 .. MaxPolls /\ moves \in 0 .. MaxMoves

LEMMA WorkerInvParts ==
  WorkerInv <=> /\ ServerOK /\ ShownOK /\ StoredOK /\ LiveOK /\ CallsOK
                /\ manual \in Manual /\ task \in [Tasks -> Task]
                /\ MenuShowsOverlay /\ OverlayIsTimed
BY DEF WorkerInv, WorkerTypeOK, ServerOK, ShownOK, StoredOK, LiveOK, CallsOK

LEMMA WorkerInvPartsNext ==
  ASSUME ServerOK', ShownOK', StoredOK', LiveOK', CallsOK', manual' \in Manual,
         task' \in [Tasks -> Task], MenuShowsOverlay', OverlayIsTimed'
  PROVE  WorkerInv'
BY DEF WorkerInv, WorkerTypeOK, ServerOK, ShownOK, StoredOK, LiveOK, CallsOK

\* Applying a state to the toolbar.
LEMMA ShowsHolds ==
  ASSUME NEW t \in Tasks, NEW kind \in TaskKinds, NEW status \in MaybeStatus, NEW face \in Faces,
         ShownOK, Shows(t, kind, status, face)
  PROVE  /\ ShownOK'
         /\ [pc |-> "icon", kind |-> kind, status |-> status, face |-> face] \in Task
         /\ task' = [task EXCEPT ![t] = [pc |-> "icon", kind |-> kind, status |-> status,
                                         face |-> face]]
BY TaskMade DEF Shows, ShownOK

LEMMA NoTaskIsTask == NoTask \in Task /\ NoTask.pc = "none"
BY TaskMade DEF NoTask, TaskKinds, Faces, MaybeStatus

\* The end of a call: a check schedules the next, and no menu's call ends here.
LEMMA EndHolds ==
  ASSUME WorkerInv, NEW t \in Tasks, End(t), task[t].kind # "menu"
  PROVE  /\ manual' \in Manual /\ wanted' \in BOOLEAN
         /\ task' \in [Tasks -> Task] /\ MenuShowsOverlay' /\ OverlayIsTimed'
<1>1. manual \in Manual /\ wanted \in BOOLEAN
  BY DEF WorkerInv, WorkerTypeOK
<1>2. manual' \in Manual
  BY <1>1, ScheduledIsTimed DEF End
<1>3. wanted' \in BOOLEAN
  BY DEF End
<1>4. manual'.pending.asked => manual'.timer \/ (manual' = manual /\ ~Watches(task[t]))
  <2>1. CASE task[t].kind = "check"
    BY <1>1, <2>1, ScheduledIsTimed DEF End
  <2>2. CASE task[t].kind # "check"
    BY <2>2 DEF End, Watches
  <2> QED
    BY <2>1, <2>2
<1>5. task' = [task EXCEPT ![t] = NoTask]
  BY DEF End
<1> QED
  BY <1>2, <1>3, <1>4, <1>5, NoTaskIsTask, TaskSteps

\* A refresh or a check begins, or finds that there is no sign-in.
LEMMA BeginRefreshHolds ==
  ASSUME WorkerInv, NEW t \in Tasks, NEW kind \in {"refresh", "check"}, NEW m \in Manual,
         NEW left \in Seq(Events), kind = "check" \/ m = manual,
         BeginRefresh(t, kind, m, left)
  PROVE  /\ ShownOK' /\ LiveOK' /\ last' \in MaybeStatus /\ manual' \in Manual
         /\ task' \in [Tasks -> Task] /\ MenuShowsOverlay' /\ OverlayIsTimed'
<1>1. ~Watches(task[t])
  BY DEF BeginRefresh, Watches
<1>2. CASE signedIn
  <2> DEFINE k == [pc |-> "fetch", kind |-> kind, status |-> Nothing, face |-> "blank"]
  <2>1. k \in Task
    BY TaskMade DEF TaskKinds, Faces, MaybeStatus
  <2>2. task' = [task EXCEPT ![t] = k]
    BY <1>2 DEF BeginRefresh, Begins, NoTask
  <2>3. k.pc = "fetch" /\ k.kind = kind
    OBVIOUS
  <2> HIDE DEF k
  <2>4. manual' = m /\ (Watches(k) \/ manual' = manual)
    BY <1>2, <2>3 DEF BeginRefresh, Watches
  <2>5. task' \in [Tasks -> Task] /\ MenuShowsOverlay' /\ OverlayIsTimed'
    BY <1>1, <2>1, <2>2, <2>3, <2>4, TaskSteps
  <2>6. ShownOK' /\ LiveOK' /\ last' \in MaybeStatus
    BY <1>2, WorkerInvParts DEF BeginRefresh, shownVars, ShownOK, LiveOK, StoredOK
  <2> QED
    BY <2>4, <2>5, <2>6
<1>3. CASE ~signedIn
  <2> DEFINE k == [pc |-> "icon", kind |-> kind, status |-> Nothing, face |-> "signedOut"]
  <2>1. k \in Task
    BY TaskMade DEF TaskKinds, Faces, MaybeStatus
  <2>2. task' = [task EXCEPT ![t] = k]
    BY <1>3 DEF BeginRefresh, WithoutSignIn, NoTask
  <2>3. k.kind = kind
    OBVIOUS
  <2> HIDE DEF k
  <2>4. manual' = NoManual /\ last' \in MaybeStatus
    BY <1>3 DEF BeginRefresh, WithoutSignIn, MaybeStatus
  <2>5. task' \in [Tasks -> Task] /\ MenuShowsOverlay' /\ OverlayIsTimed'
    BY <2>1, <2>2, <2>3, <2>4, NoManualIsManual, TaskSteps
  <2>6. ShownOK'
    BY <1>3, WorkerInvParts DEF BeginRefresh, WithoutSignIn, ShownOK, Faces
  <2>7. NoStream \in LiveState /\ <<>> \in Seq(Events)
    BY DEF NoStream, LiveState
  <2>8. LiveOK'
    BY <1>3, <2>7 DEF BeginRefresh, WithoutSignIn, LiveOK
  <2> QED
    BY <2>4, <2>5, <2>6, <2>8, NoManualIsManual
<1> QED
  BY <1>2, <1>3

LEMMA SubscribeHolds ==
  ASSUME Subscribe
  PROVE  LiveOK'
<1>1. Opened \in LiveState
  BY DEF Opened, LiveState
<1>2. Snapshot \in Seq(Events)
  BY DEF Snapshot, Events
<1> QED
  BY <1>1, <1>2 DEF Subscribe, LiveOK

LEMMA MoveHolds ==
  ASSUME moves \in 0..MaxMoves, Move
  PROVE  moves' \in 0..MaxMoves
BY LiveBoundsAssumption DEF Move

LEMMA CallsMove ==
  ASSUME CallsOK, moves' \in 0..MaxMoves, wanted' \in BOOLEAN, UNCHANGED polls,
         trigger' \in [Callers -> {"none", "posting", "taken", "started", "refused", "failed"}]
  PROVE  CallsOK'
BY DEF CallsOK

-----------------------------------------------------------------------------
(* The steps of a call. *)

LEMMA FetchHolds ==
  ASSUME WorkerInv, NEW t \in Tasks, FetchStatus(t) \/ FetchFails(t)
  PROVE  WorkerInv'
<1> USE WorkerInvParts
<1>0. task[t] \in Task
  BY DEF WorkerInv, WorkerTypeOK
<1>1. CASE FetchStatus(t)
  <2>1. PICK s \in MaybeStatus : s = [running |-> running, done |-> done]
    BY StatusMade, Zenon DEF ServerOK, MaybeStatus
  <2> DEFINE k == [pc |-> "save", kind |-> task[t].kind, status |-> s, face |-> task[t].face]
  <2>2. k \in Task
    BY <1>0, <2>1, TaskMade, TaskParts
  <2>3. task' = [task EXCEPT ![t] = k]
    <3>1. task' = [task EXCEPT ![t] = [task[t] EXCEPT !.pc = "save", !.status = s]]
      BY <1>1, <2>1 DEF FetchStatus, WorkerInv, WorkerTypeOK
    <3>2. [task[t] EXCEPT !.pc = "save", !.status = s] = k
      BY <1>0, TaskGoesAndChanges
    <3> QED
      BY <3>1, <3>2
  <2>4. task[t].pc = "fetch" /\ manual' = manual
    BY <1>1 DEF FetchStatus
  <2>5. k.pc = "save" /\ k.kind = task[t].kind
    OBVIOUS
  <2> HIDE DEF k
  <2>6. k.kind # "menu" /\ (Watches(task[t]) => Watches(k))
    BY <2>4, <2>5 DEF MenuShowsOverlay, Watches
  <2>7. task' \in [Tasks -> Task] /\ MenuShowsOverlay' /\ OverlayIsTimed'
    BY <2>2, <2>3, <2>4, <2>6, TaskSteps
  <2>8. ServerOK' /\ ShownOK' /\ StoredOK' /\ LiveOK' /\ CallsOK'
    BY <1>1 DEF FetchStatus, serverVars, shownVars, ServerOK, ShownOK, StoredOK, LiveOK, CallsOK
  <2> QED
    BY <2>4, <2>7, <2>8, WorkerInvPartsNext
<1>2. CASE FetchFails(t)
  <2>1. /\ task[t].pc = "fetch" /\ manual' = manual
        /\ Shows(t, task[t].kind, Nothing, "error")
    BY <1>2 DEF FetchFails
  <2> DEFINE k == [pc |-> "icon", kind |-> task[t].kind, status |-> Nothing, face |-> "error"]
  <2> "error" \in Faces /\ Nothing \in MaybeStatus /\ task[t].kind \in TaskKinds
    BY <1>0, TaskParts DEF Faces, MaybeStatus
  <2>2. ShownOK' /\ k \in Task /\ task' = [task EXCEPT ![t] = k]
    BY <2>1, ShowsHolds
  <2>3. k.pc = "icon" /\ k.kind = task[t].kind
    OBVIOUS
  <2> HIDE DEF k
  <2>4. k.kind # "menu" /\ (Watches(task[t]) => Watches(k))
    BY <2>1, <2>3 DEF MenuShowsOverlay, Watches
  <2>5. task' \in [Tasks -> Task] /\ MenuShowsOverlay' /\ OverlayIsTimed'
    BY <2>1, <2>2, <2>4, TaskSteps
  <2>6. moves' \in 0..MaxMoves
    BY <1>2, MoveHolds DEF FetchFails, CallsOK
  <2>7. ServerOK' /\ StoredOK' /\ LiveOK' /\ CallsOK'
    BY <1>2, <2>6, CallsMove
    DEF FetchFails, serverVars, ServerOK, StoredOK, LiveOK, CallsOK
  <2> QED
    BY <2>1, <2>2, <2>5, <2>7, WorkerInvPartsNext
<1> QED
  BY <1>1, <1>2

LEMMA SaveHolds ==
  ASSUME WorkerInv, NEW t \in Tasks, SaveCachedStatus(t)
  PROVE  WorkerInv'
<1> USE WorkerInvParts
<1> DEFINE s == Overlaid(manual, task[t].status)
<1>1. task[t] \in Task
  BY DEF WorkerInv, WorkerTypeOK
<1>2. s \in MaybeStatus
  BY <1>1, TaskParts, OverlaidStatus
<1> HIDE DEF s
<1>3. /\ task[t].pc = "save" /\ cache' = s /\ Shows(t, task[t].kind, s, Face(s))
      /\ manual' \in {manual, NoManual}
  BY AfterOverlayKeeps DEF SaveCachedStatus, s
<1> DEFINE k == [pc |-> "icon", kind |-> task[t].kind, status |-> s, face |-> Face(s)]
<1>4. ShownOK' /\ k \in Task /\ task' = [task EXCEPT ![t] = k]
  BY <1>1, <1>2, <1>3, TaskParts, ShowsHolds, FaceOfStatus
<1>5. k.pc = "icon" /\ k.kind = task[t].kind
  OBVIOUS
<1> HIDE DEF k
<1>6. k.kind # "menu" /\ (Watches(task[t]) => Watches(k))
  BY <1>3, <1>5 DEF MenuShowsOverlay, Watches
<1>7. manual' \in Manual /\ (manual'.pending.asked => manual' = manual)
  BY <1>3, NoManualIsManual
<1>8. task' \in [Tasks -> Task] /\ MenuShowsOverlay' /\ OverlayIsTimed'
  BY <1>4, <1>6, <1>7, TaskSteps
<1>9. ServerOK' /\ StoredOK' /\ LiveOK' /\ CallsOK'
  BY <1>2, <1>3 DEF SaveCachedStatus, serverVars, ServerOK, StoredOK, LiveOK, CallsOK
<1> QED
  BY <1>4, <1>7, <1>8, <1>9, WorkerInvPartsNext

LEMMA SetIconHolds ==
  ASSUME WorkerInv, NEW t \in Tasks, SetIcon(t)
  PROVE  WorkerInv'
<1> USE WorkerInvParts
<1>1. task[t] \in Task /\ task[t].pc = "icon"
  BY DEF SetIcon, WorkerInv, WorkerTypeOK
<1>2. ServerOK' /\ StoredOK' /\ LiveOK'
  BY DEF SetIcon, serverVars, ServerOK, StoredOK, LiveOK
<1>3. ShownOK'
  BY <1>1, TaskParts DEF SetIcon, ShownOK
<1>4. CASE task[t].face \in {"signedOut", "error"} \/ task[t].kind \in {"overlay", "popup"}
  <2>1. End(t)
    BY <1>4 DEF SetIcon
  <2>2. task[t].kind # "menu"
    BY <1>1, <1>4 DEF MenuShowsOverlay
  <2>3. /\ manual' \in Manual /\ wanted' \in BOOLEAN
        /\ task' \in [Tasks -> Task] /\ MenuShowsOverlay' /\ OverlayIsTimed'
    BY <2>1, <2>2, EndHolds
  <2>4. CallsOK'
    BY <2>3 DEF SetIcon, CallsOK
  <2> QED
    BY <1>2, <1>3, <2>3, <2>4, WorkerInvPartsNext
<1>5. CASE ~(task[t].face \in {"signedOut", "error"} \/ task[t].kind \in {"overlay", "popup"})
  <2> DEFINE k == [pc |-> "finish", kind |-> task[t].kind, status |-> task[t].status,
                   face |-> "blank"]
  <2>1. k \in Task
    BY <1>1, TaskMade, TaskParts DEF Faces
  <2>2. task' = [task EXCEPT ![t] = k]
    <3>1. task' = [task EXCEPT ![t] = [task[t] EXCEPT !.pc = "finish", !.face = "blank"]]
      BY <1>5 DEF SetIcon, WorkerInv, WorkerTypeOK
    <3>2. [task[t] EXCEPT !.pc = "finish", !.face = "blank"] = k
      BY <1>1, TaskGoesAndFaces
    <3> QED
      BY <3>1, <3>2
  <2>3. k.pc = "finish" /\ k.kind = task[t].kind /\ k.face = "blank"
    OBVIOUS
  <2> HIDE DEF k
  <2>4. manual' = manual /\ wanted' = wanted
    BY <1>5 DEF SetIcon
  <2>5. Watches(task[t]) => Watches(k)
    BY <2>3 DEF Watches
  <2>6. task' \in [Tasks -> Task] /\ MenuShowsOverlay' /\ OverlayIsTimed'
    BY <2>1, <2>2, <2>3, <2>4, <2>5, TaskSteps
  <2>7. CallsOK'
    BY <2>4 DEF SetIcon, CallsOK
  <2> QED
    BY <1>2, <1>3, <2>4, <2>6, <2>7, WorkerInvPartsNext
<1> QED
  BY <1>4, <1>5

LEMMA NotifyHolds ==
  ASSUME WorkerInv, NEW t \in Tasks, Notify(t)
  PROVE  WorkerInv'
<1> USE WorkerInvParts
<1>1. task[t] \in Task /\ task[t].pc = "finish" /\ task[t].kind # "menu"
  BY DEF Notify, ManualPollIsOver, Fetched, WorkerInv, WorkerTypeOK
<1> DEFINE k == [pc |-> "notified", kind |-> task[t].kind, status |-> task[t].status,
                 face |-> task[t].face]
<1>2. k \in Task
  BY <1>1, TaskMade, TaskParts
<1>3. task' = [task EXCEPT ![t] = k]
  <2>1. task' = [task EXCEPT ![t] = [task[t] EXCEPT !.pc = "notified"]]
    BY DEF Notify, Goes, WorkerInv, WorkerTypeOK
  <2>2. [task[t] EXCEPT !.pc = "notified"] = k
    BY <1>1 DEF Task
  <2> QED
    BY <2>1, <2>2
<1>4. k.pc = "notified" /\ k.kind = task[t].kind
  OBVIOUS
<1> HIDE DEF k
<1>5. Watches(task[t]) => Watches(k)
  BY <1>4 DEF Watches
<1>6. manual' = manual
  BY DEF Notify
<1>7. task' \in [Tasks -> Task] /\ MenuShowsOverlay' /\ OverlayIsTimed'
  BY <1>1, <1>2, <1>3, <1>4, <1>5, <1>6, TaskSteps
<1>8. ServerOK' /\ ShownOK' /\ StoredOK' /\ LiveOK' /\ CallsOK'
  BY DEF Notify, serverVars, shownVars, ServerOK, ShownOK, StoredOK, LiveOK, CallsOK
<1> QED
  BY <1>6, <1>7, <1>8, WorkerInvPartsNext

LEMMA FinishHolds ==
  ASSUME WorkerInv, NEW t \in Tasks, FinishRefresh(t) \/ FinishMenu(t)
  PROVE  WorkerInv'
<1> USE WorkerInvParts
<1>1. task[t] \in Task
  BY DEF WorkerInv, WorkerTypeOK
<1>2. CASE FinishRefresh(t)
  <2>1. PICK left \in {manual, NoManual} :
            /\ manual' = IF task[t].kind = "check" THEN Scheduled(left) ELSE left
            /\ wanted' = (wanted \/ (task[t].kind = "check" /\ Exhausted(left)))
    BY <1>2, Zenon DEF FinishRefresh
  <2>2. left \in Manual /\ (left.pending.asked => left = manual)
    BY <2>1, NoManualIsManual
  <2>3. manual' \in Manual
    BY <2>1, <2>2, ScheduledIsTimed
  <2>4. manual'.pending.asked => manual'.timer \/ (manual' = manual /\ ~Watches(task[t]))
    <3>1. CASE task[t].kind = "check"
      BY <2>1, <2>2, <3>1, ScheduledIsTimed
    <3>2. CASE task[t].kind # "check"
      BY <1>2, <2>1, <2>2, <3>2 DEF FinishRefresh, Fetched, Watches
    <3> QED
      BY <3>1, <3>2
  <2>5. task' \in [Tasks -> Task] /\ MenuShowsOverlay' /\ OverlayIsTimed'
    <3>1. task' = [task EXCEPT ![t] = NoTask]
      BY <1>2 DEF FinishRefresh
    <3> QED
      BY <2>4, <3>1, NoTaskIsTask, TaskSteps
  <2>6. LiveOK'
    BY <1>2, SubscribeHolds DEF FinishRefresh, EnsureLiveSubscription, LiveOK
  <2>7. StoredOK'
    BY <1>1, <1>2, TaskParts DEF FinishRefresh, StoredOK
  <2>8. wanted' \in BOOLEAN
    BY <2>1
  <2>9. ServerOK' /\ ShownOK' /\ CallsOK'
    BY <1>2, <2>8 DEF FinishRefresh, serverVars, shownVars, ServerOK, ShownOK, CallsOK
  <2> QED
    BY <2>3, <2>5, <2>6, <2>7, <2>9, WorkerInvPartsNext
<1>3. CASE FinishMenu(t)
  <2>1. manual' = Scheduled(manual) /\ task' = [task EXCEPT ![t] = NoTask]
    BY <1>3 DEF FinishMenu
  <2>2. manual' \in Manual /\ (manual'.pending.asked => manual'.timer)
    BY <2>1, ScheduledIsTimed
  <2>3. task' \in [Tasks -> Task] /\ MenuShowsOverlay' /\ OverlayIsTimed'
    BY <2>1, <2>2, NoTaskIsTask, TaskSteps
  <2>4. wanted' \in BOOLEAN
    BY <1>3 DEF FinishMenu
  <2>5. trigger' \in [Callers -> {"none", "posting", "taken", "started", "refused", "failed"}]
    BY <1>3 DEF FinishMenu, CallsOK
  <2>6. CallsOK'
    BY <1>3, <2>4, <2>5 DEF FinishMenu, CallsOK
  <2>7. ServerOK' /\ ShownOK' /\ StoredOK' /\ LiveOK'
    BY <1>3 DEF FinishMenu, serverVars, shownVars, ServerOK, ShownOK, StoredOK, LiveOK
  <2> QED
    BY <2>2, <2>3, <2>6, <2>7, WorkerInvPartsNext
<1> QED
  BY <1>2, <1>3

-----------------------------------------------------------------------------
(* Calls that begin. *)

LEMMA RefreshBegins ==
  ASSUME WorkerInv, NEW t \in Tasks, Alarm(t) \/ WantedRefresh(t)
  PROVE  WorkerInv'
<1> USE WorkerInvParts
<1>1. BeginRefresh(t, "refresh", manual, liveEvents) /\ liveEvents \in Seq(Events)
  BY DEF Alarm, WantedRefresh, LiveOK
<1>2. /\ ShownOK' /\ LiveOK' /\ last' \in MaybeStatus /\ manual' \in Manual
      /\ task' \in [Tasks -> Task] /\ MenuShowsOverlay' /\ OverlayIsTimed'
  BY <1>1, BeginRefreshHolds
<1>3. wanted' \in BOOLEAN
  BY DEF Alarm, WantedRefresh, CallsOK
<1>4. CallsOK'
  BY <1>3 DEF Alarm, WantedRefresh, CallsOK
<1>5. ServerOK' /\ StoredOK'
  BY <1>2 DEF Alarm, WantedRefresh, serverVars, ServerOK, StoredOK
<1> QED
  BY <1>2, <1>4, <1>5, WorkerInvPartsNext

LEMMA CheckBegins ==
  ASSUME WorkerInv, NEW t \in Tasks, CheckManualPoll(t)
  PROVE  WorkerInv'
<1> USE WorkerInvParts
<1> DEFINE m == [manual EXCEPT !.timer = FALSE]
<1>1. m \in Manual
  BY Zenon DEF Manual
<1> HIDE DEF m
<1>2. BeginRefresh(t, "check", m, liveEvents) /\ liveEvents \in Seq(Events)
  BY DEF CheckManualPoll, LiveOK, m
<1>3. /\ ShownOK' /\ LiveOK' /\ last' \in MaybeStatus /\ manual' \in Manual
      /\ task' \in [Tasks -> Task] /\ MenuShowsOverlay' /\ OverlayIsTimed'
  BY <1>1, <1>2, BeginRefreshHolds
<1>4. ServerOK' /\ StoredOK' /\ CallsOK'
  BY <1>3 DEF CheckManualPoll, serverVars, ServerOK, StoredOK, CallsOK
<1> QED
  BY <1>3, <1>4, WorkerInvPartsNext

LEMMA LiveEventHolds ==
  ASSUME WorkerInv, NEW t \in Tasks, HandleLiveEvent(t)
  PROVE  WorkerInv'
<1> USE WorkerInvParts
<1>1. Tail(liveEvents) \in Seq(Events)
  BY DEF HandleLiveEvent, LiveOK
<1>2. ServerOK' /\ CallsOK'
  BY DEF HandleLiveEvent, serverVars, ServerOK, CallsOK
<1>3. CASE Head(liveEvents) = "finished" \/ cache = Nothing
  <2>1. BeginRefresh(t, "refresh", manual, Tail(liveEvents)) /\ cache' = cache
    BY <1>3 DEF HandleLiveEvent
  <2>2. /\ ShownOK' /\ LiveOK' /\ last' \in MaybeStatus /\ manual' \in Manual
        /\ task' \in [Tasks -> Task] /\ MenuShowsOverlay' /\ OverlayIsTimed'
    BY <1>1, <2>1, BeginRefreshHolds
  <2>3. StoredOK'
    BY <2>1, <2>2 DEF HandleLiveEvent, StoredOK
  <2> QED
    BY <1>2, <2>2, <2>3, WorkerInvPartsNext
<1>4. CASE ~(Head(liveEvents) = "finished" \/ cache = Nothing)
  <2> DEFINE merged == [cache EXCEPT !.running = TRUE]
  <2>1. merged \in MaybeStatus
    <3>1. cache \in Status
      BY <1>4 DEF StoredOK, MaybeStatus
    <3>2. merged \in Status
      BY <3>1, Zenon DEF Status
    <3> QED
      BY <3>2 DEF MaybeStatus
  <2> HIDE DEF merged
  <2>2. /\ cache' = merged /\ liveEvents' = Tail(liveEvents)
        /\ Shows(t, "overlay", merged, Face(merged))
        /\ UNCHANGED <<last, manual, live>> /\ task[t].pc = "none"
    BY <1>4 DEF HandleLiveEvent, merged
  <2> DEFINE k == [pc |-> "icon", kind |-> "overlay", status |-> merged, face |-> Face(merged)]
  <2>3. "overlay" \in TaskKinds
    BY DEF TaskKinds
  <2>4. ShownOK' /\ k \in Task /\ task' = [task EXCEPT ![t] = k]
    BY <2>1, <2>2, <2>3, ShowsHolds, FaceOfStatus
  <2>5. k.kind = "overlay"
    OBVIOUS
  <2> HIDE DEF k
  <2>6. task' \in [Tasks -> Task] /\ MenuShowsOverlay' /\ OverlayIsTimed'
    BY <2>2, <2>4, <2>5, TaskSteps DEF Watches
  <2>7. StoredOK' /\ LiveOK'
    BY <1>1, <2>1, <2>2 DEF HandleLiveEvent, StoredOK, LiveOK
  <2> QED
    BY <1>2, <2>2, <2>4, <2>6, <2>7, WorkerInvPartsNext
<1> QED
  BY <1>3, <1>4

\* The popup's poll has its timer at once, the menu's a call that will set it.
LEMMA TriggerHolds ==
  ASSUME WorkerInv, NEW c \in Callers, NEW t \in Tasks, TriggerManualPoll(c, t)
  PROVE  WorkerInv'
<1> USE WorkerInvParts
<1> DEFINE base == IF last # Nothing THEN last ELSE cache
           primed == Overlaid(manual', base)
<1>1. c \in {"popup", "menu"} /\ c \in TaskKinds /\ task[t].pc = "none"
  BY DEF Callers, TaskKinds, TriggerManualPoll
<1>2. Asked(manual) \in Manual
  BY AskedIsManual DEF StoredOK
<1>3. manual' \in Manual /\ (c = "popup" /\ manual'.pending.asked => manual'.timer)
  <2>1. manual' = IF c = "popup" THEN Scheduled(Asked(manual)) ELSE Asked(manual)
    BY <1>1 DEF TriggerManualPoll
  <2> QED
    BY <1>2, <2>1, ScheduledIsTimed
<1>4. CallsOK'
  <2>1. wanted' \in BOOLEAN
    BY <1>1, Zenon DEF TriggerManualPoll, CallsOK
  <2>2. trigger' \in [Callers -> {"none", "posting", "taken", "started", "refused", "failed"}]
    BY <1>1 DEF TriggerManualPoll, CallsOK
  <2>3. polls' \in 0..MaxPolls /\ moves' \in 0..MaxMoves
    <3>1. polls < MaxPolls /\ polls' = polls + 1 /\ moves' = moves
      BY DEF TriggerManualPoll
    <3>2. polls \in 0..MaxPolls /\ moves \in 0..MaxMoves
      BY DEF CallsOK
    <3> QED
      BY <3>1, <3>2, LiveBoundsAssumption
  <2> QED
    BY <2>1, <2>2, <2>3 DEF CallsOK
<1>5. ServerOK' /\ LiveOK'
  BY DEF TriggerManualPoll, serverVars, ServerOK, LiveOK
<1>6. base \in MaybeStatus
  BY DEF StoredOK
<1>7. primed \in MaybeStatus
  BY <1>3, <1>6, OverlaidStatus
<1>8. CASE base # Nothing
  <2>1. cache' = primed /\ Shows(t, c, primed, Face(primed))
    BY <1>8 DEF TriggerManualPoll
  <2>2. signedIn' = signedIn /\ last' = last
    BY DEF TriggerManualPoll
  <2>3. StoredOK'
    BY <1>7, <2>1, <2>2 DEF StoredOK
  <2> HIDE DEF primed
  <2> DEFINE k == [pc |-> "icon", kind |-> c, status |-> primed, face |-> Face(primed)]
  <2>4. ShownOK' /\ k \in Task /\ task' = [task EXCEPT ![t] = k]
    BY <1>1, <1>7, <2>1, ShowsHolds, FaceOfStatus
  <2>5. k.kind = c /\ k.pc = "icon" /\ k.face \notin {"error", "signedOut"}
    BY FaceOfStatus
  <2> HIDE DEF k
  <2>6. manual'.pending.asked => manual'.timer \/ Watches(k)
    BY <1>1, <1>3, <2>5 DEF Watches
  <2>7. task' \in [Tasks -> Task] /\ MenuShowsOverlay' /\ OverlayIsTimed'
    BY <2>4, <2>5, <2>6, TaskSteps
  <2> QED
    BY <1>3, <1>4, <1>5, <2>3, <2>4, <2>7, WorkerInvPartsNext
<1>9. CASE base = Nothing
  <2>1. ShownOK' /\ StoredOK'
    BY <1>9 DEF TriggerManualPoll, shownVars, ShownOK, StoredOK
  <2>2. task' \in [Tasks -> Task] /\ MenuShowsOverlay' /\ OverlayIsTimed'
    <3>1. CASE c = "menu"
      <4> DEFINE k == [pc |-> "finish", kind |-> "menu", status |-> Nothing, face |-> "blank"]
      <4>1. k \in Task
        BY TaskMade DEF TaskKinds, Faces, MaybeStatus
      <4>2. task' = [task EXCEPT ![t] = k]
        BY <1>9, <3>1 DEF TriggerManualPoll, Begins, NoTask
      <4>3. k.pc = "finish" /\ k.kind = "menu" /\ k.face = "blank"
        OBVIOUS
      <4> HIDE DEF k
      <4> QED
        BY <4>1, <4>2, <4>3, TaskSteps DEF Watches
    <3>2. CASE c # "menu"
      <4>1. task' = task /\ (manual'.pending.asked => manual'.timer)
        BY <1>1, <1>3, <1>9, <3>2 DEF TriggerManualPoll
      <4> QED
        BY <4>1, NoTaskSteps
    <3> QED
      BY <3>1, <3>2
  <2> QED
    BY <1>3, <1>4, <1>5, <2>1, <2>2, WorkerInvPartsNext
<1> QED
  BY <1>8, <1>9

-----------------------------------------------------------------------------
(* Calls that return, and what comes unasked. *)

LEMMA ReturnsHold ==
  ASSUME WorkerInv, NEW c \in Callers, TriggerReturned(c) \/ TriggerCancelled(c)
  PROVE  WorkerInv'
<1> USE WorkerInvParts
<1>1. manual' \in Manual
  <2>1. [manual EXCEPT !.pending.returned = TRUE] \in Manual
    BY Zenon DEF Manual, Pending
  <2> QED
    BY <2>1, NoManualIsManual DEF TriggerReturned, TriggerCancelled
<1>2. manual'.pending.asked => manual'.timer \/ (manual.pending.asked /\ ~manual.timer)
  <2>1. [manual EXCEPT !.pending.returned = TRUE].timer = manual.timer
    BY DEF Manual, Pending
  <2>2. [manual EXCEPT !.pending.returned = TRUE].pending.asked = manual.pending.asked
    BY DEF Manual, Pending
  <2> QED
    BY <2>1, <2>2, NoManualIsManual DEF TriggerReturned, TriggerCancelled
<1>3. task' = task
  BY DEF TriggerReturned, TriggerCancelled
<1>4. task' \in [Tasks -> Task] /\ MenuShowsOverlay' /\ OverlayIsTimed'
  BY <1>2, <1>3, NoTaskSteps
<1>5. CallsOK'
  <2>1. trigger' \in [Callers -> {"none", "posting", "taken", "started", "refused", "failed"}]
    BY DEF TriggerReturned, TriggerCancelled, CallsOK
  <2>2. wanted' \in BOOLEAN /\ UNCHANGED <<polls, moves>>
    BY DEF TriggerReturned, TriggerCancelled, CallsOK
  <2> QED
    BY <2>1, <2>2 DEF CallsOK
<1>6. ServerOK' /\ ShownOK' /\ StoredOK' /\ LiveOK'
  BY DEF TriggerReturned, TriggerCancelled, serverVars, shownVars, ServerOK, ShownOK, StoredOK,
         LiveOK
<1> QED
  BY <1>1, <1>4, <1>5, <1>6, WorkerInvPartsNext

LEMMA ServerHolds ==
  ASSUME WorkerInv,
         PollRunStarts \/ RunFinishes \/ \E c \in Callers : TakeTrigger(c)
  PROVE  WorkerInv'
<1> USE WorkerInvParts
<1>1. manual' = manual /\ task' = task
  BY DEF PollRunStarts, RunFinishes, TakeTrigger
<1>2. task' \in [Tasks -> Task] /\ MenuShowsOverlay' /\ OverlayIsTimed'
  BY <1>1, NoTaskSteps
<1>3. ShownOK' /\ StoredOK'
  BY DEF PollRunStarts, RunFinishes, TakeTrigger, shownVars, ShownOK, StoredOK
<1>4. ASSUME NEW e \in Events, Publish(e)
      PROVE  liveEvents' \in Seq(Events)
  BY <1>4 DEF Publish, LiveOK
<1>5. LiveOK'
  BY <1>4 DEF PollRunStarts, RunFinishes, TakeTrigger, LiveOK, Events
<1>6. ServerOK'
  <2>1. running' \in BOOLEAN
    BY DEF PollRunStarts, RunFinishes, TakeTrigger, ServerOK
  <2>2. done' \in Runs /\ (running' => done' < MaxPollRuns)
    BY LiveBoundsAssumption
       DEF PollRunStarts, RunFinishes, TakeTrigger, CanRun, ServerOK, Runs
  <2> QED
    BY <2>1, <2>2 DEF ServerOK
<1>7. CallsOK'
  <2>1. wanted' = wanted /\ polls' = polls
    BY DEF PollRunStarts, RunFinishes, TakeTrigger
  <2>2. moves' \in 0..MaxMoves
    BY MoveHolds DEF PollRunStarts, RunFinishes, TakeTrigger, CallsOK
  <2>3. trigger' \in [Callers -> {"none", "posting", "taken", "started", "refused", "failed"}]
    BY DEF PollRunStarts, RunFinishes, TakeTrigger, CallsOK
  <2> QED
    BY <2>1, <2>2, <2>3 DEF CallsOK
<1> QED
  BY <1>1, <1>2, <1>3, <1>5, <1>6, <1>7, WorkerInvPartsNext

LEMMA StreamHolds ==
  ASSUME WorkerInv, StreamEnds \/ Reconnect \/ StreamTimesOut \/ TokenRotates
  PROVE  WorkerInv'
<1> USE WorkerInvParts
<1>1. manual' = manual /\ task' = task
  BY DEF StreamEnds, Reconnect, StreamTimesOut, TokenRotates
<1>2. task' \in [Tasks -> Task] /\ MenuShowsOverlay' /\ OverlayIsTimed'
  BY <1>1, NoTaskSteps
<1>3. ServerOK' /\ ShownOK' /\ StoredOK'
  BY DEF StreamEnds, Reconnect, StreamTimesOut, TokenRotates, serverVars, shownVars,
         ServerOK, ShownOK, StoredOK
<1>4. moves' \in 0..MaxMoves
  BY MoveHolds DEF StreamEnds, Reconnect, StreamTimesOut, TokenRotates, CallsOK
<1>5. CallsOK'
  BY <1>4, CallsMove DEF StreamEnds, Reconnect, StreamTimesOut, TokenRotates, CallsOK
<1>6. LiveOK'
  <2>1. \A retry \in BOOLEAN : [NoStream EXCEPT !.retry = retry] \in LiveState
    BY Zenon DEF NoStream, LiveState
  <2>2. NoStream \in LiveState /\ <<>> \in Seq(Events)
    BY DEF NoStream, LiveState
  <2>3. [live EXCEPT !.stream = "silent"] \in LiveState
    BY DEF LiveOK, LiveState
  <2>4. [live EXCEPT !.current = FALSE] \in LiveState
    BY Zenon DEF LiveOK, LiveState
  <2>5. CASE StreamEnds
    BY <2>1, <2>2, <2>5 DEF StreamEnds, LiveOK
  <2>6. CASE Reconnect
    BY <2>2, <2>6, SubscribeHolds DEF Reconnect, LiveOK
  <2>7. CASE StreamTimesOut
    BY <2>2, <2>3, <2>7 DEF StreamTimesOut, LiveOK
  <2>8. CASE TokenRotates
    BY <2>4, <2>8 DEF TokenRotates, LiveOK
  <2> QED
    BY <2>5, <2>6, <2>7, <2>8
<1> QED
  BY <1>1, <1>2, <1>3, <1>5, <1>6, WorkerInvPartsNext

LEMMA UserHolds ==
  ASSUME WorkerInv,
         PopupCloses \/ SignInOrOut \/ \E c \in Callers : TriggerTimesOut(c)
  PROVE  WorkerInv'
<1> USE WorkerInvParts
<1>1. manual' = manual /\ task' = task
  BY DEF PopupCloses, SignInOrOut, TriggerTimesOut
<1>2. task' \in [Tasks -> Task] /\ MenuShowsOverlay' /\ OverlayIsTimed'
  BY <1>1, NoTaskSteps
<1>3. ServerOK' /\ ShownOK' /\ StoredOK' /\ LiveOK'
  <2>1. signedIn' \in BOOLEAN /\ UNCHANGED <<cache, last>>
    BY DEF PopupCloses, SignInOrOut, TriggerTimesOut, StoredOK
  <2>2. UNCHANGED <<serverVars, shownVars, live, liveEvents>>
    BY DEF PopupCloses, SignInOrOut, TriggerTimesOut
  <2> QED
    BY <2>1, <2>2 DEF serverVars, shownVars, ServerOK, ShownOK, StoredOK, LiveOK
<1>4. CallsOK'
  <2>1. wanted' \in BOOLEAN /\ polls' = polls
    BY DEF PopupCloses, SignInOrOut, TriggerTimesOut, CallsOK
  <2>2. moves' \in 0..MaxMoves
    BY MoveHolds DEF PopupCloses, SignInOrOut, TriggerTimesOut, CallsOK
  <2>3. trigger' \in [Callers -> {"none", "posting", "taken", "started", "refused", "failed"}]
    BY DEF PopupCloses, SignInOrOut, TriggerTimesOut, CallsOK
  <2> QED
    BY <2>1, <2>2, <2>3 DEF CallsOK
<1> QED
  BY <1>1, <1>2, <1>3, <1>4, WorkerInvPartsNext

\* A worker that starts again remembers neither a pending poll nor a call.
LEMMA RestartHolds ==
  ASSUME WorkerInv, WorkerRestarts
  PROVE  WorkerInv'
<1> USE WorkerInvParts
<1>1. task' = [t \in Tasks |-> NoTask] /\ manual' = NoManual
  BY DEF WorkerRestarts
<1>2. task' \in [Tasks -> Task] /\ MenuShowsOverlay' /\ OverlayIsTimed'
  BY <1>1, NoTaskIsTask, NoManualIsManual DEF MenuShowsOverlay, OverlayIsTimed
<1>3. ServerOK' /\ ShownOK' /\ StoredOK'
  BY DEF WorkerRestarts, serverVars, ServerOK, ShownOK, StoredOK, MaybeStatus
<1>4. LiveOK'
  <2>1. NoStream \in LiveState /\ <<>> \in Seq(Events)
    BY DEF NoStream, LiveState
  <2> QED
    BY <2>1, SubscribeHolds DEF WorkerRestarts, LiveOK
<1>5. CallsOK'
  <2>1. moves' \in 0..MaxMoves
    BY MoveHolds DEF WorkerRestarts, CallsOK
  <2>2. wanted' = FALSE /\ polls' = polls
    BY DEF WorkerRestarts
  <2>3. trigger' \in [Callers -> {"none", "posting", "taken", "started", "refused", "failed"}]
    BY DEF WorkerRestarts, CallsOK
  <2> QED
    BY <2>1, <2>2, <2>3 DEF CallsOK
<1> QED
  BY <1>1, <1>2, <1>3, <1>4, <1>5, NoManualIsManual, WorkerInvPartsNext

LEMMA WorkerInvNext == WorkerInv /\ [WorkerNext]_workerVars => WorkerInv'
<1> SUFFICES ASSUME WorkerInv, [WorkerNext]_workerVars
             PROVE  WorkerInv'
  OBVIOUS
<1>1. CASE UNCHANGED workerVars
  <2>1. manual' = manual /\ task' = task
    BY <1>1 DEF workerVars
  <2>2. /\ ServerOK /\ ShownOK /\ StoredOK /\ LiveOK /\ CallsOK /\ manual \in Manual
    BY WorkerInvParts
  <2>3. ServerOK' /\ ShownOK' /\ StoredOK' /\ LiveOK' /\ CallsOK'
    BY <1>1, <2>2 DEF workerVars, serverVars, shownVars, ServerOK, ShownOK, StoredOK, LiveOK,
                      CallsOK
  <2> QED
    BY <2>1, <2>2, <2>3, NoTaskSteps, WorkerInvPartsNext
<1> QED
  BY <1>1, FetchHolds, SaveHolds, SetIconHolds, NotifyHolds, FinishHolds, RefreshBegins,
     CheckBegins, LiveEventHolds, TriggerHolds, ReturnsHold, ServerHolds, StreamHolds,
     UserHolds, RestartHolds
  DEF WorkerNext, TaskStep, CallStep

\* A running indicator that the extension lays over the status is always about to
\* be looked at again (primePendingManualPollOverlay,
\* schedulePendingManualPollCheck, refreshBadgeFromServer), however the calls of
\* the worker, the popup's and the menu's interleave.
THEOREM OverlayAlwaysTimed == WorkerSpec => []OverlayIsTimed
<1>1. WorkerInv => OverlayIsTimed
  BY DEF WorkerInv
<1> QED
  BY WorkerInitHolds, WorkerInvNext, <1>1, PTL DEF WorkerSpec

\* The worker's variables stay of their types.
THEOREM WorkerTypeCorrect == WorkerSpec => []WorkerTypeOK
<1>1. WorkerInv => WorkerTypeOK
  BY DEF WorkerInv
<1> QED
  BY WorkerInitHolds, WorkerInvNext, <1>1, PTL DEF WorkerSpec

=============================================================================
