----------------------------- MODULE AIRunEvents -----------------------------
(***************************************************************************)
(* How the chat panel follows one AI run.  The backend appends the run's   *)
(* events to a durable ledger and announces each over the Wails runtime,   *)
(* which is best effort.  useAIChatRunEventSubscription.ts projects the    *)
(* announcements into the chat, fills gaps by reading the ledger, polls    *)
(* the ledger while the run is active, and starts over (bootstrap and      *)
(* replay) whenever the panel or its set of tracked runs changes.          *)
(*                                                                         *)
(* JavaScript is single-threaded: a step is the code between two awaits.   *)
(* Texts are sequences of the numbers of the model_delta events they are   *)
(* made of, so that what is repeated, lost or reordered can be seen.       *)
(***************************************************************************)
EXTENDS Naturals, Sequences, FiniteSets, SequencesExt

CONSTANTS
    None,         \* no message, no read in flight, no replay
    MaxEvents,    \* bound: events of the run
    PageSize,     \* events one AIReadAgentRun answers (500 in the code)
    MaxOpens,     \* bound: reopenings of the panel and reloads of the frontend
    MaxLag        \* bound: how late an announcement of the run's loop may be, in events

ASSUME AIRunEventsAssumption ==
    {MaxEvents, PageSize, MaxOpens, MaxLag} \subseteq Nat /\ PageSize > 0

VARIABLES
    log,        \* the run's events in the ledger
    sent,       \* the events whose announcement is neither delivered nor lost
    ui,         \* tracker, projectedRuns, the chat rows and the subscription
    boot,       \* bootstrapSession in flight: length of the log when asked
    receipt,    \* the answer to SubmitInput is still on its way
    opens

vars == <<log, sent, ui, boot, receipt, opens>>

Failures == {"failed", "exhausted"}
Ends  == {"completed", "canceled"} \cup Failures
\* "turn": model_completed; "wait": an event that leaves the run waiting for the
\* user; "tool": one that leaves it at work; "error": run_error; "canceling": the
\* checkpoint before the end of a cancelled run; an end: the terminal event.
Kinds == {"input", "delta", "turn", "wait", "tool", "error", "canceling"} \cup Ends

Rows == {"durable", "transient"}
Text == Seq(1..MaxEvents)
Row  == [loading : BOOLEAN, text : Text]
Read == [replay : BOOLEAN, after : 0..MaxEvents, asked : 0..MaxEvents]
Replay == [durable : 0..MaxEvents, turns : SUBSET (1..MaxEvents), held : Text, live : BOOLEAN]

ASSUME NoneIsNothingElse == None \notin Rows \cup Row \cup Read \cup Replay

-----------------------------------------------------------------------------
(* The ledger.                                                             *)

\* What may follow what.  An error event is one the run gets over (emitError) or
\* the first half of failRun; a truncated turn is continued by another one.
First == {"input", "canceling"}
After(kind) ==
    CASE kind = "input"     -> {"delta", "error", "exhausted", "canceling"}
      [] kind = "delta"     -> {"delta", "turn", "error", "exhausted", "canceling"}
      [] kind = "turn"      -> {"delta", "wait", "tool", "error", "completed", "exhausted",
                                "canceling"}
      [] kind = "wait"      -> {"tool", "failed", "canceling"}
      [] kind = "tool"      -> {"delta", "wait", "tool", "error", "exhausted", "canceling"}
      [] kind = "error"     -> {"delta", "tool", "error", "failed", "exhausted", "canceling"}
      [] kind = "canceling" -> {"canceled"}
      [] OTHER              -> {}

\* isAIRunReconciliationState, isAIRunTerminalState of the run after n events
StateAt(n) ==
    IF n = 0 THEN "active"
    ELSE IF log[n] \in Ends THEN log[n]
    ELSE IF log[n] = "wait" THEN "waiting" ELSE "active"

\* The event whose text the end of a failed run carries as its reason: failRun
\* writes one message into an error event and into the end, at once; exhaustion
\* and an aborted recovery have a reason of their own.
Cause ==
    LET n == Len(log) IN
    IF n > 1 /\ log[n] = "failed" /\ log[n - 1] = "error" THEN n - 1 ELSE n

\* The deltas since the model was last called: the text of a completed turn.
TurnText(n) ==
    LET first == CHOOSE m \in 1..n : /\ \A i \in m..(n - 1) : log[i] = "delta"
                                     /\ m = 1 \/ log[m - 1] # "delta"
    IN  [i \in 1..(n - first) |-> first + i - 1]

TurnsAt(n) == {i \in 1..n : log[i] = "turn"}

\* What is left of s when Step(_, i) has been taken for i = 1, ..., n.
Steps(Step(_, _), s, n) ==
    LET after[i \in 0..n] == IF i = 0 THEN s ELSE Step(after[i - 1], i) IN after[n]

\* toAIChatMessages: all durable turns of a run are one message.
DurableText(n) ==
    Steps(LAMBDA t, i : IF i \in TurnsAt(n) THEN t \o TurnText(i) ELSE t, <<>>, n)

-----------------------------------------------------------------------------
(* Text: completedValue and appendModelTurn.                               *)

Holds(t, part) == \E i \in 0..(Len(t) - Len(part)) : SubSeq(t, i + 1, i + Len(part)) = part

\* Mutant: the streamed text is kept although a delta of it was lost.
CompletedValueStreamed(shown, final) == IF shown = <<>> THEN final ELSE shown

CompletedValue(shown, final) ==
    IF final = <<>> \/ (shown # <<>> /\ ~IsPrefix(shown, final) /\ Holds(shown, final))
    THEN shown ELSE final

AppendModelTurn(done, turn) ==
    IF IsSuffix(turn, done) THEN done
    ELSE IF IsPrefix(done, turn) THEN turn
    ELSE done \o turn

-----------------------------------------------------------------------------
(* The chat rows of the run: a message of the ledger and a transient one.  *)

Shown(s, row) == row # None /\ s.rows[row] # None
Put(s, row, loading, text) == [s EXCEPT !.rows[row] = [loading |-> loading, text |-> text]]
Settle(s, loading) ==
    IF Shown(s, s.row) THEN [s EXCEPT !.rows[s.row].loading = loading] ELSE s

Existing(s) == IF Shown(s, "transient") THEN "transient"
               ELSE IF Shown(s, "durable") THEN "durable" ELSE None

\* activityMessageIdFor: every event binds the run to a row, if there is one.
Bind(s) == IF Shown(s, s.row) \/ Existing(s) = None THEN s ELSE [s EXCEPT !.row = Existing(s)]

\* ensureAssistantMessage
Ensure(s) ==
    LET row == Existing(s) IN
    IF Shown(s, s.row) THEN s
    ELSE IF row = None THEN Put([s EXCEPT !.row = "transient"], "transient", TRUE, <<>>)
    ELSE IF s.rows[row].text = <<>> THEN [s EXCEPT !.row = row]
    ELSE IF s.rows[row].loading THEN [s EXCEPT !.row = row, !.turn = s.rows[row].text]
    ELSE [s EXCEPT !.row = row, !.done = s.rows[row].text]

\* mergeAIChatSessionMessages, after the first n events of the ledger
MergeAt(s, n) ==
    LET durable == IF TurnsAt(n) = {} THEN None
                   ELSE [loading |-> FALSE, text |-> DurableText(n)]
        keep(r) == /\ s.rows[r] # None /\ s.rows[r].loading /\ s.error = 0
                   /\ durable = None \/ s.rows[r].text \notin {<<>>, durable.text}
    IN  [s EXCEPT !.rows = [r \in Rows |-> IF r = "durable" /\ durable # None THEN durable
                                           ELSE IF keep(r) THEN s.rows[r] ELSE None]]

-----------------------------------------------------------------------------
(* applyAIRunEvent, applyAIRunControlProjection, applyAIRunReplayEvent.    *)

\* "e" has the row that Ensure found or made.
DeltaInto(e, n) ==
    LET turn == Append(e.turn, n)
    IN  Put([e EXCEPT !.turn = turn], e.row, TRUE, AppendModelTurn(e.done, turn))
TurnInto(e, n) ==
    LET done == AppendModelTurn(e.done, CompletedValue(e.turn, TurnText(n)))
    IN  Put([e EXCEPT !.done = done, !.turn = <<>>], e.row, TRUE,
            IF done = <<>> THEN e.rows[e.row].text ELSE done)

ApplyDelta(s, n) == DeltaInto(Ensure(s), n)
ApplyTurn(s, n)  == TurnInto(Ensure(s), n)

\* Mutant: an end is taken to carry no message of its own.
FailWithoutReason(s) ==
    LET left(r) == IF s.rows[r] # None /\ s.rows[r].loading /\ s.rows[r].text = <<>>
                   THEN None ELSE s.rows[r]
    IN  Settle([s EXCEPT !.rows = [r \in Rows |-> left(r)], !.error = s.lastError], FALSE)

\* A failed run loses its empty rows and gets an error row.  Its text is that of
\* the last error event the projection has seen, else the reason of the end.
Fail(s) ==
    LET left(r) == IF s.rows[r] # None /\ s.rows[r].loading /\ s.rows[r].text = <<>>
                   THEN None ELSE s.rows[r]
    IN  Settle([s EXCEPT !.rows = [r \in Rows |-> left(r)],
                         !.error = IF s.lastError # 0 THEN s.lastError ELSE Cause], FALSE)

\* onRunTerminal: hydrateSessionProjection asks for the session once more.
Hydrate(s) == [s EXCEPT !.hydrating = @ \cup {Len(log)}, !.sending = FALSE]

End(s, end) == Hydrate(IF end \in Failures THEN Fail(s) ELSE Settle(s, FALSE))

ApplyTerminal(s, end) == IF s.handled THEN s ELSE End(Bind([s EXCEPT !.handled = TRUE]), end)

ApplyEvent(s, n, kind) ==
    CASE kind = "input" -> [Settle(Ensure(s), TRUE) EXCEPT !.sending = TRUE]
      [] kind = "delta" -> ApplyDelta(s, n)
      [] kind = "turn"  -> ApplyTurn(s, n)
      [] kind = "error" -> Bind([s EXCEPT !.lastError = n])
      [] kind = "canceling" -> Bind(s)
      [] kind \in Ends  -> ApplyTerminal(s, kind)
      [] OTHER          -> Settle(Bind(s), TRUE)

ApplyControl(s, kind) ==
    IF kind \in Ends THEN Hydrate(Bind(s)) ELSE Bind(s)

ApplyDeltas(s, held) == Steps(LAMBDA t, i : ApplyDelta(t, held[i]), s, Len(held))

\* flushAIRunReplayDeltas
Flush(s) ==
    LET r == s.replay
        keep == ~r.live /\ Cardinality(r.turns) >= r.durable
        f == IF keep THEN ApplyDeltas(s, r.held) ELSE s
    IN  [f EXCEPT !.replay.held = <<>>]

\* A replayed turn that the ledger or a live subscriber has shown is not shown again.
ApplyReplayedTurn(s, n) ==
    LET r == [s.replay EXCEPT !.turns = @ \cup {n}]
        suppress == r.live \/ Cardinality(r.turns) <= r.durable
        a == IF suppress THEN Bind(s) ELSE ApplyTurn(ApplyDeltas(s, r.held), n)
    IN  [a EXCEPT !.replay = [r EXCEPT !.held = <<>>]]

ApplyReplay(s, n, kind) ==
    CASE kind = "delta" -> [s EXCEPT !.replay.held = Append(@, n)]
      [] kind = "turn"  -> ApplyReplayedTurn(s, n)
      [] kind \in Ends  -> ApplyEvent(Flush(s), n, kind)
      [] kind = "error" -> ApplyEvent(s, n, kind)
      [] OTHER          -> ApplyControl(s, kind)

-----------------------------------------------------------------------------
(* The sequence tracker, the gap buffer and the reads of the ledger.       *)

\* recover: one read at a time, and none while the retry timer is armed.
Recover(s, replay) ==
    IF s.read # None \/ s.timer THEN s
    ELSE [s EXCEPT !.read = [replay |-> replay, asked |-> Len(log),
                             after |-> IF replay THEN 0 ELSE s.cursor]]

\* A live subscriber has shown this text: the replay need not.
SeenLive(s, kind) ==
    IF s.replay # None /\ kind \in {"delta", "turn"} THEN [s EXCEPT !.replay.live = TRUE] ELSE s

Project(s, n, kind, replay) ==
    IF replay THEN ApplyReplay(s, n, kind) ELSE ApplyEvent(SeenLive(s, kind), n, kind)

Polling(s, kind) ==
    IF kind \in Ends THEN [s EXCEPT !.timer = FALSE, !.pending = {}]
    ELSE IF kind # "wait" THEN [s EXCEPT !.timer = TRUE] ELSE s

\* accept, with AIRunEventSequenceTracker.observe
Accept(s, n, kind, replay) ==
    IF s.over \/ n <= s.cursor
    THEN IF ~replay THEN s
         ELSE ApplyControl(IF kind = "turn" THEN [s EXCEPT !.replay.turns = @ \cup {n}] ELSE s,
                           kind)
    ELSE IF n # s.cursor + 1 THEN Recover([s EXCEPT !.pending = @ \cup {n}], replay)
    ELSE Polling(Project([s EXCEPT !.cursor = n, !.over = kind \in Ends], n, kind, replay), kind)

DrainPending(s, replay) ==
    Steps(LAMBDA t, i :
              IF t.cursor + 1 \notin t.pending THEN t
              ELSE Accept([t EXCEPT !.pending = @ \ {t.cursor + 1}], t.cursor + 1,
                          log[t.cursor + 1], replay),
          s, MaxEvents)

FlushAndDrain(s, replay) == DrainPending(IF replay THEN Flush(s) ELSE s, replay)

\* Mutant: whether the run goes on or events are missing is not looked at.
PollForGood(s, state) == [s EXCEPT !.read = None, !.timer = FALSE]

\* The end of a read that succeeded and found the run in the given state.
PollWhileActive(s, state) ==
    [s EXCEPT !.read = None, !.timer = state = "active" \/ s.pending # {}]

Idle == [cursor |-> 0, over |-> FALSE, row |-> None, done |-> <<>>, turn |-> <<>>,
         handled |-> FALSE, lastError |-> 0, error |-> 0,
         rows |-> [r \in Rows |-> None], hydrating |-> {},
         sending |-> FALSE, mine |-> FALSE, tracked |-> FALSE, keyed |-> FALSE,
         pending |-> {}, timer |-> FALSE, read |-> None, replay |-> None]

Init ==
    /\ log = <<>> /\ sent = {}
    /\ ui = [Idle EXCEPT !.sending = TRUE]
    /\ boot = None /\ receipt = TRUE
    /\ opens = 0

-----------------------------------------------------------------------------
(* The run: its events are committed, then announced or lost.  The run's   *)
(* own loop and a cancellation announce outside of any lock: announcements *)
(* may overtake each other.                                                *)

\* A cancellation does not wait for what the run's loop still has to announce.
Lag(kind) == IF kind \in {"canceling", "canceled"} THEN MaxLag + 1 ELSE MaxLag

AppendEvent ==
    /\ Len(log) < MaxEvents
    /\ \E kind \in IF log = <<>> THEN First ELSE After(log[Len(log)]) :
           /\ \A n \in sent : Len(log) + 1 < n + Lag(kind)
           /\ log' = Append(log, kind)
    /\ sent' = sent \cup {Len(log) + 1}
    /\ UNCHANGED <<ui, boot, receipt, opens>>

\* The subscription's handler; every state notification tracks the run.
Deliver ==
    /\ \E n \in sent :
           LET a == Accept(ui, n, log[n], FALSE)
           IN  /\ sent' = sent \ {n}
               /\ ui' = [a EXCEPT !.tracked =
                            @ \/ (a.cursor # ui.cursor /\ log[n] # "delta")]
    /\ UNCHANGED <<log, boot, receipt, opens>>

Lose ==
    /\ \E n \in sent : sent' = sent \ {n}
    /\ UNCHANGED <<log, ui, boot, receipt, opens>>

-----------------------------------------------------------------------------
(* The answer to SubmitInput, and the subscription effect.                 *)

\* submitHarnessRun: a queued row, unless the run has got further than that.
SubmitReceipt ==
    LET busy == \E r \in Rows : Shown(ui, r) /\ ui.rows[r].loading
        s == IF ui.handled \/ busy THEN ui ELSE Put(ui, "transient", TRUE, <<>>)
    IN  /\ receipt
        /\ receipt' = FALSE
        /\ ui' = [s EXCEPT !.hydrating = @ \cup {Len(log)}, !.tracked = TRUE,
                           !.mine = TRUE, !.sending = @ /\ ~ui.handled]
        /\ UNCHANGED <<log, sent, boot, opens>>

\* The effect is cleaned up and run again: what was in flight is abandoned.
Subscribe(s) ==
    /\ ui' = [s EXCEPT !.pending = {}, !.timer = FALSE, !.read = None, !.replay = None]
    /\ boot' = Len(log)

\* trackedRunKey changes when the panel first hears of the run.
TrackRun ==
    /\ ui.tracked /\ ~ui.keyed
    /\ Subscribe([ui EXCEPT !.keyed = TRUE])
    /\ UNCHANGED <<log, sent, receipt, opens>>

\* The panel is closed and opened again: tracker, projections and rows outlive it.
ReopenPanel ==
    /\ ~receipt /\ opens < MaxOpens
    /\ opens' = opens + 1
    /\ Subscribe([ui EXCEPT !.sending = FALSE, !.mine = FALSE, !.tracked = FALSE, !.keyed = FALSE])
    /\ UNCHANGED <<log, sent, receipt>>

\* The frontend is reloaded: nothing but the ledger outlives it.
ReloadPage ==
    /\ ~receipt /\ opens < MaxOpens
    /\ opens' = opens + 1
    /\ Subscribe(Idle)
    /\ UNCHANGED <<log, sent, receipt>>

-----------------------------------------------------------------------------
(* Answers of the ledger.  An answer shows the ledger as it was at some    *)
(* moment between the question and now.                                    *)

\* bootstrapSession: a run that is not over, or failed, is replayed from its start.
NewReplay(n) == [durable |-> Cardinality(TurnsAt(n)), turns |-> {}, held |-> <<>>, live |-> FALSE]

BootstrapAnswers ==
    /\ boot # None
    /\ boot' = None
    /\ \E n \in boot..Len(log) :
           LET s == [MergeAt(ui, n) EXCEPT !.tracked = TRUE,
                         !.sending = StateAt(n) \notin Ends \/ (@ /\ ~ui.mine)]
           IN  ui' = IF StateAt(n) \in {"completed", "canceled"} THEN s
                     ELSE Recover([s EXCEPT !.replay = NewReplay(n)], TRUE)
    /\ UNCHANGED <<log, sent, receipt, opens>>

HydrationAnswers ==
    /\ \E asked \in ui.hydrating :
           \E n \in asked..Len(log) :
               ui' = MergeAt([ui EXCEPT !.hydrating = @ \ {asked}], n)
    /\ UNCHANGED <<log, sent, boot, receipt, opens>>

Least(a, b) == IF a < b THEN a ELSE b

\* The events of a page, at most PageSize of the n in the ledger.
LastOfPage(read, n) == Least(read.after + PageSize, n)
PageEvents(s, read, n) ==
    Steps(LAMBDA t, i : Accept(t, read.after + i, log[read.after + i], read.replay), s,
          LastOfPage(read, n) - read.after)

\* Mutants: the state of the snapshot is not projected; a number is left free
\* before the terminal event made of it.
SnapshotIgnored(s, state, replay) == s
SnapshotLeavingAGap(s, state, replay) ==
    IF state \in Ends /\ ~s.handled THEN Accept(s, s.cursor + 2, state, replay) ELSE s

\* A terminal snapshot ends the projection by itself.
SnapshotEnds(s, state, replay) ==
    IF state \in Ends /\ ~s.handled THEN Accept(s, s.cursor + 1, state, replay) ELSE s

\* recover: go on with the next page, or look what the buffer still holds.
PageDone(s, read, n) ==
    IF LastOfPage(read, n) < n /\ StateAt(n) \notin Ends
    THEN [s EXCEPT !.read =
             [replay |-> read.replay, asked |-> Len(log),
              after |-> IF read.replay THEN LastOfPage(read, n) ELSE s.cursor]]
    ELSE PollWhileActive(FlushAndDrain(s, read.replay), StateAt(n))

Page(s, read, n) ==
    PageDone(SnapshotEnds(PageEvents(s, read, n), StateAt(n), read.replay), read, n)

ReadAnswers ==
    /\ ui.read # None
    /\ \E n \in ui.read.asked..Len(log) : ui' = Page(ui, ui.read, n)
    /\ UNCHANGED <<log, sent, boot, receipt, opens>>

ReadFails ==
    /\ ui.read # None
    /\ ui' = [ui EXCEPT !.read = None, !.timer = TRUE]
    /\ UNCHANGED <<log, sent, boot, receipt, opens>>

\* Nothing is tried again when the session cannot be read.
SessionReadFails ==
    \/ /\ boot # None
       /\ boot' = None
       /\ UNCHANGED <<log, sent, ui, receipt, opens>>
    \/ /\ \E asked \in ui.hydrating : ui' = [ui EXCEPT !.hydrating = @ \ {asked}]
       /\ UNCHANGED <<log, sent, boot, receipt, opens>>

RetryTimer ==
    /\ ui.timer
    /\ ui' = Recover([ui EXCEPT !.timer = FALSE], ui.replay # None)
    /\ UNCHANGED <<log, sent, boot, receipt, opens>>

-----------------------------------------------------------------------------
Panel ==
    \/ Deliver \/ Lose
    \/ SubmitReceipt \/ TrackRun
    \/ BootstrapAnswers \/ HydrationAnswers \/ ReadAnswers \/ RetryTimer

Next ==
    \/ AppendEvent
    \/ Panel
    \/ ReopenPanel \/ ReloadPage
    \/ ReadFails \/ SessionReadFails

Spec == Init /\ [][Next]_vars

\* Every call is answered, reads of the ledger at some time without failing any
\* more, announcements arrive or are lost, and timers fire; neither the run nor the
\* user owes a step.  Fairness of the actions named on the right is said by the
\* states their steps lead to: a timer or an answer ends what enables it, the run has
\* finitely many events to announce, a read finitely many pages (at most 20 in the code).
Fairness ==
    /\ WF_vars(SubmitReceipt) /\ WF_vars(TrackRun)
    /\ []<>~ui.timer                    \* RetryTimer
    /\ []<>(boot = None)                \* BootstrapAnswers
    /\ []<>(ui.read = None)             \* ReadAnswers, however many pages
    /\ <>[][~ReadFails]_vars
    /\ []<>(sent = {})                  \* Deliver or Lose, however many events

FairSpec == Spec /\ Fairness
-----------------------------------------------------------------------------
(***************************************************************************)
(* The type of the state.  Besides the shapes: the panel never gets ahead  *)
(* of the ledger, even when it synthesises the terminal event of a         *)
(* snapshot before it has read the events that lead to it.                 *)
(***************************************************************************)
TypeOK ==
    /\ log \in Seq(Kinds) /\ Len(log) <= MaxEvents
    /\ sent \subseteq 1..Len(log)
    /\ ui.cursor \in 0..Len(log)
    /\ ui.row \in {None} \cup Rows
    /\ {ui.done, ui.turn} \subseteq Text
    /\ \A r \in Rows : ui.rows[r] \in Row \cup {None}
    /\ {ui.lastError, ui.error} \subseteq 0..Len(log)
    /\ {ui.over, ui.handled, ui.sending, ui.mine, ui.tracked, ui.keyed, ui.timer}
           \subseteq BOOLEAN
    /\ ui.pending \subseteq 1..Len(log) /\ ui.hydrating \subseteq 0..Len(log)
    /\ ui.read \in Read \cup {None} /\ ui.replay \in Replay \cup {None}
    /\ boot \in 0..Len(log) \cup {None}
    /\ receipt \in BOOLEAN /\ opens \in 0..MaxOpens

\* What lastError never forgets: an error event that the run got over.
Outlived(n) == n < Cause /\ n \in DOMAIN log /\ log[n] = "error"

(***************************************************************************)
(* The end of a failed run is shown with the message the run failed with,  *)
(* whether the panel has seen the error event itself or only an end, and   *)
(* whichever mixture of announcements, gap reads and replays it learnt it  *)
(* from (applyTerminal, failRun).  One message may be shown in its place,  *)
(* that of an error the run got over: if the end has no error event of its *)
(* own, or if the end of a run longer than a page was projected from the   *)
(* snapshot before the page with that event was read.                      *)
(***************************************************************************)
CauseShown ==
    ui.handled /\ log[Len(log)] \in Failures =>
        \/ ui.error = Cause
        \/ Outlived(ui.error) /\ (Cause = Len(log) \/ Len(log) > PageSize)

Shows(s, part) == \E r \in Rows : Shown(s, r) /\ Holds(s.rows[r].text, part)

\* Turn n came in a replay and is left to what is shown already: to the message
\* of the ledger it was part of when the bootstrap was answered, or to the live
\* projection, if it has passed any delta or turn since.
LeftToShown(s, n) ==
    /\ s.replay # None /\ n \in s.replay.turns
    /\ s.replay.live \/ Cardinality(TurnsAt(n)) <= s.replay.durable

(***************************************************************************)
(* When the cursor passes the end of a turn, some row of the chat shows    *)
(* that turn's text in full, although its deltas may have been dropped,    *)
(* overtaken, repaired by a gap read or replaced by a hydration            *)
(* (applyAIRunEvent on model_completed).  This holds of announcements and  *)
(* gap reads without exception.  A replay leaves a turn out only if the    *)
(* ledger had it when the bootstrap asked, never by a wrong count, or if   *)
(* something was projected live since: then the text can be missing until  *)
(* the next hydration.  In a run longer than a page the terminal event     *)
(* made of a snapshot may take the number of an unread turn (recover):     *)
(* that one number is exempt.                                              *)
(***************************************************************************)
TurnsShown ==
    [][\A n \in (ui.cursor + 1)..ui'.cursor :
           /\ log[n] = "turn"
           /\ Len(log) <= PageSize \/ n < ui'.cursor \/ ~ui'.over
           => Shows(ui', TurnText(n)) \/ LeftToShown(ui', n)]_vars

Gap == \E n \in ui.pending : n > ui.cursor

(***************************************************************************)
(* Events that arrived ahead of a gap do not stay in the buffer: a read of *)
(* the ledger fills the gap, however many reads fail before, or the buffer *)
(* goes with its subscription or the end of the run (accept, recover,      *)
(* drainPending).                                                          *)
(***************************************************************************)
GapFills == Gap ~> ~Gap

Ended == StateAt(Len(log)) \in Ends
NeverWaited == \A i \in DOMAIN log : log[i] # "wait"
Following == ui.keyed /\ (ui.timer \/ ui.read # None)

(***************************************************************************)
(* Once the panel polls or reads a run that never waited for its user, the *)
(* end of the run is projected although every announcement of it is lost   *)
(* and reads may fail (scheduleRecoveryRetry and the terminal snapshot of  *)
(* recover), unless the panel stops following the run.                     *)
(***************************************************************************)
EndProjected == (Ended /\ NeverWaited /\ Following) ~> (ui.handled \/ ~ui.keyed)

(***************************************************************************)
(* A run that has ended does not leave the panel sending, as the comment   *)
(* on the polling promises.  It does: see the README.                      *)
(***************************************************************************)
SendingEnds == (Ended /\ Following) ~> ~ui.sending
=============================================================================
