------------------------------ MODULE EventViews ------------------------------
(***************************************************************************)
(* The views that are computed from the events of a run: the tool counts,  *)
(* the transcript and the timeline of src/events/store.ts and the display  *)
(* of src/ui/src/components/debugDisplayUtils.ts, as folds over the log.   *)
(*                                                                         *)
(* The log grows event by event and may lack events, as an append can      *)
(* fail. Its tool events are those that the Codex adapter makes of items   *)
(* (mapItemStarted and mapItemCompleted): per item at most one start, one  *)
(* result and one call with a final status, in any order and with events   *)
(* of other items between them.                                            *)
(***************************************************************************)
EXTENDS Naturals, FiniteSets, SequencesExt

CONSTANTS
    CallId,     \* the ids of the tool items
    NoId,       \* a tool event without an id
    MaxLog      \* bound of the model: events in a log

ASSUME ViewsAssumption == NoId \notin CallId /\ MaxLog \in Nat

VARIABLES
    log,        \* the events of a run, in their order on disk
    streaming   \* the console takes the run for a live one

viewsVars == <<log, streaming>>

Event(type) == [type |-> type, id |-> NoId, status |-> "none"]

\* A stream delta is a word or a line break; what else it is made of is not
\* told apart. "lifecycle" stands for lifecycle, plan and usage events too.
PlainEvents == { Event(type) : type \in {"task_init", "lifecycle", "word", "newline", "thinking"} }

StartOf(c) == [type |-> "tool_call", id |-> c, status |-> "started"]
ResultOf(c) == [type |-> "tool_result", id |-> c, status |-> "none"]
EndsOf(c) == { [type |-> "tool_call", id |-> c, status |-> s] : s \in {"completed", "failed"} }

ToolEvents ==
    { StartOf(c) : c \in CallId } \cup { ResultOf(c) : c \in CallId \cup {NoId} }
        \cup UNION { EndsOf(c) : c \in CallId }

IsTool(e) == e.type \in {"tool_call", "tool_result"}
IsStream(e) == e.type \in {"word", "newline"}
IsEnd(e) == e.status \in {"completed", "failed"}

\* Events of one item that cannot both occur.
Alike(e, f) == e.id = f.id /\ e.id # NoId /\ (e = f \/ (IsEnd(e) /\ IsEnd(f)))

ViewsInit == log = <<>> /\ streaming \in BOOLEAN

Happens(e) ==
    /\ Len(log) < MaxLog
    /\ IsTool(e) => \A i \in DOMAIN log : ~Alike(log[i], e)
    /\ log' = Append(log, e)
    /\ UNCHANGED streaming

ViewsNext == \E e \in PlainEvents \cup ToolEvents : Happens(e)

ViewsSpec == ViewsInit /\ [][ViewsNext]_viewsVars

-----------------------------------------------------------------------------
(* summarizeExecutionEvents()                                              *)

NoCounts ==
    [started |-> 0, completed |-> 0, success |-> 0, failure |-> 0,
     ended |-> {}, resulted |-> {}]

CountEndIgnoringResult(s, e) ==
    [s EXCEPT !.ended = @ \cup ({e.id} \ {NoId}), !.completed = @ + 1,
              !.success = IF e.status = "completed" THEN @ + 1 ELSE @,
              !.failure = IF e.status = "failed" THEN @ + 1 ELSE @]

\* A call with a final status counts unless its result has been counted.
CountEnd(s, e) ==
    IF e.id \in s.resulted
    THEN [s EXCEPT !.ended = @ \cup {e.id}]
    ELSE [s EXCEPT !.ended = @ \cup ({e.id} \ {NoId}), !.completed = @ + 1,
                   !.success = IF e.status = "completed" THEN @ + 1 ELSE @,
                   !.failure = IF e.status = "failed" THEN @ + 1 ELSE @]

\* A result counts, as a success, unless the call has been counted.
CountResult(s, e) ==
    IF e.id \in s.ended
    THEN [s EXCEPT !.resulted = @ \cup {e.id}]
    ELSE [s EXCEPT !.resulted = @ \cup ({e.id} \ {NoId}),
                   !.completed = @ + 1, !.success = @ + 1]

Count(s, e) ==
    CASE e.status = "started" -> [s EXCEPT !.started = @ + 1]
      [] IsEnd(e) -> CountEnd(s, e)
      [] e.type = "tool_result" -> CountResult(s, e)
      [] OTHER -> s

Summary(events) == FoldLeft(Count, NoCounts, events)

-----------------------------------------------------------------------------
(* buildExecutionTranscript() and buildExecutionTimeline(). An event is    *)
(* its position in the log.                                                *)

PositionsOf(events, Test(_)) ==
    FlattenSeq([i \in DOMAIN events |-> IF Test(events[i]) THEN <<i>> ELSE <<>>])

\* The words of the assistant's message.
Transcript(events) == PositionsOf(events, LAMBDA e : e.type = "word")

\* splitProgressText(): two line breaks or more end a paragraph, and what
\* surrounds it is trimmed. `buffer` holds positions in `events`.
AddToParagraphs(events, buffer, parts, k) ==
    LET i == buffer[k]
        fresh == \/ parts = <<>>
                 \/ /\ k > 2
                    /\ \A j \in {k - 1, k - 2} : events[buffer[j]].type = "newline"
    IN  IF events[i].type = "newline" THEN parts
        ELSE IF fresh THEN Append(parts, <<i>>)
        ELSE [parts EXCEPT ![Len(parts)] = Append(@, i)]

Paragraphs(events, buffer) ==
    FoldLeft(LAMBDA parts, k : AddToParagraphs(events, buffer, parts, k),
             <<>>, [k \in DOMAIN buffer |-> k])

Item(kind, first, offset, words) ==
    [kind |-> kind, id |-> <<kind, first, offset>>, content |-> words]

PushAgain(t, events) ==
    LET parts == Paragraphs(events, t.buffer) IN
    [t EXCEPT !.items = @ \o [k \in DOMAIN parts |-> Item("progress", t.buffer[1], k, parts[k])]]

\* pushProgress()
PushProgress(t, events) ==
    LET parts == Paragraphs(events, t.buffer) IN
    [items |-> t.items \o [k \in DOMAIN parts |-> Item("progress", t.buffer[1], k, parts[k])],
     buffer |-> <<>>]

TimelineStep(events, t, i) ==
    IF IsStream(events[i]) THEN [t EXCEPT !.buffer = Append(@, i)]
    ELSE LET flushed == PushProgress(t, events) IN
         [flushed EXCEPT !.items = Append(@, Item(events[i].type, i, 0, <<i>>))]

TimelineRead(events) ==
    FoldLeft(LAMBDA t, i : TimelineStep(events, t, i),
             [items |-> <<>>, buffer |-> <<>>], [i \in DOMAIN events |-> i])

Timeline(events) == PushProgress(TimelineRead(events), events).items

-----------------------------------------------------------------------------
(* buildUnifiedDisplay()                                                   *)

NoGroups == [items |-> <<>>, streams |-> <<>>, thoughts |-> <<>>, emitted |-> {}]

Group(kind, entries, live) == [kind |-> kind, entries |-> entries, live |-> live]

TextGroup(kind, entries, live) ==
    IF entries = <<>> THEN <<>> ELSE <<Group(kind, entries, live)>>

FlushStreams(d, live) ==
    [d EXCEPT !.items = @ \o TextGroup("stream", d.streams, live), !.streams = <<>>]

FlushThinking(d, live) ==
    [d EXCEPT !.items = @ \o TextGroup("thinking", d.thoughts, live), !.thoughts = <<>>]

Flush(d, live) == FlushThinking(FlushStreams(d, live), live)

\* Pass 1: the events of a tool call, and the calls with a final status.
CallEntries(events, c) == PositionsOf(events, LAMBDA e : IsTool(e) /\ e.id = c)

IsOpen(events, c) == \A i \in DOMAIN events : events[i].id = c => ~IsEnd(events[i])

NeverEmitted(d, e) == FALSE

AlreadyEmitted(d, e) == e.id \in d.emitted

\* Pass 2
DisplayStep(events, live, d, i) ==
    LET e == events[i] IN
    IF IsTool(e) /\ e.id # NoId
    THEN IF AlreadyEmitted(d, e) THEN d
         ELSE LET flushed == Flush(d, FALSE) IN
              [flushed EXCEPT
                !.emitted = @ \cup {e.id},
                !.items = Append(@, Group("tool", CallEntries(events, e.id),
                                          live /\ IsOpen(events, e.id)))]
    ELSE IF IsStream(e)
    THEN [FlushThinking(d, FALSE) EXCEPT !.streams = Append(@, i)]
    ELSE IF e.type = "thinking"
    THEN [FlushStreams(d, FALSE) EXCEPT !.thoughts = Append(@, i)]
    ELSE [Flush(d, FALSE) EXCEPT !.items = Append(@, Group("event", <<i>>, FALSE))]

DisplayRead(events, live) ==
    FoldLeft(LAMBDA d, i : DisplayStep(events, live, d, i), NoGroups,
             [i \in DOMAIN events |-> i])

Display(events, live) == Flush(DisplayRead(events, live), live).items

-----------------------------------------------------------------------------

Calls(Test(_)) == { c \in CallId : \E i \in DOMAIN log : log[i].id = c /\ Test(log[i]) }

NoIdResults == Cardinality({ i \in DOMAIN log : log[i] = ResultOf(NoId) })

\* Every tool call counts once as started and once as completed, whichever of
\* its result and its final status came first, came alone, or came between
\* those of another call (test/event-store.test.ts:474 tests one call).
CallsCountOnce ==
    LET s == Summary(log) IN
    /\ s.started = Cardinality(Calls(LAMBDA e : e.status = "started"))
    /\ s.completed = Cardinality(Calls(LAMBDA e : IsEnd(e) \/ e.type = "tool_result")) + NoIdResults
    /\ s.success + s.failure = s.completed
    /\ s.failure <= Cardinality(Calls(LAMBDA e : e.status = "failed"))

Contents(items) == FlattenSeq([k \in DOMAIN items |-> items[k].content])

Progress(items) ==
    FlattenSeq([k \in DOMAIN items |->
                  IF items[k].kind = "progress" THEN items[k].content ELSE <<>>])

\* The timeline loses, repeats and moves nothing: its items hold the events
\* of the log in their order, no two items have the same id, and its
\* progress items hold the words of the transcript.
TimelineIsComplete ==
    LET items == Timeline(log)
    IN  /\ Contents(items) = PositionsOf(log, LAMBDA e : e.type # "newline")
        /\ IsInjective([k \in DOMAIN items |-> items[k].id])
        /\ Progress(items) = Transcript(log)

\* The console shows every entry in exactly one place, the places in the
\* order of their first entries and the entries in their own order. It marks
\* as live exactly the calls without an end and the text it waits on.
DisplayIsFaithful ==
    LET items == Display(log, streaming)
        shown == FlattenSeq([k \in DOMAIN items |-> items[k].entries])
        Ascending(s) == \A j, k \in DOMAIN s : j < k => s[j] < s[k]
    IN  /\ Len(shown) = Len(log)
        /\ ToSet(shown) = DOMAIN log
        /\ Ascending([k \in DOMAIN items |-> items[k].entries[1]])
        /\ \A k \in DOMAIN items :
            /\ Ascending(items[k].entries)
            /\ items[k].live <=>
                /\ streaming
                /\ CASE items[k].kind = "tool" -> IsOpen(log, log[items[k].entries[1]].id)
                     [] items[k].kind = "event" -> FALSE
                     [] OTHER -> \A j \in Last(items[k].entries) + 1..Len(log) :
                                    IsTool(log[j]) /\ log[j].id # NoId
                                    /\ \E n \in 1..items[k].entries[1] : log[n].id = log[j].id

=============================================================================
