------------------------------- MODULE Console -------------------------------
(***************************************************************************)
(* src/ui/src/components/DebugConsole.tsx with useWebSocket.ts,            *)
(* wsMessageFiltering.ts and the tabs of App.tsx: the page on which stored *)
(* events of a run (fetched) and live ones (over the socket) meet.         *)
(*                                                                         *)
(* One action is one turn of the page: a message and the effect that       *)
(* processes it, an answer of a fetch, a click. The state of the component *)
(* is `view`; it is lost when another tab is shown, while the messages     *)
(* stay with App.                                                          *)
(***************************************************************************)
EXTENDS EventFeed

CONSTANT MaxClicks      \* bound of the model: what the user does

VARIABLES
    shown,      \* the console is the tab on view
    view,       \* chatMessages, eventLog, streaming, currentTaskId
    fetch,      \* the fetch of the controller in replayAbortRef
    intent,     \* history: what the user did last, and for which run
    turned,     \* history: the fetch on mount has turned to another run than the one that streams
    clicks

pageVars == <<shown, view, fetch, intent, turned, clicks>>

vars == <<feedVars, pageVars>>

NoFetch == [step |-> "none", task |-> None, reply |-> <<>>]

EmptyView == [current |-> None, log |-> <<>>, chat |-> <<>>, streaming |-> FALSE]

UserMessage == [role |-> "user", text |-> <<>>]
AssistantMessage(text) == [role |-> "assistant", text |-> text]

EndsWithAssistant(chat) == chat # <<>> /\ Last(chat).role = "assistant"

\* The page is loaded: the console comes up and asks for the last run.
Init ==
    /\ FeedInit
    /\ shown = TRUE
    /\ view = EmptyView
    /\ fetch = [NoFetch EXCEPT !.step = "tasks"]
    /\ intent = [by |-> "load", task |-> None]
    /\ turned = FALSE
    /\ clicks = 0

-----------------------------------------------------------------------------

AcceptAny(current, t) == TRUE

\* gateEventMessage(): without a current run any run is accepted, and adopted.
Gate(current, t) == current = None \/ t = current

Acknowledges(current, t) == current = None \/ t = current

AppendDeltaToAny(chat, e) ==
    LET own == SelectLastInSeq(chat, LAMBDA m : m.role = "assistant") IN
    IF own = 0 THEN chat ELSE [chat EXCEPT ![own].text = Append(@, e)]

\* A delta goes to the last message if that is the assistant's, else nowhere.
AppendDelta(chat, e) ==
    IF EndsWithAssistant(chat) THEN [chat EXCEPT ![Len(chat)].text = Append(@, e)] ELSE chat

ChatWith(chat, e) ==
    CASE e.kind = "start" -> Append(chat, AssistantMessage(<<>>))
      [] e.kind = "delta" -> AppendDelta(chat, e)
      [] OTHER -> chat

StreamingAfter(e, streaming) ==
    CASE e.kind = "start" -> TRUE
      [] e.kind = "end" -> FALSE
      [] OTHER -> streaming

\* One message in the effect on ws.messages.
Process(v, m) ==
    IF m.type = "result"
    THEN IF Acknowledges(v.current, m.task) THEN [v EXCEPT !.streaming = FALSE] ELSE v
    ELSE IF Gate(v.current, m.entry.task)
    THEN [current |-> IF v.current = None THEN m.entry.task ELSE v.current,
          log |-> Append(v.log, m.entry),
          chat |-> ChatWith(v.chat, m.entry),
          streaming |-> StreamingAfter(m.entry, v.streaming)]
    ELSE v

\* A message arrives. With the console on view it is processed at once; a
\* click between two messages sees the ones before it processed.
Deliver ==
    /\ Arriving
    /\ received' = received + 1
    /\ view' = IF shown THEN Process(view, messages[received + 1]) ELSE view
    /\ turned' = (turned /\ view'.streaming)
    /\ UNCHANGED <<submitted, sent, recent, finished, open, messages, drops>>
    /\ UNCHANGED <<shown, fetch, intent, clicks>>

-----------------------------------------------------------------------------
(* The fetches: the last run on mount, and the events of a run.            *)

NextStep(step, t, reply) == fetch' = [step |-> step, task |-> t, reply |-> reply]

\* The server answers; the answer is on its way to the page.
ReadTasks ==
    /\ fetch.step = "tasks"
    /\ IF finished = <<>> THEN NextStep("runs", None, <<>>)
                          ELSE NextStep("listed", Last(finished), <<>>)

ReadRuns ==
    /\ fetch.step = "runs"
    /\ \/ recent = <<>> /\ fetch' = NoFetch
       \/ \E t \in NewestStored : NextStep("listed", t, <<>>)

ReadRun ==
    /\ fetch.step = "detail"
    /\ \E events \in StoredEvents(fetch.task) : NextStep("answered", fetch.task, events)

\* The page goes on with the last run of the list, also when it has adopted
\* another one meanwhile; it does not heed then that it still streams.
TakeLast ==
    /\ fetch.step = "listed"
    /\ turned' = (turned \/ (view.streaming /\ view.current # fetch.task))
    /\ view' = [view EXCEPT !.current = fetch.task, !.chat = <<UserMessage>>]
    /\ NextStep("detail", fetch.task, <<>>)

\* The text of a run: its deltas, one after the other.
AddText(text, e) == IF e.kind = "delta" THEN Append(text, e) ELSE text

TextOf(entries) == FoldLeft(AddText, <<>>, entries)

\* replayTask() overwrites the log and completes the chat.
Replay ==
    /\ fetch.step = "answered"
    /\ LET text == TextOf(fetch.reply) IN
       view' = [view EXCEPT !.log = fetch.reply,
                            !.chat = IF text = <<>> \/ EndsWithAssistant(@) THEN @
                                     ELSE Append(@, AssistantMessage(text))]
    /\ fetch' = NoFetch

\* No connection, or an answer that is not ok.
FetchFails ==
    \/ fetch.step = "tasks" /\ NextStep("runs", None, <<>>)
    \/ fetch.step \in {"runs", "detail"} /\ fetch' = NoFetch

FetchStep ==
    /\ \/ (ReadTasks \/ ReadRuns \/ ReadRun \/ FetchFails) /\ UNCHANGED <<view, turned>>
       \/ TakeLast
       \/ Replay /\ UNCHANGED turned
    /\ UNCHANGED <<feedVars, shown, intent, clicks>>

-----------------------------------------------------------------------------
(* The user.                                                               *)

Click(by, t) ==
    /\ clicks < MaxClicks
    /\ clicks' = clicks + 1
    /\ intent' = [by |-> by, task |-> t]

FetchGoesOn == UNCHANGED fetch

AbortFetch == fetch' = NoFetch

Always == TRUE

\* The button and the input are disabled while a run streams.
Idle == ~view.streaming

\* handleSend(): disabled while streaming; send() drops the message when the
\* socket is not open, and the runner may refuse it.
Send ==
    /\ shown
    /\ Idle
    /\ AbortFetch
    /\ view' = [view EXCEPT !.log = <<>>, !.current = None, !.chat = Append(@, UserMessage)]
    /\ \/ open /\ \E t \in Task : Submit(t) /\ Click("send", t)
       \/ Click("send", None) /\ UNCHANGED feedVars
    /\ UNCHANGED <<shown, turned>>

\* handleNew(), disabled while streaming.
New ==
    /\ shown
    /\ Idle
    /\ Click("new", None)
    /\ AbortFetch
    /\ view' = EmptyView
    /\ UNCHANGED <<feedVars, shown, turned>>

\* Another tab: React drops the component, its cleanup aborts the fetch.
Leave ==
    /\ shown
    /\ Click("leave", None)
    /\ AbortFetch
    /\ shown' = FALSE
    /\ view' = EmptyView
    /\ turned' = FALSE
    /\ UNCHANGED feedVars

\* Back to the console: a new component, which processes every message the
\* page has ever received, and asks for the last run as after a load.
Return ==
    /\ ~shown
    /\ Click("load", None)
    /\ shown' = TRUE
    /\ view' = FoldLeft(Process, EmptyView, SubSeq(messages, 1, received))
    /\ fetch' = [NoFetch EXCEPT !.step = "tasks"]
    /\ UNCHANGED <<feedVars, turned>>

ReplayView(t) == [EmptyView EXCEPT !.current = t, !.chat = <<UserMessage>>]

\* A run is picked in the Tasks tab: its replay starts behind all messages.
Select(t) ==
    /\ ~shown
    /\ t \in ToSet(recent)
    /\ Click("select", t)
    /\ shown' = TRUE
    /\ view' = ReplayView(t)
    /\ NextStep("detail", t, <<>>)
    /\ UNCHANGED <<feedVars, turned>>

-----------------------------------------------------------------------------

ServerStep ==
    /\ \/ \E t \in Task : Submit(t) \/ Emit(t) \/ Finish(t)
       \/ Connect
       \/ Disconnect
    /\ UNCHANGED pageVars

Next ==
    \/ ServerStep
    \/ Deliver
    \/ FetchStep
    \/ Send \/ New \/ Leave \/ Return
    \/ \E t \in Task : Select(t)

Spec == Init /\ [][Next]_vars

-----------------------------------------------------------------------------

OfRun(entries, t) == \A i \in DOMAIN entries : entries[i].task = t

OfOneRun(entries) == \A i, j \in DOMAIN entries : entries[i].task = entries[j].task

InOrder(log) == \A i, j \in DOMAIN log : i < j => log[i].seq < log[j].seq

\* A run picked in the Tasks tab stays the one on view, in the log and in the
\* chat, whatever other runs do and whatever fetch was under way: "Events for
\* unrelated tasks ... are silently dropped so historical replays aren't
\* contaminated" (DebugConsole.tsx:225).
SelectedReplayIsPure ==
    intent.by = "select" =>
        /\ view.current = intent.task
        /\ OfRun(view.log, intent.task)
        /\ \A i \in DOMAIN view.chat : OfRun(view.chat[i].text, intent.task)

\* After "send" or "new" the log holds the live events of one run, the
\* adopted one, each once and in order: no answer of an older fetch gets in
\* (DebugConsole.tsx:327).
LiveLogIsOfOneRun ==
    intent.by \in {"send", "new"} =>
        /\ OfRun(view.log, view.current)
        /\ InOrder(view.log)

\* No bubble of the chat mixes the text of two runs, also when the start of
\* a run was lost with a connection.
BubblesAreOfOneRun ==
    \A i \in DOMAIN view.chat : OfOneRun(view.chat[i].text)

Ends(m, t) ==
    \/ m.type = "result" /\ m.task = t
    \/ m.type = "event" /\ m.entry.task = t /\ m.entry.kind = "end"

\* A console that streams, and so keeps the user from sending, will be told
\* when its run is over: the run goes on, or the message that ends it is on
\* its way and will be heeded. There are two ways out of this. A connection
\* that breaks may take the end of the run with it. And when a run starts, and
\* is adopted, while the fetch on mount is under way, its answer turns the
\* console to the last run instead (DebugConsole.tsx:167-171 against 245):
\* then the end of neither may come, and the console stays locked.
StreamingWillEnd ==
    (view.streaming /\ drops = 0 /\ ~turned) =>
        /\ open
        /\ view.current # None
        /\ \/ view.current \notin ToSet(finished)
           \/ \E i \in received + 1..Len(messages) : Ends(messages[i], view.current)

=============================================================================
