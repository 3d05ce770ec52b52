----------------------------- MODULE ConsoleProofs -----------------------------
(***************************************************************************)
(* Console, for any number of runs, slots, messages under way, lost        *)
(* connections and clicks, and every order of messages and answers: what   *)
(* the view holds is of one run, and a view that streams will be told.     *)
(***************************************************************************)
EXTENDS Console, FoldTheorems, SequenceTheorems

Entries == { Entry(t, n) : t \in Task, n \in 1..4 }

Message == [type : {"event"}, entry : Entries] \cup [type : {"result"}, task : Task]

Bubble == [role : {"user", "assistant"}, text : Seq(Entries)]

View == [current : Task \cup {None}, log : Seq(Entries), chat : Seq(Bubble), streaming : BOOLEAN]

FeedTypes ==
    /\ submitted \subseteq Task
    /\ sent \in [Task -> 0..4]
    /\ recent \in Seq(Task)
    /\ finished \in Seq(Task)
    /\ open \in BOOLEAN
    /\ messages \in Seq(Message)
    /\ received \in 0..Len(messages)
    /\ drops \in Nat

PageTypes ==
    /\ shown \in BOOLEAN
    /\ view \in View
    /\ fetch \in [step : {"none", "tasks", "runs", "listed", "detail", "answered"},
                  task : Task \cup {None}, reply : Seq(Entries)]
    /\ intent \in [by : {"load", "send", "new", "leave", "select"}, task : Task \cup {None}]

-----------------------------------------------------------------------------
(* The invariant.                                                          *)

\* The bubbles of a view are of one run each; the one that deltas go to is of
\* the current run, which there is.
ChatInv(v) ==
    /\ \A i \in DOMAIN v.chat : OfOneRun(v.chat[i].text)
    /\ EndsWithAssistant(v.chat) => v.current # None /\ OfRun(Last(v.chat).text, v.current)

\* What the fetch is about: the run on view, from when it is asked for.
FetchInv ==
    /\ fetch.step = "listed" => fetch.task \in Task
    /\ fetch.step \in {"detail", "answered"} => fetch.task \in Task /\ view.current = fetch.task
    /\ fetch.step = "answered" => OfRun(fetch.reply, fetch.task)

\* What the user did last limits which fetch there can be.
IntentInv ==
    /\ intent.by \in {"send", "new", "leave"} => fetch.step = "none"
    /\ ~shown => intent.by = "leave" /\ ~view.streaming
    /\ intent.by = "select" => /\ intent.task \in Task
                               /\ fetch.step \in {"none", "detail", "answered"}

IsEvent(m) == m.type = "event"

\* Events are broadcast in order, none before its run has emitted it, and a
\* finished run has emitted all.
BroadcastInOrder ==
    /\ \A i, j \in DOMAIN messages :
         i < j /\ IsEvent(messages[i]) /\ IsEvent(messages[j])
           /\ messages[i].entry.task = messages[j].entry.task
         => messages[i].entry.seq < messages[j].entry.seq
    /\ \A i \in DOMAIN messages :
         IsEvent(messages[i]) => messages[i].entry.seq <= sent[messages[i].entry.task]
    /\ \A i \in DOMAIN finished : sent[finished[i]] = 4

\* What is on its way comes after what a live log holds.
LiveLogIsBehind ==
    intent.by \in {"send", "new"} =>
        \A i \in DOMAIN view.log :
            /\ view.log[i].seq <= sent[view.log[i].task]
            /\ \A k \in received + 1..Len(messages) :
                 IsEvent(messages[k]) /\ messages[k].entry.task = view.log[i].task
                 => view.log[i].seq < messages[k].entry.seq

\* Without a loss, whoever has heard of a run hears of its end.
EndIsBroadcast ==
    drops = 0 =>
        /\ messages # <<>> => open
        /\ \A i \in DOMAIN messages :
             IsEvent(messages[i]) /\ messages[i].entry.task \in ToSet(finished) =>
                \E j \in i + 1..Len(messages) : messages[j] = ResultMessage(messages[i].entry.task)

IInv ==
    /\ FeedTypes
    /\ PageTypes
    /\ ChatInv(view)
    /\ FetchInv
    /\ IntentInv
    /\ BroadcastInOrder
    /\ LiveLogIsBehind
    /\ EndIsBroadcast
    /\ SelectedReplayIsPure
    /\ LiveLogIsOfOneRun
    /\ StreamingWillEnd
    /\ turned \in BOOLEAN

-----------------------------------------------------------------------------
(* One message.                                                            *)

LEMMA EntryTyped ==
    ASSUME NEW e \in Entries
    PROVE  e.task \in Task /\ e.seq \in 1..4 /\ e.kind \in {"init", "start", "delta", "end"}
BY DEF Entries, Entry, EventKinds

LEMMA BubbleTyped ==
    /\ UserMessage \in Bubble
    /\ \A text \in Seq(Entries) : AssistantMessage(text) \in Bubble
BY DEF Bubble, UserMessage, AssistantMessage

\* What an event makes of the chat: a new bubble, a longer last one, or nothing.
LEMMA ChatWithCases ==
    ASSUME NEW chat \in Seq(Bubble), NEW e \in Entries
    PROVE  \/ ChatWith(chat, e) = Append(chat, AssistantMessage(<<>>))
           \/ /\ EndsWithAssistant(chat)
              /\ ChatWith(chat, e) = [chat EXCEPT ![Len(chat)].text = Append(@, e)]
           \/ ChatWith(chat, e) = chat
BY EntryTyped DEF ChatWith, AppendDelta

\* The last bubble with one more entry, field by field.
LEMMA LongerBubble ==
    ASSUME NEW chat \in Seq(Bubble), chat # <<>>, NEW e \in Entries
    PROVE  LET new == [chat EXCEPT ![Len(chat)].text = Append(@, e)] IN
           /\ new \in Seq(Bubble) /\ new # <<>> /\ Len(new) = Len(chat)
           /\ \A i \in DOMAIN chat : new[i].role = chat[i].role
           /\ \A i \in DOMAIN chat : i # Len(chat) => new[i] = chat[i]
           /\ new[Len(chat)].text = Append(chat[Len(chat)].text, e)
<1>. DEFINE n == Len(chat)
            new == [chat EXCEPT ![n].text = Append(@, e)]
<1>1. n \in Nat \ {0} /\ n \in DOMAIN chat /\ DOMAIN chat = 1..n
  BY EmptySeq, LenProperties
<1>2. chat[n] \in Bubble
  BY <1>1, ElementOfSeq
<1>3. chat[n].text \in Seq(Entries) /\ chat[n].role \in {"user", "assistant"}
  BY <1>2 DEF Bubble
<1>4. Append(chat[n].text, e) \in Seq(Entries)
  BY <1>3, AppendProperties
<1>. DEFINE last == [chat[n] EXCEPT !.text = Append(chat[n].text, e)]
<1>5. last \in Bubble /\ last.role = chat[n].role /\ last.text = Append(chat[n].text, e)
  BY <1>2, <1>4 DEF Bubble
<1>6. new = [chat EXCEPT ![n] = last]
  OBVIOUS
<1>7. ASSUME NEW i \in 1..n PROVE new[i] = IF i = n THEN last ELSE chat[i]
  BY <1>1, <1>6, <1>7
<1>8. new \in Seq(Bubble) /\ Len(new) = n
  <2>. HIDE DEF last
  <2>1. n \in 1..Len(chat) /\ last \in Bubble
    BY <1>1, <1>5
  <2>2. [chat EXCEPT ![n] = last] \in Seq(Bubble) /\ Len([chat EXCEPT ![n] = last]) = Len(chat)
    <3>. HIDE DEF n
    <3>. QED BY <2>1, ExceptSeq
  <2>. QED BY <1>6, <2>2
<1>9. new # <<>>
  BY <1>8, <1>1, EmptySeq
<1>. HIDE DEF new, last
<1>. QED BY <1>1, <1>5, <1>7, <1>8, <1>9 DEF new, last

\* A chat with a new bubble of the user or of the assistant at its end.
LEMMA NewBubble ==
    ASSUME NEW chat \in Seq(Bubble), NEW b \in Bubble
    PROVE  LET new == Append(chat, b) IN
           /\ new \in Seq(Bubble) /\ new # <<>> /\ Last(new) = b
           /\ DOMAIN new = 1..Len(chat) + 1
           /\ \A i \in 1..Len(chat) : new[i] = chat[i]
           /\ new[Len(chat) + 1] = b
<1>1. Append(chat, b) \in Seq(Bubble) /\ Append(chat, b) # <<>> /\ Len(Append(chat, b)) = Len(chat) + 1
  BY AppendProperties
<1>2. Append(chat, b)[Len(chat) + 1] = b
  BY AppendProperties
<1>3. Last(Append(chat, b)) = b
  BY <1>1, <1>2 DEF Last
<1>4. Len(chat) \in Nat /\ \A i \in 1..Len(chat) : Append(chat, b)[i] = chat[i]
  BY AppendProperties, LenProperties
<1>5. DOMAIN Append(chat, b) = 1..Len(chat) + 1
  BY <1>1, LenProperties
<1>. QED BY <1>1, <1>2, <1>3, <1>4, <1>5

LEMMA ChatWithTyped ==
    ASSUME NEW chat \in Seq(Bubble), NEW e \in Entries
    PROVE  ChatWith(chat, e) \in Seq(Bubble)
<1>1. <<>> \in Seq(Entries)
  OBVIOUS
<1>2. AssistantMessage(<<>>) \in Bubble
  BY <1>1, BubbleTyped
<1>. QED BY <1>2, ChatWithCases, NewBubble, LongerBubble DEF EndsWithAssistant

LEMMA ProcessTyped ==
    ASSUME NEW v \in View, NEW m \in Message
    PROVE  Process(v, m) \in View
<1>1. CASE m.type = "result"
  BY <1>1 DEF Process, View
<1>2. CASE m.type # "result"
  <2>1. m.entry \in Entries
    BY <1>2 DEF Message
  <2>2. m.entry.task \in Task
    BY <2>1, EntryTyped
  <2>3. v.current \in Task \cup {None} /\ v.log \in Seq(Entries) /\ v.chat \in Seq(Bubble)
          /\ v.streaming \in BOOLEAN
    BY DEF View
  <2>4. Append(v.log, m.entry) \in Seq(Entries)
    BY <2>1, <2>3, AppendProperties
  <2>5. ChatWith(v.chat, m.entry) \in Seq(Bubble)
    BY <2>1, <2>3, ChatWithTyped
  <2>6. StreamingAfter(m.entry, v.streaming) \in BOOLEAN
    BY <2>3 DEF StreamingAfter
  <2>. QED BY <1>2, <2>2, <2>3, <2>4, <2>5, <2>6 DEF Process, View
<1>. QED BY <1>1, <1>2

\* The chat keeps to the run `t` if the bubble for deltas does.
LEMMA ChatWithKeepsRun ==
    ASSUME NEW chat \in Seq(Bubble), NEW e \in Entries, NEW t, e.task = t,
           EndsWithAssistant(chat) => OfRun(Last(chat).text, t)
    PROVE  LET new == ChatWith(chat, e) IN
           /\ EndsWithAssistant(new) => OfRun(Last(new).text, t)
           /\ \A i \in DOMAIN new : (i \in DOMAIN chat /\ new[i] = chat[i]) \/ OfRun(new[i].text, t)
<1>1. CASE ChatWith(chat, e) = Append(chat, AssistantMessage(<<>>))
  <2>1. AssistantMessage(<<>>) \in Bubble /\ OfRun(AssistantMessage(<<>>).text, t)
    <3>1. <<>> \in Seq(Entries)
      OBVIOUS
    <3>2. AssistantMessage(<<>>).text = <<>>
      BY DEF AssistantMessage
    <3>3. OfRun(<<>>, t)
      BY DEF OfRun
    <3>. QED BY <3>1, <3>2, <3>3, BubbleTyped
  <2>2. DOMAIN chat = 1..Len(chat)
    BY LenProperties
  <2>. HIDE DEF AssistantMessage
  <2>. QED BY <1>1, <2>1, <2>2, NewBubble
<1>2. ASSUME EndsWithAssistant(chat),
             ChatWith(chat, e) = [chat EXCEPT ![Len(chat)].text = Append(@, e)]
      PROVE  LET new == ChatWith(chat, e) IN
             /\ OfRun(Last(new).text, t)
             /\ \A i \in DOMAIN new : (i \in DOMAIN chat /\ new[i] = chat[i]) \/ OfRun(new[i].text, t)
  <2>. DEFINE new == ChatWith(chat, e)
              n == Len(chat)
  <2>1. chat # <<>> /\ OfRun(chat[n].text, t)
    BY <1>2 DEF EndsWithAssistant, Last
  <2>2. /\ new \in Seq(Bubble) /\ Len(new) = n
        /\ \A i \in DOMAIN chat : i # n => new[i] = chat[i]
        /\ new[n].text = Append(chat[n].text, e)
    BY <1>2, <2>1, LongerBubble
  <2>3. n \in Nat \ {0} /\ DOMAIN chat = 1..n /\ DOMAIN new = 1..n /\ chat[n] \in Bubble
    BY <2>1, <2>2, LenProperties, EmptySeq, ElementOfSeq
  <2>4. OfRun(new[n].text, t)
    <3>1. chat[n].text \in Seq(Entries)
      BY <2>3 DEF Bubble
    <3>2. \A i \in DOMAIN Append(chat[n].text, e) : Append(chat[n].text, e)[i].task = t
      BY <2>1, <3>1, AppendProperties, LenProperties DEF OfRun
    <3>. QED BY <2>2, <3>2 DEF OfRun
  <2>5. Last(new) = new[n]
    BY <2>2 DEF Last
  <2>. HIDE DEF new, n
  <2>6. \A i \in DOMAIN new : (i \in DOMAIN chat /\ new[i] = chat[i]) \/ OfRun(new[i].text, t)
    BY <2>2, <2>3, <2>4
  <2>. QED BY <2>4, <2>5, <2>6 DEF new
<1>3. CASE ChatWith(chat, e) = chat
  BY <1>3
<1>. QED BY <1>1, <1>2, <1>3, ChatWithCases

LEMMA OfRunIsOfOneRun ==
    ASSUME NEW s, NEW t, OfRun(s, t)
    PROVE  OfOneRun(s)
BY DEF OfRun, OfOneRun

LEMMA ProcessKeepsChat ==
    ASSUME NEW v \in View, NEW m \in Message, ChatInv(v)
    PROVE  ChatInv(Process(v, m))
<1>. DEFINE w == Process(v, m)
<1>1. CASE w.chat = v.chat /\ w.current = v.current
  BY <1>1 DEF ChatInv
<1>2. ASSUME m.type # "result", Gate(v.current, m.entry.task)
      PROVE  ChatInv(w)
  <2>. DEFINE e == m.entry
  <2>1. e \in Entries /\ v.chat \in Seq(Bubble) /\ v.current \in Task \cup {None}
    BY <1>2 DEF Message, View
  <2>2. e.task \in Task /\ e.task # None
    BY <2>1, EntryTyped, FeedAssumption DEF FeedAssumption
  <2>3. w.chat = ChatWith(v.chat, e) /\ w.current = e.task
    BY <1>2 DEF Process, Gate
  <2>4. EndsWithAssistant(v.chat) => OfRun(Last(v.chat).text, e.task)
    BY <1>2 DEF ChatInv, Gate
  <2>. HIDE DEF w, e
  <2>5. /\ EndsWithAssistant(w.chat) => OfRun(Last(w.chat).text, e.task)
        /\ \A i \in DOMAIN w.chat : \/ i \in DOMAIN v.chat /\ w.chat[i] = v.chat[i]
                                    \/ OfRun(w.chat[i].text, e.task)
    BY <2>1, <2>3, <2>4, ChatWithKeepsRun
  <2>6. \A i \in DOMAIN w.chat : OfOneRun(w.chat[i].text)
    BY <2>5, OfRunIsOfOneRun DEF ChatInv
  <2>. QED BY <2>2, <2>3, <2>5, <2>6 DEF ChatInv
<1>3. CASE m.type = "result" \/ ~Gate(v.current, m.entry.task)
  <2>1. w.chat = v.chat /\ w.current = v.current
    BY <1>3 DEF Process, View
  <2>. QED BY <1>1, <2>1
<1>. QED BY <1>2, <1>3

-----------------------------------------------------------------------------
(* All messages, for a component that is made anew.                        *)

LEMMA EmptyViewIsGood == EmptyView \in View /\ ChatInv(EmptyView)
BY DEF EmptyView, View, ChatInv, EndsWithAssistant

\* Behind the first k messages of s, a view that streams has heard of its run
\* and not, since then, of its end.
HasNotHeardTheEnd(s, k, v) ==
    v.streaming =>
        /\ v.current # None
        /\ \E i \in 1..k : /\ IsEvent(s[i]) /\ s[i].entry.task = v.current
                           /\ \A j \in i + 1..k : ~Ends(s[j], v.current)

LEMMA ProcessHearsTheEnd ==
    ASSUME NEW s \in Seq(Message), NEW k \in Nat, k + 1 <= Len(s), NEW v \in View,
           HasNotHeardTheEnd(s, k, v)
    PROVE  HasNotHeardTheEnd(s, k + 1, Process(v, s[k + 1]))
<1>. DEFINE m == s[k + 1]
            w == Process(v, m)
<1>. SUFFICES ASSUME w.streaming PROVE HasNotHeardTheEnd(s, k + 1, w)
  BY DEF HasNotHeardTheEnd
<1>1. Len(s) \in Nat /\ k + 1 \in 1..Len(s) /\ m \in Message
  BY LenProperties, ElementOfSeq
<1>2. CASE IsEvent(m) /\ Gate(v.current, m.entry.task)
  <2>1. w.current = m.entry.task
    BY <1>2 DEF Process, IsEvent, Gate
  <2>2. m.entry.task # None
    <3>1. m.entry \in Entries
      BY <1>1, <1>2 DEF Message, IsEvent
    <3>. QED BY <3>1, EntryTyped, FeedAssumption
  <2>3. k + 1 \in 1..k + 1 /\ k + 1 + 1..k + 1 = {}
    OBVIOUS
  <2>. HIDE DEF w
  <2>. QED BY <1>2, <2>1, <2>2, <2>3 DEF HasNotHeardTheEnd
<1>3. CASE ~(IsEvent(m) /\ Gate(v.current, m.entry.task))
  <2>. HIDE DEF m
  <2>1. m.type \in {"event", "result"}
    BY <1>1 DEF Message
  <2>2. w.current = v.current /\ v.streaming /\ ~Ends(m, v.current)
    <3>1. CASE m.type = "result"
      <4>1. ~Acknowledges(v.current, m.task)
        BY <3>1 DEF Process, View
      <4>. QED BY <3>1, <4>1 DEF Process, Acknowledges, Ends
    <3>2. CASE m.type = "event"
      BY <1>3, <3>2 DEF Process, IsEvent, Gate, Ends
    <3>. QED BY <2>1, <3>1, <3>2
  <2>3. v.current # None
    BY <2>2 DEF HasNotHeardTheEnd
  <2>4. PICK i \in 1..k : /\ IsEvent(s[i]) /\ s[i].entry.task = v.current
                         /\ \A j \in i + 1..k : ~Ends(s[j], v.current)
    BY <2>2 DEF HasNotHeardTheEnd
  <2>5. i \in 1..k + 1
    BY <2>4
  <2>6. ASSUME NEW j \in i + 1..k + 1 PROVE ~Ends(s[j], v.current)
    <3>1. CASE j = k + 1
      BY <2>2, <3>1 DEF m
    <3>2. CASE j # k + 1
      <4>1. j \in i + 1..k
        BY <3>2
      <4>. QED BY <2>4, <4>1
    <3>. QED BY <3>1, <3>2
  <2>. HIDE DEF w
  <2>. QED BY <2>2, <2>3, <2>4, <2>5, <2>6 DEF HasNotHeardTheEnd
<1>. QED BY <1>2, <1>3

\* A component that starts anew and processes all messages is in a good state.
LEMMA RebuiltIsGood ==
    ASSUME NEW s \in Seq(Message)
    PROVE  LET v == FoldLeft(Process, EmptyView, s) IN
           v \in View /\ ChatInv(v) /\ HasNotHeardTheEnd(s, Len(s), v)
<1>. DEFINE n == Len(s)
            D == { v \in View : ChatInv(v) }
            step == [k \in 1..n |-> [v \in D |-> Process(v, s[k])]]
            IsFold(g) == g = [T \in SUBSET DOMAIN s |->
                                IF T = {} THEN EmptyView ELSE Process(g[T \ {Max(T)}], s[Max(T)])]
            g == CHOOSE g : IsFold(g)
<1>1. DOMAIN s = 1..n /\ n \in Nat /\ \A k \in 1..n : s[k] \in Message
  BY LenProperties, ElementOfSeq
<1>2. \A k \in 1..n, v \in D : Process(v, s[k]) \in D
  BY <1>1, ProcessTyped, ProcessKeepsChat
<1>3. step \in [1..n -> [D -> D]] /\ EmptyView \in D
  BY <1>2, EmptyViewIsGood
<1>4. PICK h : IsFold(h)
  <2>1. PICK h \in [SUBSET (1..n) -> D] : Folds(h, EmptyView, step, n)
    <3>. HIDE DEF D, step, n
    <3>. QED BY <1>1, <1>3, FoldExists
  <2>2. ASSUME NEW T \in SUBSET (1..n), T # {} PROVE Max(T) \in 1..n
    <3>. HIDE DEF n
    <3>. QED BY <1>1, <2>2, MaxOfIndices
  <2>3. ASSUME NEW T \in SUBSET (1..n)
        PROVE  h[T] = IF T = {} THEN EmptyView ELSE Process(h[T \ {Max(T)}], s[Max(T)])
    <3>1. h[T] = IF T = {} THEN EmptyView ELSE step[Max(T)][h[T \ {Max(T)}]]
      BY <2>1 DEF Folds
    <3>2. ASSUME T # {} PROVE step[Max(T)][h[T \ {Max(T)}]] = Process(h[T \ {Max(T)}], s[Max(T)])
      <4>1. h[T \ {Max(T)}] \in D
        BY <2>1, <2>2, <3>2
      <4>. HIDE DEF D
      <4>. QED BY <2>2, <3>2, <4>1
    <3>. HIDE DEF step
    <3>. QED BY <3>1, <3>2
  <2>4. h = [T \in SUBSET (1..n) |-> h[T]]
    BY <2>1
  <2>. HIDE DEF D, step
  <2>5. IsFold(h)
    BY <1>1, <2>3, <2>4
  <2>. QED BY <2>5
<1>5. IsFold(g)
  BY <1>4
<1>6. g[1..n] \in D /\ HasNotHeardTheEnd(s, n, g[1..n])
  <2>. DEFINE J == [k \in 0..n |-> { v \in D : HasNotHeardTheEnd(s, k, v) }]
  <2>1. g[{}] = EmptyView
    BY <1>1, <1>5
  <2>2. g[{}] \in J[0]
    <3>1. HasNotHeardTheEnd(s, 0, EmptyView)
      BY DEF HasNotHeardTheEnd, EmptyView
    <3>2. 0 \in 0..n
      BY <1>1
    <3>. HIDE DEF D, n, g
    <3>. QED BY <1>3, <2>1, <3>1, <3>2
  <2>3. ASSUME NEW k \in 1..n, g[1..(k - 1)] \in J[k - 1] PROVE g[1..k] \in J[k]
    <3>. DEFINE i == k - 1
    <3>1. i \in Nat /\ i + 1 = k /\ k \in 1..k /\ i \in 0..n /\ k \in 0..n
      BY <1>1
    <3>2. Max(1..k) = k
      <4>. HIDE DEF i
      <4>. QED BY <3>1, MaxIsLast
    <3>3. 1..k \in SUBSET (1..n) /\ 1..k # {} /\ (1..k) \ {k} = 1..i
      <4>1. 1..k \in SUBSET (1..n) /\ 1..k # {}
        BY <1>1, <3>1
      <4>2. k \in Nat /\ i = k - 1
        BY <1>1
      <4>. HIDE DEF i, n
      <4>3. (1..k) \ {k} = 1..i
        BY <3>1, <4>2
      <4>. QED BY <4>1, <4>3
    <3>4. g[1..k] = Process(g[1..i], s[k])
      <4>. HIDE DEF g, i
      <4>. QED BY <1>1, <1>5, <3>2, <3>3
    <3>5. g[1..i] \in D /\ HasNotHeardTheEnd(s, i, g[1..i])
      <4>. HIDE DEF D, g
      <4>. QED BY <2>3, <3>1
    <3>6. g[1..k] \in D
      BY <1>2, <3>4, <3>5
    <3>7. HasNotHeardTheEnd(s, k, g[1..k])
      <4>1. i + 1 <= Len(s) /\ g[1..i] \in View
        BY <1>1, <3>1, <3>5
      <4>. HIDE DEF g, i, n
      <4>. QED BY <3>1, <3>4, <3>5, <4>1, ProcessHearsTheEnd
    <3>. HIDE DEF D, g
    <3>. QED BY <3>1, <3>6, <3>7
  <2>4. g[1..n] \in J[n]
    <3>. HIDE DEF J, n, g
    <3>. QED BY <1>1, <2>2, <2>3, FoldKeeps
  <2>5. n \in 0..n
    BY <1>1
  <2>. HIDE DEF D, n, g
  <2>. QED BY <2>4, <2>5
<1>7. FoldLeft(Process, EmptyView, s) = g[DOMAIN s]
  BY DEF FoldLeft, MapThenFoldSet
<1>. HIDE DEF g
<1>. QED BY <1>1, <1>6, <1>7

\* The text that a replay gathers is of the run that is replayed.
LEMMA AddedTextIsOfRun ==
    ASSUME NEW text \in Seq(Entries), NEW e \in Entries, NEW t, OfRun(text, t), e.task = t
    PROVE  AddText(text, e) \in Seq(Entries) /\ OfRun(AddText(text, e), t)
<1>1. Append(text, e) \in Seq(Entries)
  BY AppendProperties
<1>2. OfRun(Append(text, e), t)
  BY AppendProperties, LenProperties DEF OfRun
<1>. QED BY <1>1, <1>2 DEF AddText

LEMMA TextIsOfRun ==
    ASSUME NEW s \in Seq(Entries), NEW t, OfRun(s, t)
    PROVE  TextOf(s) \in Seq(Entries) /\ OfRun(TextOf(s), t)
<1>. DEFINE n == Len(s)
            D == { v \in Seq(Entries) : OfRun(v, t) }
            step == [k \in 1..n |-> [v \in D |-> AddText(v, s[k])]]
            IsFold(g) == g = [T \in SUBSET DOMAIN s |->
                                IF T = {} THEN <<>> ELSE AddText(g[T \ {Max(T)}], s[Max(T)])]
            g == CHOOSE g : IsFold(g)
<1>1. DOMAIN s = 1..n /\ n \in Nat /\ \A k \in 1..n : s[k] \in Entries /\ s[k].task = t
  BY LenProperties, ElementOfSeq DEF OfRun
<1>2. \A k \in 1..n, v \in D : AddText(v, s[k]) \in D
  BY <1>1, AddedTextIsOfRun
<1>3. step \in [1..n -> [D -> D]] /\ <<>> \in D
  <2>1. <<>> \in D
    BY DEF OfRun
  <2>. HIDE DEF D
  <2>. QED BY <1>2, <2>1
<1>4. PICK h : IsFold(h)
  <2>1. PICK h \in [SUBSET (1..n) -> D] : Folds(h, <<>>, step, n)
    <3>. HIDE DEF D, step, n
    <3>. QED BY <1>1, <1>3, FoldExists
  <2>2. ASSUME NEW T \in SUBSET (1..n), T # {} PROVE Max(T) \in 1..n
    <3>. HIDE DEF n
    <3>. QED BY <1>1, <2>2, MaxOfIndices
  <2>3. ASSUME NEW T \in SUBSET (1..n)
        PROVE  h[T] = IF T = {} THEN <<>> ELSE AddText(h[T \ {Max(T)}], s[Max(T)])
    <3>1. h[T] = IF T = {} THEN <<>> ELSE step[Max(T)][h[T \ {Max(T)}]]
      BY <2>1 DEF Folds
    <3>2. ASSUME T # {} PROVE step[Max(T)][h[T \ {Max(T)}]] = AddText(h[T \ {Max(T)}], s[Max(T)])
      <4>1. h[T \ {Max(T)}] \in D
        BY <2>1, <2>2, <3>2
      <4>. HIDE DEF D
      <4>. QED BY <2>2, <3>2, <4>1
    <3>. HIDE DEF step
    <3>. QED BY <3>1, <3>2
  <2>4. h = [T \in SUBSET (1..n) |-> h[T]]
    BY <2>1
  <2>. HIDE DEF D, step
  <2>5. IsFold(h)
    BY <1>1, <2>3, <2>4
  <2>. QED BY <2>5
<1>5. IsFold(g)
  BY <1>4
<1>6. g[1..n] \in D
  <2>1. g[{}] = <<>>
    BY <1>1, <1>5
  <2>2. ASSUME NEW k \in 1..n, g[(1..k) \ {Max(1..k)}] \in D PROVE g[1..k] \in D
    <3>1. Max(1..k) = k /\ k \in 1..k
      <4>1. k - 1 \in Nat /\ (k - 1) + 1 = k /\ k \in 1..k
        BY <1>1
      <4>. QED BY <4>1, MaxIsLast
    <3>2. 1..k \in SUBSET (1..n) /\ 1..k # {}
      BY <1>1, <3>1
    <3>3. g[1..k] = AddText(g[(1..k) \ {Max(1..k)}], s[k])
      <4>. HIDE DEF g
      <4>. QED BY <1>1, <1>5, <3>1, <3>2
    <3>. QED BY <1>2, <2>2, <3>3
  <2>. HIDE DEF D, n, g
  <2>. QED BY <1>1, <1>3, <2>1, <2>2, FoldStays
<1>7. TextOf(s) = g[DOMAIN s]
  BY DEF TextOf, FoldLeft, MapThenFoldSet
<1>. HIDE DEF g
<1>. QED BY <1>1, <1>6, <1>7

-----------------------------------------------------------------------------
(* What the page is told: one lemma per action of the feed.                *)

FeedInv == FeedTypes /\ BroadcastInOrder /\ EndIsBroadcast

LEMMA MessageTyped ==
    ASSUME NEW t \in Task
    PROVE  /\ \A n \in 1..4 : Entry(t, n) \in Entries /\ EventMessage(t, n) \in Message
           /\ ResultMessage(t) \in Message
BY DEF Entries, EventMessage, ResultMessage, Message

LEMMA SubmitKeepsFeed ==
    ASSUME FeedInv, NEW t \in Task, Submit(t)
    PROVE  FeedInv'
BY DEF FeedInv, FeedTypes, BroadcastInOrder, EndIsBroadcast, Submit, IsEvent

LEMMA ConnectKeepsFeed ==
    ASSUME FeedInv, Connect
    PROVE  FeedInv'
BY DEF FeedInv, FeedTypes, BroadcastInOrder, EndIsBroadcast, Connect, IsEvent

LEMMA DeliverKeepsFeed ==
    ASSUME FeedInv, Deliver
    PROVE  FeedInv'
<1>1. messages' = messages /\ received' = received + 1 /\ received < Len(messages)
        /\ UNCHANGED <<submitted, sent, recent, finished, open, messages, drops>>
  BY DEF Deliver, Arriving
<1>2. received' \in 0..Len(messages)
  BY <1>1, LenProperties DEF FeedInv, FeedTypes
<1>. QED BY <1>1, <1>2 DEF FeedInv, FeedTypes, BroadcastInOrder, EndIsBroadcast, IsEvent

LEMMA FeedUnchanged ==
    ASSUME FeedInv, UNCHANGED feedVars
    PROVE  FeedInv'
BY DEF FeedInv, FeedTypes, BroadcastInOrder, EndIsBroadcast, IsEvent, feedVars

\* A broken connection leaves a prefix of the messages, and counts as a loss.
LEMMA DisconnectKeepsFeed ==
    ASSUME FeedInv, Disconnect
    PROVE  FeedInv'
<1>1. messages \in Seq(Message) /\ received \in 0..Len(messages) /\ drops \in Nat
  BY DEF FeedInv, FeedTypes
<1>2. messages' = SubSeq(messages, 1, received) /\ open' = FALSE /\ drops' = drops + 1
        /\ UNCHANGED <<submitted, sent, recent, finished, received>>
  BY DEF Disconnect
<1>3. /\ messages' \in Seq(Message) /\ Len(messages') = received
      /\ \A i \in 1..received : messages'[i] = messages[i]
  BY <1>1, <1>2, SubSeqProperties, LenProperties
<1>4. DOMAIN messages' = 1..received /\ 1..received \subseteq DOMAIN messages
  BY <1>1, <1>3, LenProperties
<1>5. FeedTypes'
  <2>1. received' \in 0..Len(messages')
    <3>1. received' = received /\ received \in 0..received /\ Len(messages') = received
      BY <1>1, <1>2, <1>3, LenProperties
    <3>. QED BY <3>1
  <2>2. open' \in BOOLEAN
    BY <1>2
  <2>3. drops' \in Nat
    BY <1>1, <1>2
  <2>. QED BY <1>2, <1>3, <2>1, <2>2, <2>3 DEF FeedInv, FeedTypes
<1>6. BroadcastInOrder'
  BY <1>2, <1>3, <1>4 DEF FeedInv, BroadcastInOrder, IsEvent
<1>7. EndIsBroadcast'
  BY <1>1, <1>2 DEF EndIsBroadcast
<1>. QED BY <1>5, <1>6, <1>7 DEF FeedInv

\* A broadcast puts a message behind the others, if anybody listens.
LEMMA BroadcastAppends ==
    ASSUME messages \in Seq(Message), NEW m \in Message, Broadcast(m)
    PROVE  /\ messages' \in Seq(Message)
           /\ Len(messages') = Len(messages) \/ Len(messages') = Len(messages) + 1
           /\ open => messages' = Append(messages, m) /\ Len(messages') = Len(messages) + 1
                        /\ messages'[Len(messages')] = m
           /\ \A i \in DOMAIN messages : i \in DOMAIN messages' /\ messages'[i] = messages[i]
           /\ \A i \in DOMAIN messages' : i \notin DOMAIN messages =>
                i = Len(messages) + 1 /\ messages'[i] = m
<1>1. DOMAIN messages = 1..Len(messages) /\ Len(messages) \in Nat
  BY LenProperties
<1>2. CASE open
  <2>1. messages' = Append(messages, m)
    BY <1>2 DEF Broadcast
  <2>2. /\ messages' \in Seq(Message) /\ Len(messages') = Len(messages) + 1
        /\ \A i \in 1..Len(messages) : messages'[i] = messages[i]
        /\ messages'[Len(messages) + 1] = m
    BY <2>1, AppendProperties
  <2>3. DOMAIN messages' = 1..Len(messages) + 1
    BY <2>2, LenProperties
  <2>. QED BY <1>1, <2>1, <2>2, <2>3
<1>3. CASE ~open
  <2>1. messages' = messages
    BY <1>3 DEF Broadcast
  <2>. QED BY <1>1, <1>3, <2>1
<1>. QED BY <1>2, <1>3

LEMMA EmitKeepsFeed ==
    ASSUME FeedInv, NEW t \in Task, Emit(t)
    PROVE  FeedInv'
<1>. DEFINE n == sent[t] + 1
            m == EventMessage(t, n)
<1>1. /\ messages \in Seq(Message) /\ sent \in [Task -> 0..4] /\ finished \in Seq(Task)
      /\ recent \in Seq(Task) /\ drops \in Nat /\ open \in BOOLEAN /\ received \in 0..Len(messages)
  BY DEF FeedInv, FeedTypes
<1>2. n \in 1..4 /\ sent[t] < 4 /\ sent' = [sent EXCEPT ![t] = n] /\ Broadcast(m)
        /\ recent' = (IF sent[t] = 0 THEN Append(recent, t) ELSE recent)
        /\ UNCHANGED <<submitted, finished, open, received, drops>>
  BY <1>1 DEF Emit, EventKinds
<1>3. m \in Message /\ IsEvent(m) /\ m.entry = Entry(t, n) /\ m.entry.task = t /\ m.entry.seq = n
  BY <1>2, MessageTyped DEF EventMessage, IsEvent, Entry
<1>. HIDE DEF n, m
<1>4. /\ messages' \in Seq(Message)
      /\ Len(messages') = Len(messages) \/ Len(messages') = Len(messages) + 1
      /\ \A i \in DOMAIN messages : i \in DOMAIN messages' /\ messages'[i] = messages[i]
      /\ \A i \in DOMAIN messages' : i \notin DOMAIN messages =>
                i = Len(messages) + 1 /\ messages'[i] = m
  BY <1>1, <1>2, <1>3, BroadcastAppends
<1>5. DOMAIN messages = 1..Len(messages) /\ Len(messages) \in Nat /\ DOMAIN messages' = 1..Len(messages')
        /\ Len(messages') \in Nat /\ Len(messages) <= Len(messages') /\ Len(messages') <= Len(messages) + 1
  <2>1. DOMAIN messages = 1..Len(messages) /\ Len(messages) \in Nat
    BY <1>1, LenProperties
  <2>2. DOMAIN messages' = 1..Len(messages') /\ Len(messages') \in Nat
    BY <1>4, LenProperties
  <2>3. Len(messages) <= Len(messages') /\ Len(messages') <= Len(messages) + 1
    <3>1. Len(messages') = Len(messages) \/ Len(messages') = Len(messages) + 1
      BY <1>4
    <3>2. Len(messages) \in Nat /\ Len(messages') \in Nat
      BY <2>1, <2>2
    <3>. QED BY <3>1, <3>2
  <2>. QED BY <2>1, <2>2, <2>3
<1>6. \A u \in Task : sent'[u] \in 0..4 /\ sent[u] <= sent'[u] /\ (u = t => sent'[u] = n /\ sent[u] < n)
  BY <1>1, <1>2 DEF n
<1>7. FeedTypes'
  <2>1. received' \in 0..Len(messages')
    BY <1>1, <1>2, <1>5
  <2>2. recent' \in Seq(Task)
    BY <1>1, <1>2, AppendProperties
  <2>3. sent' \in [Task -> 0..4]
    BY <1>1, <1>2
  <2>. QED BY <1>1, <1>2, <1>4, <2>1, <2>2, <2>3 DEF FeedInv, FeedTypes
<1>8. ASSUME NEW i \in DOMAIN messages, IsEvent(messages[i])
      PROVE  messages[i].entry.task \in Task /\ messages[i].entry.seq \in 1..4
               /\ messages[i].entry.seq <= sent[messages[i].entry.task]
  <2>1. messages[i] \in Message
    BY <1>1, <1>5, ElementOfSeq
  <2>2. messages[i].entry \in Entries
    BY <1>8, <2>1 DEF Message, IsEvent
  <2>. QED BY <1>8, <2>2, EntryTyped DEF FeedInv, BroadcastInOrder
<1>9. BroadcastInOrder'
  <2>1. ASSUME NEW i \in DOMAIN messages', NEW j \in DOMAIN messages', i < j,
               IsEvent(messages'[i]), IsEvent(messages'[j]),
               messages'[i].entry.task = messages'[j].entry.task
        PROVE  messages'[i].entry.seq < messages'[j].entry.seq
    <3>1. i \in DOMAIN messages
      BY <2>1, <1>5
    <3>2. CASE j \in DOMAIN messages
      BY <1>4, <2>1, <3>1, <3>2 DEF FeedInv, BroadcastInOrder
    <3>3. CASE j \notin DOMAIN messages
      <4>1. messages'[j] = m /\ messages'[i] = messages[i]
        BY <1>4, <3>1, <3>3
      <4>2. messages[i].entry.task = t /\ messages[i].entry.seq <= sent[t]
        BY <1>3, <1>8, <2>1, <3>1, <4>1
      <4>3. messages[i].entry.seq \in 1..4 /\ n \in 1..4 /\ sent[t] \in 0..4 /\ sent[t] < n
        BY <1>1, <1>2, <1>6, <1>8, <2>1, <3>1, <4>1
      <4>. QED BY <1>3, <4>1, <4>2, <4>3
    <3>. QED BY <3>2, <3>3
  <2>2. ASSUME NEW i \in DOMAIN messages', IsEvent(messages'[i])
        PROVE  messages'[i].entry.seq <= sent'[messages'[i].entry.task]
    <3>1. CASE i \in DOMAIN messages
      <4>1. messages'[i] = messages[i]
        BY <1>4, <3>1
      <4>2. messages[i].entry.task \in Task /\ messages[i].entry.seq \in 1..4
              /\ messages[i].entry.seq <= sent[messages[i].entry.task]
        BY <1>8, <2>2, <3>1, <4>1
      <4>3. sent'[messages[i].entry.task] \in 0..4 /\ sent[messages[i].entry.task] \in 0..4
              /\ sent[messages[i].entry.task] <= sent'[messages[i].entry.task]
        BY <1>1, <1>6, <4>2
      <4>. QED BY <4>1, <4>2, <4>3
    <3>2. CASE i \notin DOMAIN messages
      BY <1>2, <1>3, <1>4, <1>6, <3>2
    <3>. QED BY <3>1, <3>2
  <2>3. ASSUME NEW i \in DOMAIN finished' PROVE sent'[finished'[i]] = 4
    <3>1. i \in DOMAIN finished /\ finished' = finished /\ finished[i] \in Task /\ sent[finished[i]] = 4
      BY <1>1, <1>2, LenProperties, ElementOfSeq DEF FeedInv, BroadcastInOrder
    <3>. QED BY <1>2, <3>1
  <2>. QED BY <2>1, <2>2, <2>3 DEF BroadcastInOrder
<1>10. EndIsBroadcast'
  <2>. SUFFICES ASSUME drops = 0 PROVE EndIsBroadcast'
    BY <1>2 DEF EndIsBroadcast
  <2>1. messages' # <<>> => open
    <3>1. ~open => messages' = messages
      BY <1>2 DEF Broadcast
    <3>. QED BY <3>1 DEF FeedInv, EndIsBroadcast
  <2>2. ASSUME NEW i \in DOMAIN messages', IsEvent(messages'[i]), messages'[i].entry.task \in ToSet(finished)
        PROVE  \E j \in i + 1..Len(messages') : messages'[j] = ResultMessage(messages'[i].entry.task)
    <3>1. messages'[i].entry.task # t
      BY <1>1, <1>2, <2>2, LenProperties DEF FeedInv, BroadcastInOrder, ToSet
    <3>2. i \in DOMAIN messages /\ messages'[i] = messages[i]
      BY <1>3, <1>4, <3>1
    <3>3. PICK j \in i + 1..Len(messages) : messages[j] = ResultMessage(messages[i].entry.task)
      BY <2>2, <3>2 DEF FeedInv, EndIsBroadcast
    <3>4. j \in DOMAIN messages /\ j \in i + 1..Len(messages')
      BY <1>5, <3>2, <3>3
    <3>. QED BY <1>4, <3>2, <3>3, <3>4
  <2>. QED BY <1>2, <2>1, <2>2 DEF EndIsBroadcast
<1>. QED BY <1>7, <1>9, <1>10 DEF FeedInv

LEMMA MinOfNaturals ==
    ASSUME NEW S \in SUBSET Nat, S # {}
    PROVE  Min(S) \in S
<1>. DEFINE P == { n \in Nat : \A m \in 0..n : m \notin S }
<1>1. \E x \in S : \A y \in S : x <= y
  <2>. SUFFICES ASSUME \A x \in S : \E y \in S : y < x PROVE FALSE
    OBVIOUS
  <2>1. 0 \in P
    OBVIOUS
  <2>2. ASSUME NEW n \in Nat, n \in P PROVE n + 1 \in P
    BY <2>2
  <2>3. \A n \in Nat : n \in P
    <3>. HIDE DEF P
    <3>. QED BY <2>1, <2>2, NaturalInduction
  <2>4. \A n \in Nat : n \notin S
    BY <2>3
  <2>. QED BY <2>4
<1>. QED BY <1>1 DEF Min

LEMMA RemoveFirstTyped ==
    ASSUME NEW S, NEW s \in Seq(S), NEW e
    PROVE  RemoveFirst(s, e) \in Seq(S)
<1>1. Len(s) \in Nat /\ \A i \in 1..Len(s) : s[i] \in S
  BY LenProperties, ElementOfSeq
<1>2. CASE \E i \in 1..Len(s) : s[i] = e
  <2>. DEFINE I == { i \in 1..Len(s) : s[i] = e }
              i == Min(I)
  <2>1. i \in 1..Len(s)
    <3>1. I # {} /\ I \in SUBSET Nat
      BY <1>2
    <3>. HIDE DEF I
    <3>2. i \in I
      BY <3>1, MinOfNaturals
    <3>. QED BY <3>2 DEF I
  <2>2. RemoveFirst(s, e) = SubSeq(s, 1, i - 1) \o SubSeq(s, i + 1, Len(s))
    BY <1>2 DEF RemoveFirst, RemoveAt, SelectInSeq
  <2>. HIDE DEF i
  <2>3. SubSeq(s, 1, i - 1) \in Seq(S) /\ SubSeq(s, i + 1, Len(s)) \in Seq(S)
    BY <1>1, <2>1, SubSeqProperties
  <2>. QED BY <2>2, <2>3, ConcatProperties
<1>3. CASE ~\E i \in 1..Len(s) : s[i] = e
  BY <1>3 DEF RemoveFirst
<1>. QED BY <1>2, <1>3

LEMMA FinishKeepsFeed ==
    ASSUME FeedInv, NEW t \in Task, Finish(t)
    PROVE  FeedInv'
<1>. DEFINE m == ResultMessage(t)
<1>1. /\ messages \in Seq(Message) /\ sent \in [Task -> 0..4] /\ finished \in Seq(Task)
      /\ recent \in Seq(Task) /\ drops \in Nat /\ open \in BOOLEAN /\ received \in 0..Len(messages)
  BY DEF FeedInv, FeedTypes
<1>2. sent[t] = 4 /\ finished' = Append(finished, t) /\ Broadcast(m)
        /\ recent' = Append(RemoveFirst(recent, t), t)
        /\ UNCHANGED <<submitted, sent, open, received, drops>>
  BY DEF Finish, EventKinds
<1>3. m \in Message /\ ~IsEvent(m)
  BY MessageTyped DEF ResultMessage, IsEvent
<1>4. /\ messages' \in Seq(Message)
      /\ Len(messages') = Len(messages) \/ Len(messages') = Len(messages) + 1
      /\ open => messages' = Append(messages, m) /\ Len(messages') = Len(messages) + 1
                        /\ messages'[Len(messages')] = m
      /\ \A i \in DOMAIN messages : i \in DOMAIN messages' /\ messages'[i] = messages[i]
      /\ \A i \in DOMAIN messages' : i \notin DOMAIN messages =>
                i = Len(messages) + 1 /\ messages'[i] = m
  <2>. HIDE DEF m
  <2>. QED BY <1>1, <1>2, <1>3, BroadcastAppends
<1>5. DOMAIN messages = 1..Len(messages) /\ Len(messages) \in Nat /\ DOMAIN messages' = 1..Len(messages')
        /\ Len(messages') \in Nat /\ Len(messages) <= Len(messages') /\ Len(messages') <= Len(messages) + 1
  <2>1. DOMAIN messages = 1..Len(messages) /\ Len(messages) \in Nat
    BY <1>1, LenProperties
  <2>2. DOMAIN messages' = 1..Len(messages') /\ Len(messages') \in Nat
    BY <1>4, LenProperties
  <2>3. Len(messages) <= Len(messages') /\ Len(messages') <= Len(messages) + 1
    <3>1. Len(messages') = Len(messages) \/ Len(messages') = Len(messages) + 1
      BY <1>4
    <3>2. Len(messages) \in Nat /\ Len(messages') \in Nat
      BY <2>1, <2>2
    <3>. QED BY <3>1, <3>2
  <2>. QED BY <2>1, <2>2, <2>3
<1>6. \A i \in DOMAIN messages' : IsEvent(messages'[i]) =>
        i \in DOMAIN messages /\ messages'[i] = messages[i]
  BY <1>3, <1>4
<1>7. DOMAIN finished' = 1..Len(finished) + 1 /\ finished' \in Seq(Task) /\ DOMAIN finished = 1..Len(finished)
        /\ Len(finished) \in Nat
        /\ finished'[Len(finished) + 1] = t /\ \A i \in 1..Len(finished) : finished'[i] = finished[i]
  BY <1>1, <1>2, AppendProperties, LenProperties
<1>8. FeedTypes'
  <2>1. received' \in 0..Len(messages')
    BY <1>1, <1>2, <1>5
  <2>2. recent' \in Seq(Task)
    BY <1>1, <1>2, RemoveFirstTyped, AppendProperties
  <2>. QED BY <1>1, <1>2, <1>4, <1>7, <2>1, <2>2 DEF FeedInv, FeedTypes
<1>9. BroadcastInOrder'
  <2>1. \A i \in DOMAIN finished' : sent'[finished'[i]] = 4
    BY <1>2, <1>7 DEF FeedInv, BroadcastInOrder
  <2>2. \A i \in DOMAIN messages' :
          IsEvent(messages'[i]) => messages'[i].entry.seq <= sent'[messages'[i].entry.task]
    BY <1>2, <1>6 DEF FeedInv, BroadcastInOrder
  <2>3. \A i, j \in DOMAIN messages' :
          i < j /\ IsEvent(messages'[i]) /\ IsEvent(messages'[j])
            /\ messages'[i].entry.task = messages'[j].entry.task
          => messages'[i].entry.seq < messages'[j].entry.seq
    BY <1>6 DEF FeedInv, BroadcastInOrder
  <2>. QED BY <2>1, <2>2, <2>3 DEF BroadcastInOrder
<1>10. EndIsBroadcast'
  <2>. SUFFICES ASSUME drops = 0 PROVE EndIsBroadcast'
    BY <1>2 DEF EndIsBroadcast
  <2>1. messages' # <<>> => open
    <3>1. ~open => messages' = messages
      BY <1>2 DEF Broadcast
    <3>. QED BY <3>1 DEF FeedInv, EndIsBroadcast
  <2>2. ASSUME NEW i \in DOMAIN messages', IsEvent(messages'[i]), messages'[i].entry.task \in ToSet(finished')
        PROVE  \E j \in i + 1..Len(messages') : messages'[j] = ResultMessage(messages'[i].entry.task)
    <3>1. i \in DOMAIN messages /\ messages'[i] = messages[i]
      BY <1>6, <2>2
    <3>2. CASE messages[i].entry.task = t
      <4>1. open
        BY <3>1, <1>5, EmptySeq DEF FeedInv, EndIsBroadcast
      <4>2. Len(messages') = Len(messages) + 1 /\ messages'[Len(messages')] = m
        BY <1>4, <4>1
      <4>3. Len(messages') \in i + 1..Len(messages')
        BY <1>5, <3>1, <4>2
      <4>. QED BY <3>1, <3>2, <4>2, <4>3
    <3>3. CASE messages[i].entry.task # t
      <4>1. messages[i].entry.task \in ToSet(finished)
        BY <1>7, <2>2, <3>1, <3>3 DEF ToSet
      <4>2. PICK j \in i + 1..Len(messages) : messages[j] = ResultMessage(messages[i].entry.task)
        BY <2>2, <3>1, <4>1 DEF FeedInv, EndIsBroadcast
      <4>3. j \in DOMAIN messages /\ j \in i + 1..Len(messages')
        BY <1>5, <3>1, <4>2
      <4>. QED BY <1>4, <3>1, <4>2, <4>3
    <3>. QED BY <3>2, <3>3
  <2>. QED BY <1>2, <2>1, <2>2 DEF EndIsBroadcast
<1>. QED BY <1>8, <1>9, <1>10 DEF FeedInv

LEMMA NextKeepsFeed ==
    ASSUME FeedInv, [Next]_vars
    PROVE  FeedInv'
<1>1. ASSUME ServerStep PROVE FeedInv'
  BY <1>1, SubmitKeepsFeed, EmitKeepsFeed, FinishKeepsFeed, ConnectKeepsFeed, DisconnectKeepsFeed
     DEF ServerStep
<1>2. ASSUME Send PROVE FeedInv'
  BY <1>2, SubmitKeepsFeed, FeedUnchanged DEF Send
<1>3. ASSUME FetchStep \/ New \/ Leave \/ Return \/ (\E t \in Task : Select(t)) \/ UNCHANGED vars
      PROVE  FeedInv'
  <2>1. UNCHANGED feedVars
    BY <1>3 DEF FetchStep, New, Leave, Return, Select, vars
  <2>. QED BY <2>1, FeedUnchanged
<1>. QED BY <1>1, <1>2, <1>3, DeliverKeepsFeed DEF Next

-----------------------------------------------------------------------------
(* What the page holds: types, chat, fetch and intent.                     *)

PageInv == PageTypes /\ ChatInv(view) /\ FetchInv /\ IntentInv

\* A view that is about a run stays about it.
LEMMA ProcessKeepsCurrent ==
    ASSUME NEW v \in View, NEW m \in Message, v.current # None
    PROVE  Process(v, m).current = v.current
BY DEF Process, Gate, View

LEMMA NextMessageTyped ==
    ASSUME FeedTypes, Arriving
    PROVE  messages[received + 1] \in Message
<1>1. received + 1 \in 1..Len(messages)
  BY LenProperties DEF FeedTypes, Arriving
<1>. QED BY <1>1, ElementOfSeq DEF FeedTypes

LEMMA DeliverKeepsPage ==
    ASSUME FeedTypes, PageInv, Deliver
    PROVE  PageInv'
<1>. DEFINE m == messages[received + 1]
<1>1. m \in Message /\ view \in View
  BY NextMessageTyped DEF Deliver, PageInv, PageTypes
<1>2. view' = (IF shown THEN Process(view, m) ELSE view) /\ UNCHANGED <<shown, fetch, intent, clicks>>
  BY DEF Deliver
<1>. HIDE DEF m
<1>3. view' \in View /\ ChatInv(view')
  BY <1>1, <1>2, ProcessTyped, ProcessKeepsChat DEF PageInv
<1>4. view.current # None => view'.current = view.current
  BY <1>1, <1>2, ProcessKeepsCurrent
<1>5. PageTypes'
  BY <1>2, <1>3 DEF PageInv, PageTypes
<1>6. FetchInv'
  BY <1>2, <1>4, FeedAssumption DEF PageInv, FetchInv, FeedAssumption
<1>7. ~shown => intent.by = "leave" /\ ~view'.streaming
  BY <1>2 DEF PageInv, IntentInv
<1>8. IntentInv'
  BY <1>2, <1>7 DEF PageInv, IntentInv
<1>. QED BY <1>3, <1>5, <1>6, <1>8 DEF PageInv

LEMMA FetchTyped ==
    ASSUME PageTypes
    PROVE  fetch.task \in Task \cup {None} /\ fetch.reply \in Seq(Entries)
BY DEF PageTypes

LEMMA NextStepTyped ==
    ASSUME NEW step \in {"none", "tasks", "runs", "listed", "detail", "answered"},
           NEW t \in Task \cup {None}, NEW reply \in Seq(Entries), NextStep(step, t, reply)
    PROVE  fetch' \in [step : {"none", "tasks", "runs", "listed", "detail", "answered"},
                       task : Task \cup {None}, reply : Seq(Entries)]
             /\ fetch'.step = step /\ fetch'.task = t /\ fetch'.reply = reply
BY DEF NextStep

LEMMA NoFetchTyped ==
    NoFetch \in [step : {"none", "tasks", "runs", "listed", "detail", "answered"},
                 task : Task \cup {None}, reply : Seq(Entries)]
      /\ NoFetch.step = "none"
<1>1. <<>> \in Seq(Entries)
  OBVIOUS
<1>. QED BY <1>1 DEF NoFetch

\* What the routes answer.
LEMMA AnswersTyped ==
    ASSUME FeedTypes
    PROVE  /\ finished # <<>> => Last(finished) \in Task
           /\ \A t \in NewestStored : t \in Task
           /\ \A t \in Task : \A events \in StoredEvents(t) :
                events \in Seq(Entries) /\ OfRun(events, t)
<1>1. finished \in Seq(Task) /\ recent \in Seq(Task) /\ sent \in [Task -> 0..4]
  BY DEF FeedTypes
<1>2. finished # <<>> => Last(finished) \in Task
  BY <1>1, EmptySeq, LenProperties, ElementOfSeq DEF Last
<1>3. \A t \in NewestStored : t \in Task
  BY <1>1, LenProperties, ElementOfSeq DEF NewestStored
<1>4. ASSUME NEW t \in Task, NEW events \in StoredEvents(t)
      PROVE  events \in Seq(Entries) /\ OfRun(events, t)
  <2>1. PICK k \in 0..4 : events = [n \in 1..k |-> Entry(t, n)]
    <3>1. PICK k \in IF t \in ToSet(finished) THEN {sent[t]} ELSE 0..sent[t] :
                 events = [n \in 1..k |-> Entry(t, n)]
      BY <1>4 DEF StoredEvents
    <3>2. sent[t] \in 0..4
      BY <1>1
    <3>3. k \in 0..4
      BY <3>2
    <3>. QED BY <3>1, <3>3
  <2>2. \A n \in 1..k : Entry(t, n) \in Entries
    BY MessageTyped
  <2>3. events \in Seq(Entries)
    <3>. HIDE DEF Entry
    <3>. QED BY <2>1, <2>2, IsASeq
  <2>4. \A n \in 1..k : events[n].task = t
    BY <2>1 DEF Entry
  <2>5. DOMAIN events = 1..k
    BY <2>1
  <2>. QED BY <2>3, <2>4, <2>5 DEF OfRun
<1>. QED BY <1>2, <1>3, <1>4

\* A request or an answer that leaves the view alone.
LEMMA AnswerKeepsPage ==
    ASSUME FeedTypes, PageInv, ReadTasks \/ ReadRuns \/ ReadRun \/ FetchFails,
           UNCHANGED <<view, shown, intent, clicks>>
    PROVE  PageInv'
<1>. DEFINE Type == [step : {"none", "tasks", "runs", "listed", "detail", "answered"},
                     task : Task \cup {None}, reply : Seq(Entries)]
<1>1. <<>> \in Seq(Entries)
  OBVIOUS
<1>2. /\ fetch' \in Type
      /\ fetch'.step = "listed" => fetch'.task \in Task
      /\ fetch'.step # "detail"
      /\ fetch'.step = "answered" => /\ fetch.step = "detail" /\ fetch'.task = fetch.task
                                     /\ OfRun(fetch'.reply, fetch'.task)
      /\ fetch'.step = "none" \/ fetch.step \in {"tasks", "runs"}
           \/ (fetch.step = "detail" /\ fetch'.step = "answered")
  <2>1. CASE ReadTasks
    BY <1>1, <2>1, NextStepTyped, AnswersTyped DEF ReadTasks
  <2>2. CASE ReadRuns
    BY <1>1, <2>2, NextStepTyped, NoFetchTyped, AnswersTyped DEF ReadRuns
  <2>3. CASE ReadRun
    <3>1. PICK events \in StoredEvents(fetch.task) : NextStep("answered", fetch.task, events)
      BY <2>3 DEF ReadRun
    <3>2. fetch.step = "detail" /\ fetch.task \in Task
      BY <2>3 DEF ReadRun, PageInv, FetchInv
    <3>3. events \in Seq(Entries) /\ OfRun(events, fetch.task)
      BY <3>1, <3>2, AnswersTyped
    <3>4. fetch' \in Type /\ fetch'.step = "answered" /\ fetch'.task = fetch.task /\ fetch'.reply = events
      BY <3>1, <3>2, <3>3, NextStepTyped
    <3>. QED BY <3>2, <3>3, <3>4
  <2>4. CASE FetchFails
    BY <1>1, <2>4, NextStepTyped, NoFetchTyped DEF FetchFails
  <2>. QED BY <2>1, <2>2, <2>3, <2>4
<1>3. PageTypes'
  BY <1>2 DEF PageInv, PageTypes
<1>4. FetchInv'
  BY <1>2 DEF PageInv, FetchInv
<1>5. IntentInv'
  BY <1>2 DEF PageInv, IntentInv
<1>6. ChatInv(view)'
  BY DEF PageInv, ChatInv, EndsWithAssistant
<1>. QED BY <1>3, <1>4, <1>5, <1>6 DEF PageInv

\* The page turns to the last run of the list.
LEMMA TakeLastKeepsPage ==
    ASSUME PageInv, TakeLast, UNCHANGED <<shown, intent, clicks>>
    PROVE  PageInv'
<1>1. fetch.step = "listed" /\ fetch.task \in Task /\ view \in View /\ view.chat \in Seq(Bubble)
  BY DEF TakeLast, PageInv, PageTypes, FetchInv, View
<1>2. view' = [view EXCEPT !.current = fetch.task, !.chat = <<UserMessage>>]
        /\ NextStep("detail", fetch.task, <<>>)
  BY DEF TakeLast
<1>3. <<UserMessage>> \in Seq(Bubble) /\ <<>> \in Seq(Entries)
  BY BubbleTyped
<1>4. view' \in View /\ view'.current = fetch.task /\ view'.chat = <<UserMessage>>
        /\ view'.streaming = view.streaming
  BY <1>1, <1>2, <1>3 DEF View
<1>5. fetch'.step = "detail" /\ fetch'.task = fetch.task
        /\ fetch' \in [step : {"none", "tasks", "runs", "listed", "detail", "answered"},
                       task : Task \cup {None}, reply : Seq(Entries)]
  BY <1>1, <1>2, <1>3, NextStepTyped
<1>6. ChatInv(view')
  BY <1>4 DEF ChatInv, EndsWithAssistant, UserMessage, OfOneRun, Last
<1>7. PageTypes'
  BY <1>4, <1>5 DEF PageInv, PageTypes
<1>8. FetchInv'
  BY <1>1, <1>4, <1>5 DEF FetchInv
<1>9. IntentInv'
  BY <1>1, <1>4, <1>5 DEF PageInv, IntentInv
<1>. QED BY <1>6, <1>7, <1>8, <1>9 DEF PageInv

\* What a replay makes of the view: the log and a bubble of the current run.
LEMMA ReplayedView ==
    ASSUME PageInv, Replay
    PROVE  /\ view' \in View /\ view'.current = view.current /\ view'.streaming = view.streaming
           /\ view.current = fetch.task /\ fetch.task \in Task
           /\ view'.log = fetch.reply /\ OfRun(view'.log, view.current)
           /\ EndsWithAssistant(view'.chat) =>
                (EndsWithAssistant(view.chat) /\ view'.chat = view.chat)
                  \/ OfRun(Last(view'.chat).text, view.current)
           /\ \A i \in DOMAIN view'.chat :
                \/ i \in DOMAIN view.chat /\ view'.chat[i] = view.chat[i]
                \/ OfRun(view'.chat[i].text, view.current)
<1>. DEFINE text == TextOf(fetch.reply)
            b == AssistantMessage(text)
<1>1. /\ view \in View /\ view.chat \in Seq(Bubble) /\ fetch.reply \in Seq(Entries)
      /\ fetch.task \in Task /\ view.current = fetch.task /\ OfRun(fetch.reply, fetch.task)
  BY FetchTyped DEF Replay, PageInv, PageTypes, FetchInv, View
<1>2. text \in Seq(Entries) /\ OfRun(text, fetch.task)
  BY <1>1, TextIsOfRun
<1>3. b \in Bubble /\ b.text = text
  <2>1. b.text = text
    BY DEF AssistantMessage
  <2>. HIDE DEF text
  <2>. QED BY <1>2, <2>1, BubbleTyped
<1>4. view' = [view EXCEPT !.log = fetch.reply,
                           !.chat = IF text = <<>> \/ EndsWithAssistant(@) THEN @ ELSE Append(@, b)]
  BY DEF Replay
<1>. HIDE DEF text, b
<1>5. /\ Append(view.chat, b) \in Seq(Bubble) /\ Last(Append(view.chat, b)) = b
      /\ \A i \in DOMAIN Append(view.chat, b) :
           \/ i \in DOMAIN view.chat /\ Append(view.chat, b)[i] = view.chat[i]
           \/ Append(view.chat, b)[i] = b
  <2>1. DOMAIN view.chat = 1..Len(view.chat) /\ Len(view.chat) \in Nat
    BY <1>1, LenProperties
  <2>. QED BY <1>1, <1>3, <2>1, NewBubble
<1>6. view'.chat = view.chat \/ view'.chat = Append(view.chat, b)
  BY <1>1, <1>4 DEF View
<1>7. view' \in View /\ view'.current = view.current /\ view'.streaming = view.streaming
        /\ view'.log = fetch.reply
  BY <1>1, <1>4, <1>5 DEF View
<1>8. OfRun(b.text, view.current)
  BY <1>1, <1>2, <1>3
<1>9. EndsWithAssistant(view'.chat) =>
        (EndsWithAssistant(view.chat) /\ view'.chat = view.chat)
          \/ OfRun(Last(view'.chat).text, view.current)
  BY <1>5, <1>6, <1>8
<1>10. \A i \in DOMAIN view'.chat :
         \/ i \in DOMAIN view.chat /\ view'.chat[i] = view.chat[i]
         \/ OfRun(view'.chat[i].text, view.current)
  BY <1>5, <1>6, <1>8
<1>. QED BY <1>1, <1>7, <1>9, <1>10

LEMMA ReplayKeepsPage ==
    ASSUME PageInv, Replay, UNCHANGED <<shown, intent, clicks>>
    PROVE  PageInv'
<1>1. fetch' = NoFetch /\ fetch.step = "answered"
  BY DEF Replay
<1>2. \A i \in DOMAIN view'.chat : OfOneRun(view'.chat[i].text)
  BY ReplayedView, OfRunIsOfOneRun DEF PageInv, ChatInv
<1>3. EndsWithAssistant(view'.chat) => view'.current # None /\ OfRun(Last(view'.chat).text, view'.current)
  BY ReplayedView, FeedAssumption DEF PageInv, ChatInv, FeedAssumption
<1>4. ChatInv(view')
  BY <1>2, <1>3 DEF ChatInv
<1>5. PageTypes'
  BY <1>1, ReplayedView, NoFetchTyped DEF PageInv, PageTypes
<1>6. FetchInv' /\ IntentInv'
  BY <1>1, ReplayedView, NoFetchTyped DEF PageInv, FetchInv, IntentInv
<1>. QED BY <1>4, <1>5, <1>6 DEF PageInv

LEMMA SentView ==
    ASSUME PageInv, Send
    PROVE  /\ view' \in View /\ view'.log = <<>> /\ view'.current = None
           /\ view'.streaming = FALSE /\ view'.chat = Append(view.chat, UserMessage)
           /\ fetch' = NoFetch /\ shown /\ shown'
           /\ intent' \in [by : {"send"}, task : Task \cup {None}]
           /\ (\E t \in Task : Submit(t)) \/ UNCHANGED feedVars
<1>1. view \in View /\ view.chat \in Seq(Bubble) /\ <<>> \in Seq(Entries)
  BY DEF PageInv, PageTypes, View
<1>2. Append(view.chat, UserMessage) \in Seq(Bubble)
  BY <1>1, BubbleTyped, AppendProperties
<1>3. view' = [view EXCEPT !.log = <<>>, !.current = None, !.chat = Append(@, UserMessage)]
        /\ ~view.streaming /\ fetch' = NoFetch /\ shown /\ shown'
  BY DEF Send, Idle, AbortFetch
<1>4. view' \in View /\ view'.log = <<>> /\ view'.current = None
        /\ view'.streaming = view.streaming /\ view'.chat = Append(view.chat, UserMessage)
  BY <1>1, <1>2, <1>3 DEF View
<1>5. view.streaming \in BOOLEAN
  BY <1>1 DEF View
<1>6. intent' \in [by : {"send"}, task : Task \cup {None}]
        /\ ((\E t \in Task : Submit(t)) \/ UNCHANGED feedVars)
  BY DEF Send, Click
<1>. QED BY <1>3, <1>4, <1>5, <1>6

LEMMA SendKeepsPage ==
    ASSUME PageInv, Send
    PROVE  PageInv'
<1>1. view.chat \in Seq(Bubble)
  BY DEF PageInv, PageTypes, View
<1>2. DOMAIN view.chat = 1..Len(view.chat) /\ Len(view.chat) \in Nat
  BY <1>1, LenProperties
<1>3. view'.chat = Append(view.chat, UserMessage)
  BY SentView
<1>4. /\ Last(view'.chat) = UserMessage /\ DOMAIN view'.chat = 1..Len(view.chat) + 1
      /\ \A i \in 1..Len(view.chat) : view'.chat[i] = view.chat[i]
      /\ view'.chat[Len(view.chat) + 1] = UserMessage
  <2>. DEFINE new == Append(view.chat, UserMessage)
  <2>1. /\ Last(new) = UserMessage /\ DOMAIN new = 1..Len(view.chat) + 1
        /\ \A i \in 1..Len(view.chat) : new[i] = view.chat[i]
        /\ new[Len(view.chat) + 1] = UserMessage
    BY <1>1, NewBubble, BubbleTyped
  <2>. HIDE DEF new
  <2>2. view'.chat = new
    BY <1>3 DEF new
  <2>. QED BY <2>1, <2>2
<1>5. ~EndsWithAssistant(view'.chat)
  BY <1>4 DEF EndsWithAssistant, UserMessage
<1>6. OfOneRun(UserMessage.text)
  BY DEF UserMessage, OfOneRun
<1>7. \A i \in DOMAIN view'.chat : OfOneRun(view'.chat[i].text)
  <2>1. \A i \in 1..Len(view.chat) : OfOneRun(view.chat[i].text)
    BY <1>2 DEF PageInv, ChatInv
  <2>2. \A i \in 1..Len(view.chat) + 1 : i \in 1..Len(view.chat) \/ i = Len(view.chat) + 1
    BY <1>2
  <2>. QED BY <1>4, <1>6, <2>1, <2>2
<1>8. ChatInv(view')
  BY <1>5, <1>7 DEF ChatInv
<1>9. PageTypes'
  BY SentView, NoFetchTyped DEF PageInv, PageTypes
<1>10. FetchInv' /\ IntentInv'
  BY SentView, NoFetchTyped DEF FetchInv, IntentInv
<1>. QED BY <1>8, <1>9, <1>10 DEF PageInv

\* A new chat, or another tab: an empty view and no fetch.
LEMMA ClearKeepsPage ==
    ASSUME PageInv, New \/ Leave
    PROVE  PageInv'
<1>1. /\ view' = EmptyView /\ fetch' = NoFetch
      /\ \/ intent' = [by |-> "new", task |-> None] /\ shown /\ shown' = shown
         \/ intent' = [by |-> "leave", task |-> None] /\ shown' = FALSE
  BY DEF New, Leave, Click, AbortFetch
<1>2. shown \in BOOLEAN
  BY DEF PageInv, PageTypes
<1>3. PageTypes'
  <2>1. shown' \in BOOLEAN
    BY <1>1, <1>2
  <2>2. intent' \in [by : {"load", "send", "new", "leave", "select"}, task : Task \cup {None}]
    BY <1>1
  <2>. QED BY <1>1, <2>1, <2>2, NoFetchTyped, EmptyViewIsGood DEF PageTypes
<1>4. ChatInv(view')
  BY <1>1, EmptyViewIsGood
<1>5. FetchInv' /\ IntentInv'
  BY <1>1, NoFetchTyped DEF FetchInv, IntentInv, EmptyView
<1>. QED BY <1>3, <1>4, <1>5 DEF PageInv

LEMMA ReturnKeepsPage ==
    ASSUME FeedTypes, PageInv, Return
    PROVE  PageInv'
<1>1. messages \in Seq(Message) /\ received \in 0..Len(messages)
  BY DEF FeedTypes
<1>2. SubSeq(messages, 1, received) \in Seq(Message)
  BY <1>1, LenProperties, ElementOfSeq, SubSeqProperties
<1>3. view' \in View /\ ChatInv(view')
  <2>1. view' = FoldLeft(Process, EmptyView, SubSeq(messages, 1, received))
    BY DEF Return
  <2>2. FoldLeft(Process, EmptyView, SubSeq(messages, 1, received)) \in View
          /\ ChatInv(FoldLeft(Process, EmptyView, SubSeq(messages, 1, received)))
    BY <1>2, RebuiltIsGood
  <2>. QED BY <2>1, <2>2
<1>4. fetch' = [NoFetch EXCEPT !.step = "tasks"] /\ shown' = TRUE
        /\ intent' = [by |-> "load", task |-> None]
  BY DEF Return, Click
<1>5. PageTypes'
  <2>1. <<>> \in Seq(Entries)
    OBVIOUS
  <2>. QED BY <1>3, <1>4, <2>1 DEF PageTypes, NoFetch
<1>6. FetchInv' /\ IntentInv'
  BY <1>4 DEF FetchInv, IntentInv, NoFetch
<1>. QED BY <1>3, <1>5, <1>6 DEF PageInv

LEMMA SelectedView ==
    ASSUME NEW t \in Task, Select(t)
    PROVE  /\ view' \in View /\ view'.current = t /\ view'.log = <<>> /\ view'.chat = <<UserMessage>>
           /\ view'.streaming = FALSE
           /\ fetch' \in [step : {"none", "tasks", "runs", "listed", "detail", "answered"},
                          task : Task \cup {None}, reply : Seq(Entries)]
           /\ fetch'.step = "detail" /\ fetch'.task = t
           /\ intent' = [by |-> "select", task |-> t] /\ shown' = TRUE /\ UNCHANGED feedVars
<1>1. <<UserMessage>> \in Seq(Bubble) /\ <<>> \in Seq(Entries)
  BY BubbleTyped
<1>2. view' = ReplayView(t) /\ NextStep("detail", t, <<>>) /\ UNCHANGED feedVars
        /\ intent' = [by |-> "select", task |-> t] /\ shown' = TRUE
  BY DEF Select, Click
<1>3. fetch' \in [step : {"none", "tasks", "runs", "listed", "detail", "answered"},
                          task : Task \cup {None}, reply : Seq(Entries)]
        /\ fetch'.step = "detail" /\ fetch'.task = t
  BY <1>1, <1>2, NextStepTyped
<1>4. view' \in View /\ view'.current = t /\ view'.log = <<>> /\ view'.chat = <<UserMessage>>
        /\ view'.streaming = FALSE
  BY <1>1, <1>2 DEF ReplayView, EmptyView, View
<1>. QED BY <1>2, <1>3, <1>4

LEMMA SelectKeepsPage ==
    ASSUME PageInv, NEW t \in Task, Select(t)
    PROVE  PageInv'
<1>1. /\ view' \in View /\ view'.current = t /\ view'.streaming = FALSE
      /\ fetch' \in [step : {"none", "tasks", "runs", "listed", "detail", "answered"},
                     task : Task \cup {None}, reply : Seq(Entries)]
      /\ fetch'.step = "detail" /\ fetch'.task = t
      /\ intent' = [by |-> "select", task |-> t] /\ shown' = TRUE
  BY SelectedView
<1>2. PageTypes'
  <2>1. intent' \in [by : {"load", "send", "new", "leave", "select"}, task : Task \cup {None}]
    BY <1>1
  <2>. QED BY <1>1, <2>1 DEF PageTypes
<1>3. ChatInv(view')
  <2>1. view'.chat = <<UserMessage>>
    BY SelectedView
  <2>. QED BY <2>1 DEF ChatInv, EndsWithAssistant, UserMessage, OfOneRun, Last
<1>4. fetch'.step # "answered" /\ fetch'.step # "listed"
  BY <1>1
<1>5. FetchInv' /\ IntentInv'
  BY <1>1, <1>4 DEF FetchInv, IntentInv
<1>. QED BY <1>2, <1>3, <1>5 DEF PageInv

LEMMA NextKeepsPage ==
    ASSUME FeedTypes, PageInv, [Next]_vars
    PROVE  PageInv'
<1>1. ASSUME UNCHANGED <<shown, view, fetch, intent>> PROVE PageInv'
  BY <1>1 DEF PageInv, PageTypes, ChatInv, FetchInv, IntentInv, EndsWithAssistant
<1>2. CASE ServerStep
  BY <1>1, <1>2 DEF ServerStep, pageVars
<1>3. CASE FetchStep
  BY <1>3, AnswerKeepsPage, TakeLastKeepsPage, ReplayKeepsPage DEF FetchStep
<1>4. CASE UNCHANGED vars
  BY <1>1, <1>4 DEF vars, pageVars
<1>. QED BY <1>2, <1>3, <1>4, DeliverKeepsPage, SendKeepsPage, ClearKeepsPage, ReturnKeepsPage,
            SelectKeepsPage DEF Next

-----------------------------------------------------------------------------
(* A run that was picked stays alone.                                      *)

LEMMA AppendKeepsRun ==
    ASSUME NEW s \in Seq(Entries), NEW e \in Entries, NEW t, OfRun(s, t), e.task = t
    PROVE  Append(s, e) \in Seq(Entries) /\ OfRun(Append(s, e), t)
BY AppendProperties, LenProperties DEF OfRun

\* An event that passes the gate is in the log and the chat of its run.
LEMMA DeliveredEvent ==
    ASSUME FeedTypes, PageInv, Deliver, shown, IsEvent(messages[received + 1]),
           Gate(view.current, messages[received + 1].entry.task)
    PROVE  LET e == messages[received + 1].entry IN
           /\ e \in Entries /\ e.task \in Task /\ e.task # None
           /\ view.current = None \/ view.current = e.task
           /\ view'.current = e.task /\ view'.log = Append(view.log, e)
           /\ view'.chat = ChatWith(view.chat, e)
<1>. DEFINE m == messages[received + 1]
<1>1. m \in Message /\ view' = Process(view, m) /\ m.type # "result" /\ Gate(view.current, m.entry.task)
  BY NextMessageTyped DEF Deliver, IsEvent
<1>. HIDE DEF m
<1>2. m.entry \in Entries
  BY <1>1 DEF Message
<1>3. m.entry.task \in Task /\ m.entry.task # None
  BY <1>2, EntryTyped, FeedAssumption DEF FeedAssumption
<1>4. view.current = None \/ view.current = m.entry.task
  BY <1>1 DEF Gate
<1>5. view'.current = m.entry.task /\ view'.log = Append(view.log, m.entry)
        /\ view'.chat = ChatWith(view.chat, m.entry)
  BY <1>1, <1>4 DEF Process
<1>. QED BY <1>2, <1>3, <1>4, <1>5 DEF m

\* Any other message leaves the log, the chat and the run alone.
LEMMA DeliveredOther ==
    ASSUME FeedTypes, PageInv, Deliver,
           ~(shown /\ IsEvent(messages[received + 1])
               /\ Gate(view.current, messages[received + 1].entry.task))
    PROVE  view'.current = view.current /\ view'.log = view.log /\ view'.chat = view.chat
<1>. DEFINE m == messages[received + 1]
<1>1. m \in Message /\ view \in View
  BY NextMessageTyped DEF Deliver, PageInv, PageTypes
<1>2. view' = IF shown THEN Process(view, m) ELSE view
  BY DEF Deliver
<1>3. ~shown \/ ~IsEvent(m) \/ ~Gate(view.current, m.entry.task)
  OBVIOUS
<1>. HIDE DEF m
<1>4. m.type \in {"event", "result"}
  BY <1>1 DEF Message
<1>. QED BY <1>1, <1>2, <1>3, <1>4 DEF Process, View, IsEvent

LEMMA DeliverKeepsPure ==
    ASSUME FeedTypes, PageInv, SelectedReplayIsPure, Deliver
    PROVE  SelectedReplayIsPure'
<1>. DEFINE m == messages[received + 1]
            Heeded == shown /\ IsEvent(m) /\ Gate(view.current, m.entry.task)
<1>. SUFFICES ASSUME intent.by = "select" PROVE SelectedReplayIsPure'
  BY DEF Deliver, SelectedReplayIsPure
<1>1. /\ view.current = intent.task /\ intent.task # None /\ intent' = intent
      /\ OfRun(view.log, intent.task)
      /\ \A i \in DOMAIN view.chat : OfRun(view.chat[i].text, intent.task)
  BY FeedAssumption DEF SelectedReplayIsPure, PageInv, IntentInv, FeedAssumption, Deliver
<1>2. CASE Heeded
  <2>. DEFINE e == m.entry
  <2>1. e \in Entries /\ e.task = intent.task /\ view'.current = e.task
          /\ view'.log = Append(view.log, e) /\ view'.chat = ChatWith(view.chat, e)
    BY <1>1, <1>2, DeliveredEvent
  <2>2. view.log \in Seq(Entries) /\ view.chat \in Seq(Bubble)
    BY DEF PageInv, PageTypes, View
  <2>. HIDE DEF e, m
  <2>3. OfRun(view'.log, intent.task)
    BY <1>1, <2>1, <2>2, AppendKeepsRun
  <2>4. EndsWithAssistant(view.chat) => OfRun(Last(view.chat).text, intent.task)
    BY <1>1 DEF PageInv, ChatInv
  <2>5. \A i \in DOMAIN view'.chat :
          \/ i \in DOMAIN view.chat /\ view'.chat[i] = view.chat[i]
          \/ OfRun(view'.chat[i].text, intent.task)
    BY <2>1, <2>2, <2>4, ChatWithKeepsRun
  <2>6. \A i \in DOMAIN view'.chat : OfRun(view'.chat[i].text, intent.task)
    BY <1>1, <2>5
  <2>. QED BY <1>1, <2>1, <2>3, <2>6 DEF SelectedReplayIsPure
<1>3. CASE ~Heeded
  BY <1>1, <1>3, DeliveredOther DEF SelectedReplayIsPure
<1>. QED BY <1>2, <1>3

LEMMA NextKeepsPure ==
    ASSUME FeedTypes, PageInv, SelectedReplayIsPure, [Next]_vars
    PROVE  SelectedReplayIsPure'
<1>1. ASSUME UNCHANGED <<view, intent>> PROVE SelectedReplayIsPure'
  BY <1>1 DEF SelectedReplayIsPure, OfRun
<1>2. CASE ServerStep \/ UNCHANGED vars
  BY <1>1, <1>2 DEF ServerStep, pageVars, vars
<1>3. CASE FetchStep
  <2>1. CASE UNCHANGED view
    BY <1>1, <1>3, <2>1 DEF FetchStep
  <2>2. CASE TakeLast
    BY <1>3, <2>2 DEF FetchStep, TakeLast, PageInv, IntentInv, SelectedReplayIsPure
  <2>3. ASSUME Replay PROVE SelectedReplayIsPure'
    <3>. SUFFICES ASSUME intent.by = "select" PROVE SelectedReplayIsPure'
      BY <1>3 DEF FetchStep, SelectedReplayIsPure
    <3>1. intent' = intent /\ view.current = intent.task
            /\ \A i \in DOMAIN view.chat : OfRun(view.chat[i].text, intent.task)
      BY <1>3 DEF FetchStep, SelectedReplayIsPure
    <3>2. /\ view'.current = view.current /\ OfRun(view'.log, view.current)
          /\ \A i \in DOMAIN view'.chat :
               \/ i \in DOMAIN view.chat /\ view'.chat[i] = view.chat[i]
               \/ OfRun(view'.chat[i].text, view.current)
      BY <2>3, ReplayedView
    <3>. QED BY <3>1, <3>2 DEF SelectedReplayIsPure
  <2>. QED BY <1>3, <2>1, <2>2, <2>3 DEF FetchStep
<1>4. CASE Send \/ New \/ Leave \/ Return
  <2>1. intent'.by # "select"
    BY <1>4 DEF Send, New, Leave, Return, Click
  <2>. QED BY <2>1 DEF SelectedReplayIsPure
<1>5. ASSUME NEW t \in Task, Select(t) PROVE SelectedReplayIsPure'
  <2>1. view'.current = t /\ view'.log = <<>> /\ view'.chat = <<UserMessage>>
    BY <1>5, SelectedView
  <2>2. intent'.task = t
    BY <1>5 DEF Select, Click
  <2>. QED BY <2>1, <2>2 DEF SelectedReplayIsPure, OfRun, UserMessage
<1>. QED BY <1>2, <1>3, <1>4, <1>5, DeliverKeepsPure DEF Next

-----------------------------------------------------------------------------
(* A live log is of one run, and in order.                                 *)

LiveInv == LiveLogIsOfOneRun /\ LiveLogIsBehind

LEMMA LogTyped ==
    ASSUME PageInv
    PROVE  /\ view.log \in Seq(Entries) /\ DOMAIN view.log = 1..Len(view.log) /\ Len(view.log) \in Nat
           /\ \A i \in DOMAIN view.log :
                view.log[i] \in Entries /\ view.log[i].task \in Task /\ view.log[i].seq \in 1..4
<1>1. view.log \in Seq(Entries)
  BY DEF PageInv, PageTypes, View
<1>2. DOMAIN view.log = 1..Len(view.log) /\ Len(view.log) \in Nat
  BY <1>1, LenProperties
<1>3. \A i \in DOMAIN view.log : view.log[i] \in Entries
  BY <1>1, <1>2, ElementOfSeq
<1>. QED BY <1>1, <1>2, <1>3, EntryTyped

\* An event that is emitted comes after all that a log can hold.
LEMMA EmitKeepsLive ==
    ASSUME FeedInv, PageInv, LiveInv, UNCHANGED pageVars, NEW t \in Task, Emit(t)
    PROVE  LiveInv'
<1>. DEFINE n == sent[t] + 1
            m == EventMessage(t, n)
<1>1. messages \in Seq(Message) /\ sent \in [Task -> 0..4] /\ received \in 0..Len(messages)
  BY DEF FeedInv, FeedTypes
<1>2. n \in 1..4 /\ sent[t] < n /\ sent' = [sent EXCEPT ![t] = n] /\ Broadcast(m) /\ received' = received
  BY <1>1 DEF Emit, EventKinds
<1>3. m \in Message /\ m.entry.task = t /\ m.entry.seq = n
  BY <1>2, MessageTyped DEF EventMessage, Entry
<1>. HIDE DEF n, m
<1>4. /\ messages' \in Seq(Message)
      /\ \A i \in DOMAIN messages : i \in DOMAIN messages' /\ messages'[i] = messages[i]
      /\ \A i \in DOMAIN messages' : i \notin DOMAIN messages =>
                i = Len(messages) + 1 /\ messages'[i] = m
  BY <1>1, <1>2, <1>3, BroadcastAppends
<1>5. \A u \in Task : sent'[u] \in 0..4 /\ sent[u] <= sent'[u] /\ (u = t => sent[u] < n)
  BY <1>1, <1>2
<1>6. view' = view /\ intent' = intent
  BY DEF pageVars
<1>7. LiveLogIsOfOneRun'
  BY <1>6 DEF LiveInv, LiveLogIsOfOneRun, OfRun, InOrder
<1>8. ASSUME intent.by \in {"send", "new"}, NEW i \in DOMAIN view.log
      PROVE  /\ view.log[i].seq <= sent'[view.log[i].task]
             /\ \A k \in received + 1..Len(messages') :
                  IsEvent(messages'[k]) /\ messages'[k].entry.task = view.log[i].task
                  => view.log[i].seq < messages'[k].entry.seq
  <2>1. view.log[i].task \in Task /\ view.log[i].seq \in 1..4
    BY LogTyped
  <2>2. view.log[i].seq <= sent[view.log[i].task]
    BY <1>8 DEF LiveInv, LiveLogIsBehind
  <2>3. view.log[i].seq <= sent'[view.log[i].task]
    <3>1. sent'[view.log[i].task] \in 0..4 /\ sent[view.log[i].task] \in 0..4
            /\ sent[view.log[i].task] <= sent'[view.log[i].task]
      BY <1>1, <1>5, <2>1
    <3>. QED BY <2>1, <2>2, <3>1
  <2>4. ASSUME NEW k \in received + 1..Len(messages'), IsEvent(messages'[k]),
               messages'[k].entry.task = view.log[i].task
        PROVE  view.log[i].seq < messages'[k].entry.seq
    <3>1. k \in DOMAIN messages'
      BY <1>1, <1>4, LenProperties
    <3>2. CASE k \in DOMAIN messages
      <4>1. k \in received + 1..Len(messages) /\ messages'[k] = messages[k]
        BY <1>1, <1>4, <3>2, LenProperties
      <4>. QED BY <1>8, <2>4, <4>1 DEF LiveInv, LiveLogIsBehind
    <3>3. CASE k \notin DOMAIN messages
      <4>1. messages'[k] = m
        BY <1>4, <3>1, <3>3
      <4>2. view.log[i].task = t
        BY <1>3, <2>4, <4>1
      <4>3. view.log[i].seq <= sent[t] /\ sent[t] < n /\ sent[t] \in 0..4
        BY <1>1, <1>5, <2>2, <4>2
      <4>. QED BY <1>2, <1>3, <2>1, <4>1, <4>3
    <3>. QED BY <3>2, <3>3
  <2>. QED BY <2>3, <2>4
<1>9. LiveLogIsBehind'
  BY <1>2, <1>6, <1>8 DEF LiveLogIsBehind
<1>. QED BY <1>7, <1>9 DEF LiveInv

LEMMA FinishKeepsLive ==
    ASSUME FeedInv, PageInv, LiveInv, UNCHANGED pageVars, NEW t \in Task, Finish(t)
    PROVE  LiveInv'
<1>. DEFINE m == ResultMessage(t)
<1>1. messages \in Seq(Message) /\ received \in 0..Len(messages)
  BY DEF FeedInv, FeedTypes
<1>2. sent' = sent /\ Broadcast(m) /\ received' = received
  BY DEF Finish
<1>3. m \in Message /\ ~IsEvent(m)
  BY MessageTyped DEF ResultMessage, IsEvent
<1>. HIDE DEF m
<1>4. /\ messages' \in Seq(Message)
      /\ \A i \in DOMAIN messages : i \in DOMAIN messages' /\ messages'[i] = messages[i]
      /\ \A i \in DOMAIN messages' : i \notin DOMAIN messages =>
                i = Len(messages) + 1 /\ messages'[i] = m
  BY <1>1, <1>2, <1>3, BroadcastAppends
<1>5. \A k \in received + 1..Len(messages') : IsEvent(messages'[k]) =>
        k \in received + 1..Len(messages) /\ messages'[k] = messages[k]
  BY <1>1, <1>3, <1>4, LenProperties
<1>6. view' = view /\ intent' = intent
  BY DEF pageVars
<1>7. LiveLogIsOfOneRun'
  BY <1>6 DEF LiveInv, LiveLogIsOfOneRun, OfRun, InOrder
<1>8. LiveLogIsBehind'
  BY <1>2, <1>5, <1>6 DEF LiveInv, LiveLogIsBehind
<1>. QED BY <1>7, <1>8 DEF LiveInv

\* A broken connection: nothing is on its way any more.
LEMMA DisconnectKeepsLive ==
    ASSUME FeedInv, PageInv, LiveInv, UNCHANGED pageVars, Disconnect
    PROVE  LiveInv'
<1>1. messages \in Seq(Message) /\ received \in 0..Len(messages)
  BY DEF FeedInv, FeedTypes
<1>2. messages' = SubSeq(messages, 1, received) /\ sent' = sent /\ received' = received
  BY DEF Disconnect
<1>3. Len(messages') = received
  BY <1>1, <1>2, SubSeqProperties, LenProperties
<1>4. received' + 1..Len(messages') = {}
  <2>1. received \in Nat
    BY <1>1, LenProperties
  <2>. QED BY <1>2, <1>3, <2>1
<1>5. view' = view /\ intent' = intent
  BY DEF pageVars
<1>6. LiveLogIsOfOneRun'
  BY <1>5 DEF LiveInv, LiveLogIsOfOneRun, OfRun, InOrder
<1>7. LiveLogIsBehind'
  BY <1>2, <1>4, <1>5 DEF LiveInv, LiveLogIsBehind
<1>. QED BY <1>6, <1>7 DEF LiveInv

LEMMA DeliverKeepsLive ==
    ASSUME FeedInv, PageInv, LiveInv, Deliver
    PROVE  LiveInv'
<1>. DEFINE m == messages[received + 1]
            Heeded == shown /\ IsEvent(m) /\ Gate(view.current, m.entry.task)
<1>. SUFFICES ASSUME intent.by \in {"send", "new"} PROVE LiveInv'
  BY DEF Deliver, LiveInv, LiveLogIsOfOneRun, LiveLogIsBehind
<1>1. received' = received + 1 /\ received \in Nat /\ Len(messages) \in Nat /\ received < Len(messages)
        /\ messages' = messages /\ sent' = sent /\ intent' = intent /\ messages \in Seq(Message)
  BY LenProperties DEF Deliver, Arriving, FeedInv, FeedTypes
<1>2. DOMAIN messages = 1..Len(messages)
  BY <1>1, LenProperties
<1>3. received + 1 \in DOMAIN messages /\ received + 1 \in received + 1..Len(messages)
  BY <1>1, <1>2
<1>4. \A k \in received' + 1..Len(messages') :
        k \in received + 1..Len(messages) /\ k \in DOMAIN messages /\ received + 1 < k
  BY <1>1, <1>2
<1>5. CASE ~Heeded
  <2>1. view'.log = view.log /\ view'.current = view.current
    BY <1>5, DeliveredOther DEF FeedInv
  <2>2. LiveLogIsOfOneRun'
    BY <1>1, <2>1 DEF LiveInv, LiveLogIsOfOneRun, OfRun, InOrder
  <2>3. LiveLogIsBehind'
    BY <1>1, <1>4, <2>1 DEF LiveInv, LiveLogIsBehind
  <2>. QED BY <2>2, <2>3 DEF LiveInv
<1>6. ASSUME Heeded PROVE LiveInv'
  <2>. DEFINE e == m.entry
              n == Len(view.log)
  <2>1. /\ e \in Entries /\ e.task # None /\ view'.current = e.task /\ view'.log = Append(view.log, e)
        /\ view.current = None \/ view.current = e.task
    BY <1>6, DeliveredEvent DEF FeedInv
  <2>2. view.log \in Seq(Entries) /\ DOMAIN view.log = 1..n /\ n \in Nat
          /\ \A i \in 1..n : view.log[i].task \in Task /\ view.log[i].seq \in 1..4
    BY LogTyped
  <2>3. OfRun(view.log, e.task)
    <3>1. OfRun(view.log, view.current)
      BY DEF LiveInv, LiveLogIsOfOneRun
    <3>2. ASSUME view.current = None, NEW i \in DOMAIN view.log PROVE FALSE
      BY <2>2, <3>1, <3>2, FeedAssumption DEF OfRun, FeedAssumption
    <3>. QED BY <2>1, <3>1, <3>2 DEF OfRun
  <2>4. IsEvent(m)
    BY <1>6
  <2>. DEFINE new == view'.log
  <2>5. /\ new \in Seq(Entries) /\ DOMAIN new = 1..n + 1 /\ new[n + 1] = e
        /\ \A i \in 1..n : new[i] = view.log[i]
    BY <2>1, <2>2, AppendProperties, LenProperties
  <2>6. \A i \in 1..n + 1 : i \in 1..n \/ i = n + 1
    BY <2>2
  <2>7. ASSUME NEW i \in 1..n PROVE view.log[i].seq < e.seq /\ view.log[i].seq <= sent[view.log[i].task]
                 /\ view.log[i].task = e.task
    <3>1. view.log[i].task = e.task
      BY <2>2, <2>3 DEF OfRun
    <3>2. view.log[i].seq < m.entry.seq /\ view.log[i].seq <= sent[view.log[i].task]
      BY <1>3, <2>2, <2>4, <3>1 DEF LiveInv, LiveLogIsBehind
    <3>. QED BY <3>1, <3>2
  <2>8. e.seq <= sent[e.task]
    BY <1>3, <2>4 DEF FeedInv, BroadcastInOrder
  <2>9. ASSUME NEW k \in received' + 1..Len(messages'), IsEvent(messages[k]), messages[k].entry.task = e.task
        PROVE  e.seq < messages[k].entry.seq
    BY <1>3, <1>4, <2>4, <2>9 DEF FeedInv, BroadcastInOrder
  <2>10. \A i \in 1..n, k \in received' + 1..Len(messages') :
           IsEvent(messages[k]) /\ messages[k].entry.task = view.log[i].task
           => view.log[i].seq < messages[k].entry.seq
    BY <1>4, <2>2 DEF LiveInv, LiveLogIsBehind
  <2>. HIDE DEF new, e, m, n
  <2>11. OfRun(new, e.task)
    BY <2>5, <2>6, <2>7 DEF OfRun
  <2>12. InOrder(new)
    <3>1. ASSUME NEW i \in 1..n + 1, NEW j \in 1..n + 1, i < j PROVE new[i].seq < new[j].seq
      <4>1. i \in 1..n
        BY <2>2, <3>1
      <4>2. CASE j \in 1..n
        BY <2>2, <2>5, <3>1, <4>1, <4>2 DEF LiveInv, LiveLogIsOfOneRun, InOrder
      <4>3. CASE j = n + 1
        BY <2>5, <2>7, <4>1, <4>3
      <4>. QED BY <2>6, <4>2, <4>3
    <3>. QED BY <2>5, <3>1 DEF InOrder
  <2>13. LiveLogIsOfOneRun'
    BY <2>1, <2>11, <2>12 DEF LiveLogIsOfOneRun, new
  <2>14. \A i \in 1..n + 1 : new[i].seq <= sent[new[i].task]
    BY <2>5, <2>6, <2>7, <2>8
  <2>15. \A i \in 1..n + 1, k \in received' + 1..Len(messages') :
           IsEvent(messages[k]) /\ messages[k].entry.task = new[i].task
           => new[i].seq < messages[k].entry.seq
    BY <2>5, <2>6, <2>9, <2>10
  <2>16. LiveLogIsBehind'
    BY <1>1, <2>5, <2>14, <2>15 DEF LiveLogIsBehind, new
  <2>. QED BY <2>13, <2>16 DEF LiveInv
<1>. QED BY <1>5, <1>6

LEMMA NextKeepsLive ==
    ASSUME FeedInv, PageInv, LiveInv, [Next]_vars
    PROVE  LiveInv'
<1>1. ASSUME UNCHANGED <<view, intent, sent, messages, received>> PROVE LiveInv'
  BY <1>1 DEF LiveInv, LiveLogIsOfOneRun, LiveLogIsBehind, OfRun, InOrder, IsEvent
<1>2. ASSUME ServerStep PROVE LiveInv'
  <2>1. UNCHANGED pageVars
    BY <1>2 DEF ServerStep
  <2>2. ASSUME NEW t \in Task, Submit(t) PROVE LiveInv'
    BY <1>1, <2>1, <2>2 DEF Submit, pageVars
  <2>3. CASE Connect
    BY <1>1, <2>1, <2>3 DEF Connect, pageVars
  <2>. QED BY <1>2, <2>1, <2>2, <2>3, EmitKeepsLive, FinishKeepsLive, DisconnectKeepsLive DEF ServerStep
<1>3. CASE UNCHANGED vars
  BY <1>1, <1>3 DEF vars, feedVars, pageVars
<1>4. ASSUME intent'.by \notin {"send", "new"} PROVE LiveInv'
  BY <1>4 DEF LiveInv, LiveLogIsOfOneRun, LiveLogIsBehind
<1>5. CASE FetchStep
  <2>1. fetch.step # "none"
    BY <1>5 DEF FetchStep, ReadTasks, ReadRuns, ReadRun, FetchFails, TakeLast, Replay
  <2>2. intent' = intent /\ intent.by \notin {"send", "new"}
    BY <1>5, <2>1 DEF FetchStep, PageInv, IntentInv
  <2>. QED BY <1>4, <2>2
<1>6. CASE Send \/ New
  <2>1. Send => view'.log = <<>>
    BY SentView
  <2>2. New => view'.log = <<>>
    BY DEF New, EmptyView
  <2>3. view'.log = <<>>
    BY <1>6, <2>1, <2>2
  <2>. QED BY <2>3 DEF LiveInv, LiveLogIsOfOneRun, LiveLogIsBehind, OfRun, InOrder
<1>7. CASE Leave \/ Return \/ (\E t \in Task : Select(t))
  <2>1. intent'.by \notin {"send", "new"}
    BY <1>7 DEF Leave, Return, Select, Click
  <2>. QED BY <1>4, <2>1
<1>. QED BY <1>2, <1>3, <1>5, <1>6, <1>7, DeliverKeepsLive DEF Next

-----------------------------------------------------------------------------
(* A view that streams will be told of the end of its run.                 *)

\* A run that ends is told so: the message of its result goes out.
LEMMA FinishKeepsEnd ==
    ASSUME FeedInv, PageInv, StreamingWillEnd, UNCHANGED pageVars, NEW t \in Task, Finish(t)
    PROVE  StreamingWillEnd'
<1>. DEFINE m == ResultMessage(t)
            c == view.current
<1>. SUFFICES ASSUME view.streaming, drops = 0, ~turned PROVE StreamingWillEnd'
  BY DEF Finish, pageVars, StreamingWillEnd
<1>1. open /\ c # None /\ (c \notin ToSet(finished)
        \/ \E i \in received + 1..Len(messages) : Ends(messages[i], c))
  BY DEF StreamingWillEnd
<1>2. messages \in Seq(Message) /\ received \in 0..Len(messages) /\ finished \in Seq(Task)
  BY DEF FeedInv, FeedTypes
<1>3. finished' = Append(finished, t) /\ Broadcast(m) /\ received' = received /\ open' = open
        /\ view' = view
  BY DEF Finish, pageVars
<1>4. m \in Message /\ Ends(m, t)
  BY MessageTyped DEF ResultMessage, Ends
<1>. HIDE DEF m
<1>5. /\ messages' \in Seq(Message) /\ Len(messages') = Len(messages) + 1
      /\ messages'[Len(messages')] = m
      /\ \A i \in DOMAIN messages : i \in DOMAIN messages' /\ messages'[i] = messages[i]
  BY <1>1, <1>2, <1>3, <1>4, BroadcastAppends
<1>6. DOMAIN messages = 1..Len(messages) /\ Len(messages) \in Nat /\ received \in Nat
        /\ received <= Len(messages)
  BY <1>2, LenProperties
<1>7. CASE c = t
  <2>1. Len(messages') \in received' + 1..Len(messages')
    <3>1. received' = received /\ Len(messages') = Len(messages) + 1
      BY <1>3, <1>5
    <3>. QED BY <1>6, <3>1
  <2>2. Ends(messages'[Len(messages')], c)
    BY <1>4, <1>5, <1>7
  <2>. QED BY <1>1, <1>3, <2>1, <2>2 DEF StreamingWillEnd
<1>8. CASE c # t /\ c \notin ToSet(finished)
  <2>1. DOMAIN finished' = 1..Len(finished) + 1 /\ DOMAIN finished = 1..Len(finished)
          /\ Len(finished) \in Nat
          /\ finished'[Len(finished) + 1] = t /\ \A i \in 1..Len(finished) : finished'[i] = finished[i]
    BY <1>2, <1>3, AppendProperties, LenProperties
  <2>2. c \notin ToSet(finished')
    BY <1>8, <2>1 DEF ToSet
  <2>. QED BY <1>1, <1>3, <2>2 DEF StreamingWillEnd
<1>9. ASSUME NEW i \in received + 1..Len(messages), Ends(messages[i], c) PROVE StreamingWillEnd'
  <2>1. i \in DOMAIN messages /\ i \in received' + 1..Len(messages')
    <3>1. received' = received /\ Len(messages') = Len(messages) + 1
      BY <1>3, <1>5
    <3>. QED BY <1>6, <3>1
  <2>2. Ends(messages'[i], c)
    BY <1>5, <1>9, <2>1
  <2>. QED BY <1>1, <1>3, <2>1, <2>2 DEF StreamingWillEnd
<1>. QED BY <1>1, <1>7, <1>8, <1>9

LEMMA EmitKeepsEnd ==
    ASSUME FeedInv, PageInv, StreamingWillEnd, UNCHANGED pageVars, NEW t \in Task, Emit(t)
    PROVE  StreamingWillEnd'
<1>. DEFINE m == EventMessage(t, sent[t] + 1)
<1>1. messages \in Seq(Message) /\ received \in 0..Len(messages)
  BY DEF FeedInv, FeedTypes
<1>2. finished' = finished /\ Broadcast(m) /\ received' = received /\ open' = open /\ drops' = drops
        /\ view' = view /\ turned' = turned
  BY DEF Emit, pageVars
<1>3. m \in Message
  <2>1. sent[t] + 1 \in 1..4
    BY DEF Emit, EventKinds, FeedInv, FeedTypes
  <2>. QED BY <2>1, MessageTyped
<1>. HIDE DEF m
<1>4. /\ messages' \in Seq(Message)
      /\ \A i \in DOMAIN messages : i \in DOMAIN messages' /\ messages'[i] = messages[i]
  BY <1>1, <1>2, <1>3, BroadcastAppends
<1>5. \A i \in received + 1..Len(messages) :
        i \in received' + 1..Len(messages') /\ messages'[i] = messages[i]
  <2>1. DOMAIN messages = 1..Len(messages) /\ DOMAIN messages' = 1..Len(messages')
    BY <1>1, <1>4, LenProperties
  <2>2. received \in Nat /\ Len(messages) \in Nat /\ Len(messages') \in Nat
    BY <1>1, <1>4, LenProperties
  <2>3. ASSUME NEW i \in received + 1..Len(messages)
        PROVE  i \in received' + 1..Len(messages') /\ messages'[i] = messages[i]
    <3>1. i \in DOMAIN messages
      BY <2>1, <2>2
    <3>2. i \in DOMAIN messages' /\ messages'[i] = messages[i]
      BY <1>4, <3>1
    <3>3. i \in 1..Len(messages')
      BY <2>1, <3>2
    <3>4. i \in received' + 1..Len(messages')
      BY <1>2, <2>2, <3>3
    <3>. QED BY <3>2, <3>4
  <2>. QED BY <2>3
<1>. QED BY <1>2, <1>5 DEF StreamingWillEnd

\* What is heeded either ends the streaming, or comes before the result.
LEMMA DeliverKeepsEnd ==
    ASSUME FeedInv, PageInv, StreamingWillEnd, Deliver
    PROVE  StreamingWillEnd'
<1>. DEFINE m == messages[received + 1]
            Heeded == shown /\ IsEvent(m) /\ Gate(view.current, m.entry.task)
<1>. SUFFICES ASSUME view'.streaming, drops = 0, ~turned PROVE StreamingWillEnd'
  BY DEF Deliver, StreamingWillEnd
<1>1. received' = received + 1 /\ received \in Nat /\ Len(messages) \in Nat /\ received < Len(messages)
        /\ messages' = messages /\ open' = open /\ finished' = finished /\ messages \in Seq(Message)
        /\ view' = (IF shown THEN Process(view, m) ELSE view)
  BY LenProperties DEF Deliver, Arriving, FeedInv, FeedTypes
<1>2. received + 1 \in DOMAIN messages /\ m \in Message /\ messages # <<>>
  BY <1>1, LenProperties, EmptySeq, NextMessageTyped DEF Deliver, FeedInv
<1>3. open
  BY <1>2 DEF FeedInv, EndIsBroadcast
<1>4. shown
  BY <1>1 DEF PageInv, IntentInv
<1>5. ASSUME Heeded PROVE StreamingWillEnd'
  <2>1. view'.current = m.entry.task /\ m.entry.task # None
    BY <1>5, DeliveredEvent DEF FeedInv
  <2>2. CASE m.entry.task \in ToSet(finished)
    <3>1. IsEvent(m)
      BY <1>5
    <3>2. PICK j \in received + 1 + 1..Len(messages) : messages[j] = ResultMessage(m.entry.task)
      BY <1>2, <2>2, <3>1 DEF FeedInv, EndIsBroadcast
    <3>3. Ends(messages[j], m.entry.task)
      BY <3>2 DEF Ends, ResultMessage
    <3>4. j \in received' + 1..Len(messages')
      BY <1>1, <3>2
    <3>. QED BY <1>1, <1>3, <2>1, <3>3, <3>4 DEF StreamingWillEnd
  <2>3. CASE m.entry.task \notin ToSet(finished)
    BY <1>1, <1>3, <2>1, <2>3 DEF StreamingWillEnd
  <2>. QED BY <2>2, <2>3
<1>6. ASSUME ~Heeded PROVE StreamingWillEnd'
  <2>1. view \in View /\ view' = Process(view, m)
    BY <1>1, <1>4 DEF PageInv, PageTypes
  <2>2. ~IsEvent(m) \/ ~Gate(view.current, m.entry.task)
    BY <1>4, <1>6
  <2>. HIDE DEF m
  <2>3. m.type \in {"event", "result"}
    BY <1>2 DEF Message
  <2>4. view'.current = view.current /\ view.streaming /\ ~Ends(m, view.current)
    <3>1. CASE m.type = "result"
      <4>1. ~Acknowledges(view.current, m.task)
        BY <2>1, <3>1 DEF Process, View
      <4>. QED BY <2>1, <3>1, <4>1 DEF Process, Acknowledges, Ends
    <3>2. CASE m.type = "event"
      BY <2>1, <2>2, <3>2 DEF Process, IsEvent, Gate, Ends
    <3>. QED BY <2>3, <3>1, <3>2
  <2>5. view.current # None
         /\ (view.current \notin ToSet(finished)
               \/ \E i \in received + 1..Len(messages) : Ends(messages[i], view.current))
    BY <2>4 DEF StreamingWillEnd
  <2>6. ASSUME NEW i \in received + 1..Len(messages), Ends(messages[i], view.current)
        PROVE  i \in received' + 1..Len(messages')
    <3>1. i # received + 1
      BY <2>4, <2>6 DEF m
    <3>. QED BY <1>1, <3>1
  <2>7. view.current \notin ToSet(finished')
          \/ \E i \in received' + 1..Len(messages') : Ends(messages'[i], view.current)
    BY <1>1, <2>5, <2>6
  <2>. QED BY <1>1, <1>3, <2>4, <2>5, <2>7 DEF StreamingWillEnd
<1>. QED BY <1>5, <1>6

\* A component that starts anew and streams has not processed the end yet.
LEMMA ReturnKeepsEnd ==
    ASSUME FeedInv, Return
    PROVE  StreamingWillEnd'
<1>. DEFINE seen == SubSeq(messages, 1, received)
            c == view'.current
<1>. SUFFICES ASSUME view'.streaming, drops = 0 PROVE StreamingWillEnd'
  BY DEF Return, feedVars, StreamingWillEnd
<1>1. messages \in Seq(Message) /\ received \in 0..Len(messages) /\ Len(messages) \in Nat
        /\ received \in Nat /\ DOMAIN messages = 1..Len(messages)
  BY LenProperties DEF FeedInv, FeedTypes
<1>2. UNCHANGED <<open, messages, received, finished, drops>>
  BY DEF Return, feedVars
<1>3. seen \in Seq(Message) /\ Len(seen) = received /\ \A i \in 1..received : seen[i] = messages[i]
  BY <1>1, ElementOfSeq, SubSeqProperties
<1>4. HasNotHeardTheEnd(seen, received, view')
  <2>1. view' = FoldLeft(Process, EmptyView, seen)
    BY DEF Return
  <2>. HIDE DEF seen
  <2>. QED BY <1>3, <2>1, RebuiltIsGood
<1>5. c # None
  BY <1>4 DEF HasNotHeardTheEnd
<1>6. PICK i \in 1..received : /\ IsEvent(messages[i]) /\ messages[i].entry.task = c
                              /\ \A j \in i + 1..received : ~Ends(messages[j], c)
  <2>. HIDE DEF seen
  <2>1. PICK i \in 1..received : /\ IsEvent(seen[i]) /\ seen[i].entry.task = c
                                /\ \A j \in i + 1..received : ~Ends(seen[j], c)
    BY <1>4 DEF HasNotHeardTheEnd
  <2>2. \A j \in i + 1..received : j \in 1..received
    BY <1>1, <2>1
  <2>. QED BY <1>3, <2>1, <2>2
<1>7. i \in DOMAIN messages /\ messages # <<>>
  BY <1>1, <1>6, EmptySeq
<1>8. open
  BY <1>7 DEF FeedInv, EndIsBroadcast
<1>9. CASE c \in ToSet(finished)
  <2>1. PICK j \in i + 1..Len(messages) : messages[j] = ResultMessage(c)
    BY <1>6, <1>7, <1>9 DEF FeedInv, EndIsBroadcast
  <2>2. Ends(messages[j], c)
    BY <2>1 DEF Ends, ResultMessage
  <2>3. j \in received + 1..Len(messages)
    BY <1>1, <1>6, <2>1, <2>2
  <2>. QED BY <1>2, <1>5, <1>8, <2>2, <2>3 DEF StreamingWillEnd
<1>10. CASE c \notin ToSet(finished)
  BY <1>2, <1>5, <1>8, <1>10 DEF StreamingWillEnd
<1>. QED BY <1>9, <1>10

LEMMA NextKeepsEnd ==
    ASSUME FeedInv, PageInv, StreamingWillEnd, [Next]_vars
    PROVE  StreamingWillEnd'
<1>1. ASSUME UNCHANGED <<finished, messages, received, drops>>, open => open', ~turned' => ~turned,
             view'.current = view.current, view'.streaming = view.streaming
      PROVE  StreamingWillEnd'
  BY <1>1 DEF StreamingWillEnd, Ends
<1>2. ASSUME view'.streaming = FALSE PROVE StreamingWillEnd'
  BY <1>2 DEF StreamingWillEnd
<1>3. ASSUME ServerStep PROVE StreamingWillEnd'
  <2>1. UNCHANGED pageVars
    BY <1>3 DEF ServerStep
  <2>2. ASSUME NEW t \in Task, Submit(t) PROVE StreamingWillEnd'
    BY <1>1, <2>1, <2>2 DEF Submit, pageVars
  <2>3. CASE Connect
    BY <1>1, <2>1, <2>3 DEF Connect, pageVars
  <2>4. CASE Disconnect
    <3>1. drops' # 0
      BY <2>4 DEF Disconnect, FeedInv, FeedTypes
    <3>. QED BY <3>1 DEF StreamingWillEnd
  <2>. QED BY <1>3, <2>1, <2>2, <2>3, <2>4, EmitKeepsEnd, FinishKeepsEnd DEF ServerStep
<1>4. CASE UNCHANGED vars
  BY <1>1, <1>4 DEF vars, feedVars, pageVars
<1>5. CASE FetchStep
  <2>1. UNCHANGED <<finished, messages, received, drops, open>>
    BY <1>5 DEF FetchStep, feedVars
  <2>2. CASE UNCHANGED <<view, turned>>
    BY <1>1, <2>1, <2>2
  <2>3. CASE TakeLast
    <3>1. view'.current = fetch.task /\ view'.streaming = view.streaming
      BY <2>3 DEF TakeLast, PageInv, PageTypes, View
    <3>2. turned' = (turned \/ (view.streaming /\ view.current # fetch.task))
      BY <2>3 DEF TakeLast
    <3>3. CASE view.streaming /\ view.current # fetch.task
      BY <3>2, <3>3 DEF StreamingWillEnd
    <3>4. CASE view.streaming /\ view.current = fetch.task
      BY <1>1, <2>1, <3>1, <3>2, <3>4
    <3>5. CASE ~view.streaming
      BY <3>1, <3>5 DEF StreamingWillEnd
    <3>. QED BY <3>3, <3>4, <3>5
  <2>4. CASE Replay /\ UNCHANGED turned
    <3>1. view'.current = view.current /\ view'.streaming = view.streaming
      BY <2>4, ReplayedView
    <3>2. ~turned' => ~turned
      BY <2>4
    <3>. QED BY <1>1, <2>1, <3>1, <3>2
  <2>. QED BY <1>5, <2>2, <2>3, <2>4 DEF FetchStep
<1>6. CASE Send
  <2>1. view'.streaming = FALSE
    BY <1>6, SentView
  <2>. QED BY <1>2, <2>1
<1>7. CASE New \/ Leave
  <2>1. view'.streaming = FALSE
    BY <1>7 DEF New, Leave, EmptyView
  <2>. QED BY <1>2, <2>1
<1>8. CASE Return
  BY <1>8, ReturnKeepsEnd
<1>9. ASSUME NEW t \in Task, Select(t) PROVE StreamingWillEnd'
  <2>1. view'.streaming = FALSE
    BY <1>9, SelectedView
  <2>. QED BY <1>2, <2>1
<1>. QED BY <1>3, <1>4, <1>5, <1>6, <1>7, <1>8, <1>9, DeliverKeepsEnd DEF Next

-----------------------------------------------------------------------------
(* The theorems.                                                           *)

LEMMA InitIsGood ==
    ASSUME Init
    PROVE  IInv
<1>1. messages = <<>> /\ finished = <<>> /\ recent = <<>> /\ Len(messages) = 0
        /\ sent = [t \in Task |-> 0] /\ submitted = {} /\ open = FALSE /\ received = 0 /\ drops = 0
  BY DEF Init, FeedInit
<1>2. shown = TRUE /\ view = EmptyView /\ fetch = [NoFetch EXCEPT !.step = "tasks"]
        /\ intent = [by |-> "load", task |-> None]
  BY DEF Init
<1>3. FeedTypes
  <2>1. sent \in [Task -> 0..4]
    BY <1>1
  <2>2. <<>> \in Seq(Task) /\ <<>> \in Seq(Message)
    OBVIOUS
  <2>3. received \in 0..Len(messages)
    BY <1>1
  <2>. QED BY <1>1, <2>1, <2>2, <2>3 DEF FeedTypes
<1>4. PageTypes /\ ChatInv(view)
  <2>1. <<>> \in Seq(Entries)
    OBVIOUS
  <2>2. fetch \in [step : {"none", "tasks", "runs", "listed", "detail", "answered"},
                   task : Task \cup {None}, reply : Seq(Entries)]
    BY <1>2, <2>1 DEF NoFetch
  <2>. QED BY <1>2, <2>2, EmptyViewIsGood DEF PageTypes
<1>5. FetchInv /\ IntentInv
  BY <1>2 DEF FetchInv, IntentInv, NoFetch
<1>6. BroadcastInOrder /\ EndIsBroadcast
  BY <1>1 DEF BroadcastInOrder, EndIsBroadcast
<1>7. LiveLogIsBehind /\ SelectedReplayIsPure /\ LiveLogIsOfOneRun /\ StreamingWillEnd
      /\ turned \in BOOLEAN
  <2>1. view.streaming = FALSE /\ turned = FALSE
    BY <1>2 DEF Init, EmptyView
  <2>2. StreamingWillEnd /\ turned \in BOOLEAN
    BY <2>1 DEF StreamingWillEnd
  <2>3. LiveLogIsBehind /\ SelectedReplayIsPure /\ LiveLogIsOfOneRun
    BY <1>2 DEF LiveLogIsBehind, SelectedReplayIsPure, LiveLogIsOfOneRun
  <2>. QED BY <2>2, <2>3
<1>. QED BY <1>3, <1>4, <1>5, <1>6, <1>7 DEF IInv

LEMMA NextKeepsTurned == turned \in BOOLEAN /\ [Next]_vars => (turned \in BOOLEAN)'
BY DEF Next, vars, pageVars, ServerStep, Deliver, FetchStep, TakeLast, Send, New, Leave, Return,
       Select

LEMMA NextKeepsInv ==
    ASSUME IInv, [Next]_vars
    PROVE  IInv'
<1>1. FeedInv /\ PageInv /\ LiveInv /\ SelectedReplayIsPure /\ StreamingWillEnd
      /\ turned \in BOOLEAN
  BY DEF IInv, FeedInv, PageInv, LiveInv
<1>2. FeedTypes
  BY <1>1 DEF FeedInv
<1>3. FeedInv' /\ PageInv' /\ LiveInv' /\ SelectedReplayIsPure' /\ StreamingWillEnd'
      /\ (turned \in BOOLEAN)'
  BY <1>1, <1>2, NextKeepsTurned, NextKeepsFeed, NextKeepsPage, NextKeepsPure, NextKeepsLive,
     NextKeepsEnd
<1>. QED BY <1>3 DEF IInv, FeedInv, PageInv, LiveInv

\* The invariant of the feed and of the page, from which the properties follow.
THEOREM ConsoleInvariance == Spec => []IInv
<1>1. Init => IInv
  BY InitIsGood
<1>2. IInv /\ [Next]_vars => IInv'
  BY NextKeepsInv
<1>. QED BY <1>1, <1>2, PTL DEF Spec

\* The state of the page and of its feed keeps its types
\* (the component's state and refs, src/ui/src/components/DebugConsole.tsx:50-65).
THEOREM PageTypeCorrect == Spec => [](FeedTypes /\ PageTypes /\ turned \in BOOLEAN)
BY ConsoleInvariance, PTL DEF IInv

\* A run picked in the Tasks tab stays the one on view, in the log and in the
\* chat, whatever other runs do and whatever fetch was under way
\* (the gate of the message effect, src/ui/src/components/DebugConsole.tsx:228-256).
THEOREM ReplaysArePure == Spec => []SelectedReplayIsPure
BY ConsoleInvariance, PTL DEF IInv

\* After "send" or "new" the log holds the live events of one run, in order
\* and each once (handleSend(), src/ui/src/components/DebugConsole.tsx:324-341).
THEOREM LiveLogsAreOfOneRun == Spec => []LiveLogIsOfOneRun
BY ConsoleInvariance, PTL DEF IInv

\* No bubble of the chat mixes the text of two runs
\* (a stream event in the message effect, DebugConsole.tsx:274-285).
THEOREM BubblesKeepApart == Spec => []BubblesAreOfOneRun
<1>1. IInv => BubblesAreOfOneRun
  BY DEF IInv, ChatInv, BubblesAreOfOneRun
<1>. QED BY <1>1, ConsoleInvariance, PTL

\* A console that streams on an unbroken connection is told of the end of its
\* run, unless the fetch on mount has turned it to another run meanwhile: in
\* that case the code gives no such promise, and the console may stay locked
\* (the message effect, src/ui/src/components/DebugConsole.tsx:240-292, against
\* the mount effect, 167-171).
THEOREM StreamingIsFinite == Spec => []StreamingWillEnd
BY ConsoleInvariance, PTL DEF IInv

=============================================================================
