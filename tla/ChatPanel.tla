----------------------------- MODULE ChatPanel -----------------------------
(* The chat panel of the web client with its <SessionList/>,               *)
(* <SearchOverlay/> and <InputArea/>, and the part of C1 it talks to: the  *)
(* /api/sessions routes and the /ws/chat channel.  ChatTab adds the two    *)
(* dialogs.                                                                *)
(*                                                                         *)
(* A fetch is three steps: the page sends it, the server answers it from   *)
(* the state it has then, and the page takes the answer and goes on with   *)
(* what follows the await.  Answers overtake one another.  What React does *)
(* after an event, rendering and running effects, is part of the step that *)
(* handles the event; only the effect that copies the streamed text to     *)
(* streamingRef runs later, in a step of its own.  The user acts at will,  *)
(* as long as the budget of a behaviour lasts.                             *)
EXTENDS ChatTypes, Naturals, Sequences, Bags, FiniteSets

CONSTANTS Models,         \* ids of models a session can be set to
          Queries,        \* search texts, "" among them
          Mentions,       \* which messages mention a search text: their role
                          \* and turn, 0 for the title "New session"
          Parts,          \* bound: deltas of an answer
          Budgets,        \* bounds: how often a behaviour does each operation
          HeaderRenders   \* does the name wsState that line 313 leaves free
                          \* resolve, to a global of the page that embeds it?

Operations == {"select", "create", "pin", "model", "archive", "delete",
               "send", "type", "toggle", "tool", "fail", "drop",
               "config", "edit", "save", "keys", "key"}

ASSUME ChatPanelAssumption ==
    /\ None \notin Models
    /\ None \notin [id : Sessions, model : Models \cup {None},
                    messages : Seq([role : {"user", "tool", "assistant"}, turn : Nat,
                                    text : Seq(Nat \X Nat)])]
    /\ "" \in Queries
    /\ Mentions \in [Queries -> SUBSET ({"user", "assistant"} \X Nat)]
    /\ Parts \in Nat \ {0}
    /\ Budgets \subseteq [Operations -> Nat]
    /\ HeaderRenders \in BOOLEAN

VARIABLES page,           \* "up", or "crashed" by an exception while rendering
          sessions,       \* the list: a function from ids to summaries
          activeId,       \* the session the user selected
          active,         \* the session that is shown, with its messages
          streaming,      \* deltas of the answer that is coming in
          streamingRef,   \* the copy of it the chat.done handler reads
          searchOpen, searchQuery,
          net,            \* requests and answers under way: a bag
          sockets,        \* every /ws/chat socket; wsRef holds the last one
          status,         \* server: what became of each session
          pinned, model, stored,
          left,           \* what is left of the budget
          (* history *)
          typed,          \* the session selected for each message
          asked,          \* the session the page last asked to show
          askedText,      \* the search text it last asked a list for
          givenBody,      \* the last body and list C1 gave of each session
          givenList,      \*    and search text (at first, what it had)
          unseen,         \* sessions of which C1 may hold more than it gave
          unlisted,       \*    or was asked to list
          blurred,        \* has something that excuses the transcript,
          listBlurred,    \*    the list,
          residue         \*    the streamed text happened?

view == <<page, sessions, activeId, active, streaming, streamingRef, searchOpen, searchQuery>>
server == <<status, pinned, model, stored>>
shownHistory == <<asked, givenBody, unseen, blurred>>
listHistory == <<askedText, givenList, unlisted, listBlurred>>
history == <<typed, shownHistory, listHistory, residue>>
chatVars == <<view, net, sockets, server, left, history>>

-----------------------------------------------------------------------------
(* Messages, frames and requests.                                          *)
Turns == 1..Len(typed)
UserMessage(n) == [role |-> "user", turn |-> n, text |-> <<>>]
ToolMessage(n) == [role |-> "tool", turn |-> n, text |-> <<>>]
Answer(n, text) == [role |-> "assistant", turn |-> n, text |-> text]
Text(n, k) == [i \in 1..k |-> <<n, i>>]

Idle == [session |-> None, turn |-> 0, sent |-> 0]
NewSocket == [state |-> "connecting", up |-> <<>>, down |-> <<>>, serving |-> Idle]
Ws == Len(sockets)

Pending == [is |-> "pending"]
Missing == [is |-> "missing"]
Done == [is |-> "done"]
Created(id) == [is |-> "created", id |-> id]
Listed(list) == [is |-> "list", list |-> list]
Loaded(body) == [is |-> "body", body |-> body]
Request(op, id, arg, query) ==
    [op |-> op, id |-> id, arg |-> arg, query |-> query, got |-> Pending]
List(query) == Request("list", None, None, query)
Load(id) == Request("load", id, None, "")
Added(r) == net (+) SetToBag({r})
Without(r) == net (-) SetToBag({r})
Instead(r, next) == Without(r) (+) SetToBag({next})

Exists(id) == status[id] \in {"listed", "archived"}

(* A session is titled by its first message.  The list is searched in the  *)
(* titles and in all messages, and says how many there are.                *)
Title(id) == IF stored[id] = <<>> THEN 0 ELSE stored[id][1].turn
Found(query, id) ==
    \/ query = ""
    \/ <<"user", Title(id)>> \in Mentions[query]
    \/ \E i \in 1..Len(stored[id]) : <<stored[id][i].role, stored[id][i].turn>> \in Mentions[query]
Summary(id) == [pinned |-> pinned[id], model |-> model[id], title |-> Title(id),
                count |-> Len(stored[id])]
Listing(query) ==
    [id \in {s \in Sessions : status[s] = "listed" /\ Found(query, s)} |-> Summary(id)]
Body(id) == [id |-> id, model |-> model[id], messages |-> stored[id]]

Messages ==
    [role : {"user", "tool", "assistant"}, turn : Turns, text : Seq(Turns \X (1..Parts))]

Summaries == [pinned : BOOLEAN, model : Models \cup {None}, title : Nat, count : Nat]

ChatTypeOK ==
    /\ page \in {"up", "crashed"}
    /\ DOMAIN sessions \subseteq Sessions /\ \A id \in DOMAIN sessions : sessions[id] \in Summaries
    /\ activeId \in Sessions \cup {None}
    /\ active # None => active \in [id : Sessions, model : Models \cup {None}, messages : Seq(Messages)]
    /\ {streaming, streamingRef} \subseteq Seq(Turns \X (1..Parts))
    /\ searchOpen \in BOOLEAN /\ searchQuery \in Queries
    /\ \A r \in BagToSet(net) : r.query \in Queries
    /\ \A k \in 1..Ws : /\ k < Ws => sockets[k].state = "closed"
                        /\ sockets[k].state # "open" => sockets[k].down = <<>>
                        /\ sockets[k].serving.session \in Sessions \cup {None}
                        /\ sockets[k].serving.sent \in 0..Parts
    /\ status \in [Sessions -> {"unborn", "listed", "archived", "deleted"}]
    /\ pinned \in [Sessions -> BOOLEAN] /\ model \in [Sessions -> Models \cup {None}]
    /\ stored \in [Sessions -> Seq(Messages)]
    /\ left \in [Operations -> Nat]
    /\ typed \in Seq(Sessions)
    /\ asked \in Sessions \cup {None} /\ askedText \in Queries
    /\ \A id \in Sessions : givenBody[id].id = id
    /\ \A query \in Queries : DOMAIN givenList[query] \subseteq Sessions
    /\ unseen \subseteq Sessions /\ unlisted \subseteq Sessions
    /\ {blurred, listBlurred, residue} \subseteq BOOLEAN

Spend(op) == /\ left[op] > 0
             /\ left' = [left EXCEPT ![op] = @ - 1]

ChatInit ==
    /\ page = "up"
    /\ sessions = [id \in {} |-> FALSE]
    /\ activeId = None /\ active = None
    /\ streaming = <<>> /\ streamingRef = <<>>
    /\ searchOpen = FALSE /\ searchQuery = ""
    /\ net = SetToBag({List("")})
    /\ sockets = <<NewSocket>>
    /\ status \in [Sessions -> {"unborn", "listed"}]
    /\ pinned = [id \in Sessions |-> FALSE]
    /\ model = [id \in Sessions |-> None]
    /\ stored = [id \in Sessions |-> <<>>]
    /\ left \in Budgets
    /\ typed = <<>>
    /\ asked = None /\ askedText = ""
    /\ givenBody = [id \in Sessions |-> Body(id)]
    /\ givenList = [query \in Queries |-> Listing(query)]
    /\ unseen = {} /\ unlisted = {}
    /\ blurred = FALSE /\ listBlurred = FALSE /\ residue = FALSE

-----------------------------------------------------------------------------
(* The header reads wsState as soon as a session is shown.                 *)
Show(body) ==
    /\ active' = body
    /\ page' = IF body # None /\ ~HeaderRenders THEN "crashed" ELSE page

(* setActiveId, and the effect that follows when the id is another one.    *)
Select(id, others) ==
    /\ activeId' = id
    /\ net' = others (+) SetToBag(IF id \in {activeId, None} THEN {} ELSE {Load(id)})
    /\ IF id = activeId
       THEN UNCHANGED <<page, active, asked>>
       ELSE Show(IF id = None THEN None ELSE active) /\ asked' = id

(* A page in use: nothing covers what is clicked.                          *)
Clickable == page = "up" /\ ~searchOpen

SelectSession(id) ==
    /\ Clickable /\ id \in DOMAIN sessions
    /\ Spend("select")
    /\ Select(id, net)
    /\ UNCHANGED <<sessions, streaming, streamingRef, searchOpen, searchQuery, sockets,
                   server, typed, givenBody, unseen, blurred, listHistory, residue>>

(* The handlers that await a request: they keep the values of the render   *)
(* they were made in, the query and whether the session was the selected   *)
(* one.                                                                    *)
Ask(op, id, arg) ==
    /\ Clickable
    /\ Spend(op)
    /\ net' = Added(Request(op, id, arg, searchQuery))
    /\ UNCHANGED <<view, sockets, server, history>>

NewSession == Ask("create", None, None)
PinSession(id) == id \in DOMAIN sessions /\ Ask("pin", id, ~sessions[id].pinned)
SetSessionModel(m) == active # None /\ Ask("model", active.id, m)
ArchiveSession(id) == id \in DOMAIN sessions /\ Ask("archive", id, activeId = id)
DeleteSession(id) == id \in DOMAIN sessions /\ Ask("delete", id, activeId = id)

(* The input area sends what is not blank, by Enter or by its button, if a *)
(* session is selected (and the page's /ws socket is open, as it is here). *)
InputEnabled == Clickable /\ activeId # None

(* Faulty variant: the message goes to the session that is shown.          *)
SendToShown ==
    /\ InputEnabled /\ active # None
    /\ Spend("send")
    /\ LET n == Len(typed) + 1
           open == sockets[Ws].state = "open"
       IN  /\ typed' = Append(typed, activeId)
           /\ active' = [active EXCEPT !.messages = Append(@, UserMessage(n))]
           /\ sockets' = IF open
                         THEN [sockets EXCEPT ![Ws].up = Append(@, [session |-> active.id, turn |-> n])]
                         ELSE sockets
           /\ blurred' = (blurred \/ ~open)
           /\ unseen' = unseen \cup {active.id}
    /\ UNCHANGED <<page, sessions, activeId, streaming, streamingRef, searchOpen, searchQuery,
                   net, server, asked, givenBody, listHistory, residue>>

(* The message is shown at once, in whatever session is shown, and sent,   *)
(* for the session that is selected, if the socket is open.                *)
Send ==
    /\ InputEnabled
    /\ Spend("send")
    /\ LET n == Len(typed) + 1
           open == sockets[Ws].state = "open"
       IN  /\ typed' = Append(typed, activeId)
           /\ active' = IF active = None THEN None
                        ELSE [active EXCEPT !.messages = Append(@, UserMessage(n))]
           /\ sockets' = IF open
                         THEN [sockets EXCEPT ![Ws].up = Append(@, [session |-> activeId, turn |-> n])]
                         ELSE sockets
           /\ blurred' = (blurred \/ ~open \/ (active # None /\ active.id # activeId))
           /\ unseen' = IF open THEN unseen \cup {activeId} ELSE unseen
    /\ UNCHANGED <<page, sessions, activeId, streaming, streamingRef, searchOpen, searchQuery,
                   net, server, asked, givenBody, listHistory, residue>>

(* Ctrl+K, the search button, Escape and a click beside the overlay.       *)
ToggleSearch ==
    /\ page = "up"
    /\ Spend("toggle")
    /\ searchOpen' = ~searchOpen
    /\ UNCHANGED <<page, sessions, activeId, active, streaming, streamingRef,
                   searchQuery, net, sockets, server, history>>

(* A keystroke in the search field: the list is asked for, and the effect  *)
(* that depends on searchQuery closes the chat socket and opens another.   *)
(* A socket that is closing delivers nothing any more.                     *)
Busy(k) == sockets[k].serving # Idle \/ sockets[k].up # <<>> \/ sockets[k].down # <<>>

(* Faulty variant: the effect has no cleanup that closes its socket.       *)
ClosedNot(k) == [sockets EXCEPT ![k].down = <<>>]

Closed(k) == [sockets EXCEPT ![k].state = "closed", ![k].down = <<>>]

(* What is under way on the socket is lost, the news of turns that are     *)
(* done too.                                                               *)
Untold ==
    LET frames == {sockets[Ws].down[i] : i \in 1..Len(sockets[Ws].down)}
    IN  {f.session : f \in {g \in frames : g.type = "chat.done"}}

Abandon ==
    /\ blurred' = (blurred \/ Busy(Ws))
    /\ residue' = (residue \/ streaming # <<>>)
    /\ unseen' = unseen \cup Untold /\ unlisted' = unlisted \cup Untold
    /\ UNCHANGED <<asked, givenBody, givenList, listBlurred, typed>>

Type(query) ==
    /\ page = "up" /\ searchOpen /\ query # searchQuery
    /\ Spend("type")
    /\ searchQuery' = query
    /\ net' = Added(List(query))
    /\ sockets' = Append(Closed(Ws), NewSocket)
    /\ askedText' = query
    /\ Abandon
    /\ UNCHANGED <<page, sessions, activeId, active, streaming, streamingRef,
                   searchOpen, server>>

-----------------------------------------------------------------------------
(* The server answers a request.                                           *)
Reply(r, got) == net' = Instead(r, [r EXCEPT !.got = got])

Unheard(id) ==
    \E k \in 1..Ws : \E i \in 1..Len(sockets[k].up) : sockets[k].up[i].session = id

AnswerList(r) ==
    /\ r.op = "list"
    /\ Reply(r, Listed(Listing(r.query)))
    /\ givenList' = [givenList EXCEPT ![r.query] = Listing(r.query)]
    /\ unlisted' = IF r.query = askedText THEN {} ELSE unlisted
    /\ UNCHANGED <<server, givenBody, unseen>>

AnswerLoad(r) ==
    /\ r.op = "load"
    /\ IF Exists(r.id)
       THEN /\ Reply(r, Loaded(Body(r.id)))
            /\ givenBody' = [givenBody EXCEPT ![r.id] = Body(r.id)]
            /\ unseen' = IF Unheard(r.id) THEN unseen \cup {r.id} ELSE unseen \ {r.id}
       ELSE Reply(r, Missing) /\ UNCHANGED <<givenBody, unseen>>
    /\ UNCHANGED <<server, givenList, unlisted>>

AnswerCreate(r) ==
    /\ r.op = "create"
    /\ \E id \in Sessions :
          /\ status[id] = "unborn"
          /\ status' = [status EXCEPT ![id] = "listed"]
          /\ Reply(r, Created(id))
    /\ UNCHANGED <<pinned, model, stored, givenBody, givenList, unseen, unlisted>>

AnswerPatch(r) ==
    /\ r.op \in {"pin", "model"}
    /\ IF Exists(r.id)
       THEN /\ pinned' = IF r.op = "pin" THEN [pinned EXCEPT ![r.id] = r.arg] ELSE pinned
            /\ model' = IF r.op = "model" THEN [model EXCEPT ![r.id] = r.arg] ELSE model
            /\ unlisted' = IF r.op = "model" THEN unlisted \cup {r.id} ELSE unlisted
            /\ Reply(r, Done)
       ELSE Reply(r, Missing) /\ UNCHANGED <<pinned, model, unlisted>>
    /\ UNCHANGED <<status, stored, givenBody, givenList, unseen>>

AnswerDelete(r) ==
    /\ r.op \in {"archive", "delete"}
    /\ IF Exists(r.id)
       THEN /\ status' = [status EXCEPT ![r.id] =
                            IF r.op = "delete" THEN "deleted" ELSE "archived"]
            /\ Reply(r, Done)
       ELSE Reply(r, Missing) /\ UNCHANGED status
    /\ UNCHANGED <<pinned, model, stored, givenBody, givenList, unseen, unlisted>>

ServerAnswers ==
    \E r \in BagToSet(net) :
        /\ r.got = Pending
        /\ \/ AnswerList(r)
           \/ AnswerLoad(r)
           \/ AnswerCreate(r)
           \/ AnswerPatch(r)
           \/ AnswerDelete(r)
        /\ UNCHANGED <<view, sockets, left, typed, asked, askedText, blurred, listBlurred,
                       residue>>

-----------------------------------------------------------------------------
(* The page takes an answer.  A session that is not found leaves what is   *)
(* shown alone.                                                            *)
TakeList(r) ==
    /\ r.op = "list"
    /\ sessions' = r.got.list
    /\ net' = Without(r)
    /\ listBlurred' = (r.query # askedText \/ r.got.list # givenList[r.query])
    /\ UNCHANGED <<page, activeId, active, asked, askedText, blurred>>

(* An answer is overtaken by one to a later question, or by a later one to *)
(* the same question.                                                      *)
Overtaken(r) == r.id # asked \/ r.got.body # givenBody[r.id]

TakeLoad(r) ==
    /\ r.op = "load"
    /\ IF r.got = Missing
       THEN UNCHANGED <<page, active, blurred>>
       ELSE /\ Show(r.got.body)
            /\ blurred' = (Overtaken(r) \/ r.id \in unseen)
    /\ net' = Without(r)
    /\ UNCHANGED <<sessions, activeId, asked, askedText, listBlurred>>

TakeCreated(r) ==
    /\ r.op = "create"
    /\ Select(r.got.id, Instead(r, List(r.query)))
    /\ askedText' = r.query
    /\ UNCHANGED <<sessions, blurred, listBlurred>>

TakePatched(r) ==
    /\ \/ /\ r.op = "pin" /\ net' = Instead(r, List(r.query))
          /\ askedText' = r.query /\ UNCHANGED asked
       \/ /\ r.op = "model" /\ net' = Instead(r, Load(r.id))
          /\ asked' = r.id /\ UNCHANGED askedText
    /\ UNCHANGED <<page, sessions, activeId, active, blurred, listBlurred>>

(* Faulty variant: the list is not fetched again.                          *)
TakeDeletedQuietly(r) ==
    /\ r.op \in {"archive", "delete"}
    /\ Select(IF r.arg THEN None ELSE activeId, Without(r))
    /\ UNCHANGED <<sessions, askedText, blurred, listBlurred>>

TakeDeleted(r) ==
    /\ r.op \in {"archive", "delete"}
    /\ Select(IF r.arg THEN None ELSE activeId, Instead(r, List(r.query)))
    /\ askedText' = r.query
    /\ UNCHANGED <<sessions, blurred, listBlurred>>

TakeAnswer ==
    \E r \in BagToSet(net) :
        /\ page = "up"
        /\ r.got # Pending
        /\ \/ TakeList(r)
           \/ TakeLoad(r)
           \/ TakeCreated(r)
           \/ TakePatched(r)
           \/ TakeDeleted(r)
        /\ UNCHANGED <<streaming, streamingRef, searchOpen, searchQuery, sockets, server, left,
                       typed, givenBody, givenList, unseen, unlisted, residue>>

(* A fetch that throws, before or after the server did its part.  Nothing  *)
(* that follows the await happens: what a list or a load would have told,  *)
(* and what was changed and would have been listed, remains untold.        *)
Unlists(r) ==
    {id \in Sessions : \/ r.op = "list" /\ r.got = Pending
                       \/ r.op = "create" /\ r.got = Created(id)
                       \/ r.op \in {"pin", "archive", "delete"} /\ r.id = id}

FetchFails ==
    \E r \in BagToSet(net) :
        /\ Spend("fail")
        /\ net' = Without(r)
        /\ blurred' = (blurred \/ (r.op \in {"load", "model"} /\ r.id = asked))
        /\ unseen' = IF r.op \in {"load", "model"} THEN unseen \cup {r.id} ELSE unseen
        /\ listBlurred' = (listBlurred \/ r.op = "list")
        /\ unlisted' = unlisted \cup Unlists(r)
        /\ UNCHANGED <<view, sockets, server, typed, asked, askedText, givenBody, givenList,
                       residue>>

-----------------------------------------------------------------------------
(* The chat socket, on the page.                                           *)
SocketOpens ==
    /\ page = "up" /\ sockets[Ws].state = "connecting"
    /\ sockets' = [sockets EXCEPT ![Ws].state = "open"]
    /\ UNCHANGED <<view, net, server, left, history>>

(* Nothing reopens a socket that was lost.                                 *)
SocketLost ==
    /\ page = "up" /\ sockets[Ws].state # "closed"
    /\ Spend("drop")
    /\ sockets' = Closed(Ws)
    /\ Abandon
    /\ UNCHANGED <<view, net, server, askedText>>

Frame == Head(sockets[Ws].down)

ShowMore(message) ==
    active' = IF active = None THEN None
              ELSE [active EXCEPT !.messages = Append(@, message)]

TakeDelta ==
    /\ Frame.type = "chat.delta"
    /\ streaming' = Append(streaming, <<Frame.turn, Frame.part>>)
    /\ UNCHANGED <<active, net, asked, askedText, blurred, residue>>

(* A tool call is shown but not stored.                                    *)
TakeToolCall ==
    /\ Frame.type = "chat.tool_call"
    /\ ShowMore(ToolMessage(Frame.turn))
    /\ blurred' = TRUE
    /\ UNCHANGED <<streaming, net, asked, askedText, residue>>

(* Faulty variant: the session is not fetched again.                       *)
TakeDoneShowing ==
    /\ Frame.type = "chat.done"
    /\ ShowMore(Answer(Frame.turn, streamingRef))
    /\ streaming' = <<>>
    /\ net' = net (+) SetToBag({List(searchQuery)})
    /\ askedText' = searchQuery
    /\ residue' = FALSE
    /\ UNCHANGED <<asked, blurred>>

(* The bubble takes the streamed text as the last effect copied it; then   *)
(* the list and the session of the turn are fetched again, whichever       *)
(* session is selected.                                                    *)
TakeDone ==
    /\ Frame.type = "chat.done"
    /\ ShowMore(Answer(Frame.turn, streamingRef))
    /\ streaming' = <<>>
    /\ net' = net (+) SetToBag({List(searchQuery)}) (+) SetToBag({Load(Frame.session)})
    /\ asked' = Frame.session /\ askedText' = searchQuery
    /\ residue' = FALSE
    /\ UNCHANGED blurred

(* Faulty variant: an error leaves the text that was streamed.             *)
TakeErrorKeeping ==
    /\ Frame.type = "chat.error"
    /\ residue' = FALSE
    /\ UNCHANGED <<streaming, active, net, asked, askedText, blurred>>

TakeError ==
    /\ Frame.type = "chat.error"
    /\ streaming' = <<>>
    /\ residue' = FALSE
    /\ UNCHANGED <<active, net, asked, askedText, blurred>>

TakeFrame ==
    /\ page = "up" /\ sockets[Ws].state = "open" /\ sockets[Ws].down # <<>>
    /\ \/ TakeDelta
       \/ TakeToolCall
       \/ TakeDone
       \/ TakeError
    /\ sockets' = [sockets EXCEPT ![Ws].down = Tail(@)]
    /\ UNCHANGED <<page, sessions, activeId, streamingRef, searchOpen, searchQuery, server, left,
                   typed, givenBody, givenList, unseen, unlisted, listBlurred>>

(* The effect that follows a render with another streamed text.            *)
CopyStreaming ==
    /\ page = "up" /\ streamingRef # streaming
    /\ streamingRef' = streaming
    /\ UNCHANGED <<page, sessions, activeId, active, streaming, searchOpen,
                   searchQuery, net, sockets, server, left, history>>

-----------------------------------------------------------------------------
(* The chat socket, at the server: a handler for each, which takes one     *)
(* frame after the other.  It serves on when the socket is closed, but     *)
(* nobody hears it.                                                        *)
Heard(k, frame) ==
    IF sockets[k].state = "open" THEN Append(sockets[k].down, frame)
    ELSE sockets[k].down

Served(k, frame, serving) ==
    sockets' = [sockets EXCEPT ![k].down = Heard(k, frame), ![k].serving = serving]

FrameOf(k, type) ==
    [type |-> type, session |-> sockets[k].serving.session,
     turn |-> sockets[k].serving.turn, part |-> sockets[k].serving.sent + 1]

HandlerTakes(k) ==
    /\ sockets[k].serving = Idle /\ sockets[k].up # <<>>
    /\ LET f == Head(sockets[k].up)
           down == Heard(k, [type |-> "chat.error", session |-> f.session,
                             turn |-> f.turn, part |-> 0])
       IN  IF Exists(f.session)
           THEN /\ stored' = [stored EXCEPT ![f.session] = Append(@, UserMessage(f.turn))]
                /\ sockets' = [sockets EXCEPT ![k].up = Tail(@),
                                 ![k].serving = [session |-> f.session, turn |-> f.turn, sent |-> 0]]
           ELSE /\ sockets' = [sockets EXCEPT ![k].up = Tail(@), ![k].down = down]
                /\ UNCHANGED stored
    /\ UNCHANGED <<left, unseen, unlisted, blurred>>

HandlerStreams(k) ==
    /\ sockets[k].serving # Idle /\ sockets[k].serving.sent < Parts
    /\ Served(k, FrameOf(k, "chat.delta"), [sockets[k].serving EXCEPT !.sent = @ + 1])
    /\ UNCHANGED <<stored, left, unseen, unlisted, blurred>>

HandlerCallsTool(k) ==
    /\ sockets[k].serving # Idle
    /\ Spend("tool")
    /\ Served(k, FrameOf(k, "chat.tool_call"), sockets[k].serving)
    /\ UNCHANGED <<stored, unseen, unlisted, blurred>>

HandlerFinishes(k) ==
    /\ sockets[k].serving # Idle
    /\ LET t == sockets[k].serving
           untold == IF sockets[k].state = "closed" THEN {t.session} ELSE {}
       IN  /\ stored' = IF Exists(t.session)
                        THEN [stored EXCEPT ![t.session] = Append(@, Answer(t.turn, Text(t.turn, t.sent)))]
                        ELSE stored
           /\ unseen' = unseen \cup untold /\ unlisted' = unlisted \cup untold
           /\ blurred' = (blurred \/ asked \in untold)
    /\ Served(k, FrameOf(k, "chat.done"), Idle)
    /\ UNCHANGED left

(* The provider fails, or the transport that is gone; in the latter case   *)
(* the handler may also end, with the frames it had not taken.  The list   *)
(* is not told that the user's message is stored.                          *)
HandlerFails(k) ==
    /\ sockets[k].serving # Idle
    /\ Served(k, FrameOf(k, "chat.error"), Idle)
    /\ unlisted' = unlisted \cup {sockets[k].serving.session}
    /\ UNCHANGED <<stored, left, unseen, blurred>>

HandlerEnds(k) ==
    /\ sockets[k].state = "closed" /\ Busy(k)
    /\ sockets' = [sockets EXCEPT ![k].up = <<>>, ![k].serving = Idle]
    /\ unlisted' = unlisted \cup ({sockets[k].serving.session} \ {None})
    /\ UNCHANGED <<stored, left, unseen, blurred>>

Handler(k) ==
    /\ \/ HandlerTakes(k)
       \/ HandlerStreams(k)
       \/ HandlerCallsTool(k)
       \/ HandlerFinishes(k)
       \/ HandlerFails(k)
       \/ HandlerEnds(k)
    /\ UNCHANGED <<view, net, status, pinned, model, typed, asked, askedText, givenBody,
                   givenList, listBlurred, residue>>

-----------------------------------------------------------------------------
UserActs ==
    \/ \E id \in Sessions : \/ SelectSession(id) \/ PinSession(id)
                            \/ ArchiveSession(id) \/ DeleteSession(id)
    \/ \E m \in Models : SetSessionModel(m)
    \/ NewSession \/ Send \/ ToggleSearch
    \/ \E q \in Queries : Type(q)

ChatNext ==
    \/ UserActs
    \/ ServerAnswers \/ TakeAnswer \/ FetchFails
    \/ SocketOpens \/ SocketLost \/ TakeFrame \/ CopyStreaming
    \/ \E k \in 1..Ws : Handler(k)

-----------------------------------------------------------------------------
AtRest ==
    /\ page = "up" /\ net = EmptyBag /\ streamingRef = streaming
    /\ \A k \in 1..Ws : ~Busy(k)

(* When nothing is under way any more, the transcript on the screen is the *)
(* stored one, message for message, of the session the page asked for last *)
(* (the one selected last, unless a turn ended or a model was set since:   *)
(* then that session).  What was put there by hand, the user's own message *)
(* and the bubble made of streamed text, is what the server stored too.    *)
(* Excused is a message typed while no socket was open or while another    *)
(* session was shown, a tool call shown, a turn whose socket was closed, a *)
(* failed fetch, an answer overtaken by another, and one that C1 gave      *)
(* before it heard of a message or was asked again in vain.                *)
ViewTruthful ==
    AtRest /\ ~blurred =>
        /\ asked = None => active = None
        /\ asked # None /\ Exists(asked) => active = Body(asked)

(* No half of an answer stays on the screen as if it were still coming in, *)
(* unless its socket was closed in the middle of it.                       *)
StreamingIsLive == AtRest /\ ~residue => streaming = <<>>

(* When nothing is under way any more, the list is the one the server      *)
(* would give for the search text the page asked with last (the one in the *)
(* field, unless a handler made before it was typed asked since), titles,  *)
(* counts and what is found in the messages included.  Excused is a list   *)
(* overtaken by another or whose fetch failed, and the row of a session    *)
(* that changed without a fetch: its turn ended in an error or was not     *)
(* heard of, or its model was set.                                         *)
ListTruthful ==
    AtRest /\ ~listBlurred =>
        LET now == Listing(askedText)
        IN  \A id \in Sessions \ unlisted :
                /\ id \in DOMAIN sessions <=> id \in DOMAIN now
                /\ id \in DOMAIN now => sessions[id] = now[id]

(* A message is stored at most once, and in the session that was selected  *)
(* when the user sent it, however late its session is loaded and whatever  *)
(* session is shown or served meanwhile.                                   *)
FiledWhereTyped ==
    \A id \in Sessions : \A i \in 1..Len(stored[id]) :
        LET m == stored[id][i]
        IN  m.role = "user" =>
              /\ typed[m.turn] = id
              /\ \A j \in 1..(i - 1) : stored[id][j] # m

(* A session can be shown: "<ModelSelect/> is the v1.3.0 chat header       *)
(* widget that lets the user pick a model" (ModelSelect.tsx:25), and the   *)
(* header that holds it does not take the page down.                       *)
HeaderShown == active # None => page = "up"
=============================================================================
