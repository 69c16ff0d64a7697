--------------------------- MODULE ChatTab_proofs ---------------------------
(* The chat tab, for every number of sessions, models, providers, fields   *)
(* and messages, any number of requests, frames and sockets, and any       *)
(* budget.  First the chat panel: its types; where a message may be; the   *)
(* text that streams in; the list; what the page and the frames name; the  *)
(* transcript.  Then the keys dialog, the configuration dialog, and the    *)
(* three together.                                                         *)
EXTENDS ChatTab, TLAPS

(* Bags of requests: which records are in one after a record was put in or *)
(* taken out.                                                              *)

(* Putting a record in: it is there, and so is what was there.             *)
LEMMA BagPut ==
    ASSUME NEW B, NEW r
    PROVE  BagToSet(B (+) SetToBag({r})) = BagToSet(B) \cup {r}
  BY DEF BagToSet, SetToBag, (+)

(* Putting nothing in, as the effects do that find nothing to fetch.       *)
LEMMA BagPutNone ==
    ASSUME NEW B
    PROVE  BagToSet(B (+) SetToBag({})) = BagToSet(B)
  BY DEF BagToSet, SetToBag, (+)

(* Taking a copy of a record out: at most that record is gone.             *)
LEMMA BagTake ==
    ASSUME NEW B, NEW r
    PROVE  BagToSet(B (-) SetToBag({r})) \subseteq BagToSet(B)
  BY DEF BagToSet, SetToBag, (-)

(* There is one bag without records.                                       *)
LEMMA EmptyIsBag ==
    /\ IsABag(EmptyBag) /\ BagToSet(EmptyBag) = {}
    /\ \A B : IsABag(B) /\ BagToSet(B) = {} => B = EmptyBag
<1>1. IsABag(EmptyBag) /\ BagToSet(EmptyBag) = {}
  BY DEF IsABag, BagToSet, EmptyBag, SetToBag
<1>2. ASSUME NEW B, IsABag(B), BagToSet(B) = {} PROVE B = EmptyBag
  BY <1>2 DEF IsABag, BagToSet, EmptyBag, SetToBag
<1>3. QED
  BY <1>1, <1>2

-----------------------------------------------------------------------------
(* The chat panel.  What may be a message, a session, a frame or a request *)
(* once n messages were typed; nothing of it goes away when another one is *)
(* typed.                                                                  *)
Deltas(n) == (1..n) \X (1..Parts)
MessagesTo(n) ==
    [role : {"user", "tool", "assistant"}, turn : 1..n, text : Seq(Deltas(n))]
Bodies(n) == [id : Sessions, model : Models \cup {None}, messages : Seq(MessagesTo(n))]

UpFrames(n) == [session : Sessions, turn : 1..n]
FrameTypes == {"chat.delta", "chat.tool_call", "chat.done", "chat.error"}
DownFrames(n) ==
    {f \in [type : FrameTypes, session : Sessions, turn : 1..n, part : Nat] :
        f.type = "chat.delta" => f.part \in 1..Parts}
Servings(n) == {Idle} \cup [session : Sessions, turn : 1..n, sent : 0..Parts]
SocketStates(n) ==
    [state : {"connecting", "open", "closed"}, up : Seq(UpFrames(n)),
     down : Seq(DownFrames(n)), serving : Servings(n)]

IsList(list) ==
    DOMAIN list \subseteq Sessions /\ \A id \in DOMAIN list : list[id] \in Summaries

IsRequest(r) ==
    /\ r = [op |-> r.op, id |-> r.id, arg |-> r.arg, query |-> r.query, got |-> r.got]
    /\ r.query \in Queries
    /\ r.op \in {"load", "model"} => r.id \in Sessions
    /\ r.op = "pin" => r.arg \in BOOLEAN
    /\ r.op = "model" => r.arg \in Models

IsAnswered(r, n) ==
    /\ r.op = "list" => \E list : r.got = Listed(list) /\ IsList(list)
    /\ r.op = "load" => r.got = Missing \/ \E b \in Bodies(n) : r.got = Loaded(b)
    /\ r.op = "create" => \E id \in Sessions : r.got = Created(id)

RequestOK(r, n) == IsRequest(r) /\ (r.got = Pending \/ IsAnswered(r, n))

(* The panel's state, part by part.                                        *)
N == Len(typed)

ViewOK ==
    /\ page \in {"up", "crashed"}
    /\ IsList(sessions)
    /\ activeId \in Sessions \cup {None}
    /\ active = None \/ active \in Bodies(N)
    /\ searchOpen \in BOOLEAN /\ searchQuery \in Queries
StreamOK == streaming \in Seq(Deltas(N)) /\ streamingRef \in Seq(Deltas(N))
NetOK == \A r \in BagToSet(net) : RequestOK(r, N)
SocketsOK ==
    /\ sockets \in Seq(SocketStates(N)) /\ Len(sockets) >= 1
    /\ \A k \in 1..Len(sockets) :
          /\ k < Len(sockets) => sockets[k].state = "closed"
          /\ sockets[k].state # "open" => sockets[k].down = <<>>
ServerOK ==
    /\ status \in [Sessions -> {"unborn", "listed", "archived", "deleted"}]
    /\ pinned \in [Sessions -> BOOLEAN]
    /\ model \in [Sessions -> Models \cup {None}]
    /\ stored \in [Sessions -> Seq(MessagesTo(N))]
RestOK ==
    /\ left \in [Operations -> Nat]
    /\ typed \in Seq(Sessions)
    /\ blurred \in BOOLEAN /\ listBlurred \in BOOLEAN /\ residue \in BOOLEAN

PanelInv == ViewOK /\ StreamOK /\ NetOK /\ SocketsOK /\ ServerOK /\ RestOK

(* What the page asked for, and what C1 gave.                              *)
GivenOK ==
    /\ asked \in Sessions \cup {None} /\ askedText \in Queries
    /\ givenBody = [id \in Sessions |-> givenBody[id]]
    /\ \A id \in Sessions : givenBody[id].id = id
    /\ givenList = [query \in Queries |-> givenList[query]]
    /\ \A query \in Queries : IsList(givenList[query])
    /\ unseen \subseteq Sessions /\ unlisted \subseteq Sessions

LEMMA SomeParts == Parts \in Nat /\ Parts >= 1
<1>1. Parts \in Nat \ {0}
  BY ChatPanelAssumption
<1>2. QED
  BY <1>1

LEMMA PanelTypes == PanelInv /\ GivenOK => ChatTypeOK
<1> SUFFICES ASSUME PanelInv, GivenOK PROVE ChatTypeOK
  OBVIOUS
<1>1. Messages = MessagesTo(N) /\ Turns \X (1..Parts) = Deltas(N)
  BY DEF Messages, MessagesTo, Deltas, Turns, N
<1>2. active # None =>
        active \in [id : Sessions, model : Models \cup {None}, messages : Seq(Messages)]
  BY <1>1 DEF PanelInv, ViewOK, Bodies
<1>3. {streaming, streamingRef} \subseteq Seq(Turns \X (1..Parts))
  BY <1>1 DEF PanelInv, StreamOK
<1>4. \A r \in BagToSet(net) : r.query \in Queries
  BY DEF PanelInv, NetOK, RequestOK, IsRequest
<1>5. ASSUME NEW k \in 1..Ws
      PROVE  /\ k < Ws => sockets[k].state = "closed"
             /\ sockets[k].state # "open" => sockets[k].down = <<>>
             /\ sockets[k].serving.session \in Sessions \cup {None}
             /\ sockets[k].serving.sent \in 0..Parts
  <2>1. sockets[k] \in SocketStates(N) /\ Ws = Len(sockets)
    BY DEF PanelInv, SocketsOK, Ws
  <2>2. sockets[k].serving \in Servings(N)
    BY <2>1 DEF SocketStates
  <2>3. /\ sockets[k].serving.session \in Sessions \cup {None}
        /\ sockets[k].serving.sent \in 0..Parts
    <3>1. CASE sockets[k].serving = Idle
      <4>1. 0 \in 0..Parts
        BY SomeParts
      <4>2. QED
        BY <3>1, <4>1 DEF Idle
    <3>2. CASE sockets[k].serving \in [session : Sessions, turn : 1..N, sent : 0..Parts]
      BY <3>2
    <3>3. QED
      BY <2>2, <3>1, <3>2 DEF Servings
  <2>4. QED
    BY <2>1, <2>3 DEF PanelInv, SocketsOK
<1>6. stored \in [Sessions -> Seq(Messages)]
  BY <1>1 DEF PanelInv, ServerOK
<1>7. /\ \A id \in Sessions : givenBody[id].id = id
      /\ \A query \in Queries : DOMAIN givenList[query] \subseteq Sessions
  BY DEF GivenOK, IsList
<1>8. QED
  BY <1>2, <1>3, <1>4, <1>5, <1>6, <1>7
  DEF ChatTypeOK, PanelInv, ViewOK, IsList, ServerOK, RestOK, GivenOK

-----------------------------------------------------------------------------
(* Lemmas about these sets.                                                *)
LEMMA SeqGrows == ASSUME NEW S, NEW T, S \subseteq T PROVE Seq(S) \subseteq Seq(T)
  OBVIOUS

(* One more message is typed.                                              *)
LEMMA TypedMore ==
    ASSUME NEW n \in Nat
    PROVE  /\ MessagesTo(n) \subseteq MessagesTo(n + 1)
           /\ Seq(MessagesTo(n)) \subseteq Seq(MessagesTo(n + 1))
           /\ Seq(Deltas(n)) \subseteq Seq(Deltas(n + 1))
           /\ Bodies(n) \subseteq Bodies(n + 1)
           /\ SocketStates(n) \subseteq SocketStates(n + 1)
           /\ \A r : RequestOK(r, n) => RequestOK(r, n + 1)
<1>1. 1..n \subseteq 1..(n + 1)
  OBVIOUS
<1>2. Deltas(n) \subseteq Deltas(n + 1)
  BY <1>1 DEF Deltas
<1>3. Seq(Deltas(n)) \subseteq Seq(Deltas(n + 1))
  BY <1>2, SeqGrows
<1>4. MessagesTo(n) \subseteq MessagesTo(n + 1)
  BY <1>1, <1>3 DEF MessagesTo
<1>5. Seq(MessagesTo(n)) \subseteq Seq(MessagesTo(n + 1))
  BY <1>4, SeqGrows
<1>6. Bodies(n) \subseteq Bodies(n + 1)
  BY <1>5 DEF Bodies
<1>7. UpFrames(n) \subseteq UpFrames(n + 1)
  BY <1>1 DEF UpFrames
<1>8. DownFrames(n) \subseteq DownFrames(n + 1)
  BY <1>1 DEF DownFrames
<1>9. Servings(n) \subseteq Servings(n + 1)
  BY <1>1 DEF Servings
<1>10. Seq(UpFrames(n)) \subseteq Seq(UpFrames(n + 1)) /\ Seq(DownFrames(n)) \subseteq Seq(DownFrames(n + 1))
  BY <1>7, <1>8, SeqGrows
<1>11. SocketStates(n) \subseteq SocketStates(n + 1)
  BY <1>9, <1>10 DEF SocketStates
<1>12. \A r : RequestOK(r, n) => RequestOK(r, n + 1)
  BY <1>6 DEF RequestOK, IsAnswered
<1>13. QED
  BY <1>3, <1>4, <1>5, <1>6, <1>11, <1>12

LEMMA AskedOK ==
    ASSUME NEW n, NEW op, NEW id, NEW arg, NEW query \in Queries,
           op \in {"load", "model"} => id \in Sessions,
           op = "pin" => arg \in BOOLEAN, op = "model" => arg \in Models
    PROVE  RequestOK(Request(op, id, arg, query), n)
  BY DEF Request, RequestOK, IsRequest

LEMMA ListOK == ASSUME NEW n, NEW query \in Queries PROVE RequestOK(List(query), n)
  BY DEF List, Request, RequestOK, IsRequest

LEMMA LoadOK == ASSUME NEW n, NEW id \in Sessions PROVE RequestOK(Load(id), n)
  BY ChatPanelAssumption DEF Load, Request, RequestOK, IsRequest

LEMMA NewSocketOK ==
    ASSUME NEW n
    PROVE  NewSocket \in SocketStates(n) /\ NewSocket.state # "open" /\ NewSocket.down = <<>>
  BY DEF NewSocket, SocketStates, Servings, Idle

LEMMA SpendOK ==
    ASSUME RestOK, NEW op \in Operations, Spend(op)
    PROVE  left' \in [Operations -> Nat]
  BY DEF RestOK, Spend

LEMMA PanelInitInv == ChatInit => PanelInv
<1> SUFFICES ASSUME ChatInit PROVE PanelInv
  OBVIOUS
<1>1. <<>> \in Seq(Sessions)
  OBVIOUS
<1>2. NetOK
  <2>1. BagToSet(net) = {List("")}
    BY DEF ChatInit, BagToSet, SetToBag
  <2>2. "" \in Queries
    BY ChatPanelAssumption
  <2>3. QED
    BY <2>1, <2>2, ListOK DEF NetOK
<1>3. SocketsOK
  <2>1. <<NewSocket>> \in Seq(SocketStates(N)) /\ Len(<<NewSocket>>) = 1
    BY NewSocketOK
  <2>2. <<NewSocket>>[1] = NewSocket /\ sockets = <<NewSocket>>
    BY DEF ChatInit
  <2>3. QED
    BY <2>1, <2>2, NewSocketOK DEF SocketsOK
<1>4. ViewOK
  BY ChatPanelAssumption DEF ChatInit, ViewOK, IsList
<1>5. StreamOK
  <2>1. <<>> \in Seq(Deltas(N))
    OBVIOUS
  <2>2. QED
    BY <2>1 DEF ChatInit, StreamOK
<1>6. ServerOK
  <2>1. <<>> \in Seq(MessagesTo(N))
    OBVIOUS
  <2>2. QED
    BY <2>1 DEF ChatInit, ServerOK
<1>7. RestOK
  BY <1>1, ChatPanelAssumption DEF ChatInit, RestOK
<1>8. QED
  BY <1>2, <1>3, <1>4, <1>5, <1>6, <1>7 DEF PanelInv

-----------------------------------------------------------------------------
(* What an action does to the requests: it adds one, replaces one, drops   *)
(* one, or selects a session, which may add one more.                      *)
LEMMA NetAdds ==
    ASSUME NEW n, NEW B, \A q \in BagToSet(B) : RequestOK(q, n), NEW r, RequestOK(r, n)
    PROVE  \A q \in BagToSet(B (+) SetToBag({r})) : RequestOK(q, n)
<1>1. BagToSet(B (+) SetToBag({r})) = BagToSet(B) \cup {r}
  BY BagPut
<1>2. TAKE q \in BagToSet(B (+) SetToBag({r}))
<1>3. CASE q \in BagToSet(B)
  BY <1>3
<1>4. CASE q = r
  BY <1>4, Zenon
<1>5. QED
  BY <1>1, <1>2, <1>3, <1>4

LEMMA NetDrops ==
    ASSUME NetOK, NEW r
    PROVE  \A q \in BagToSet(Without(r)) : RequestOK(q, N)
  BY BagTake DEF NetOK, Without

LEMMA NetReplaces ==
    ASSUME NetOK, NEW r, NEW next, RequestOK(next, N)
    PROVE  \A q \in BagToSet(Instead(r, next)) : RequestOK(q, N)
  BY NetDrops, NetAdds DEF Instead

LEMMA Selects ==
    ASSUME ViewOK, NEW id \in Sessions \cup {None}, NEW others,
           \A q \in BagToSet(others) : RequestOK(q, N), Select(id, others),
           UNCHANGED <<typed, sessions, searchOpen, searchQuery>>
    PROVE  ViewOK' /\ NetOK'
<1>1. ViewOK'
  BY DEF ViewOK, Select, Show, N
<1>2. CASE id \in {activeId, None}
  <2>1. BagToSet(net') = BagToSet(others)
    BY <1>2, BagPutNone DEF Select
  <2>2. QED
    BY <1>1, <2>1 DEF NetOK, N
<1>3. CASE id \notin {activeId, None}
  <2>1. net' = others (+) SetToBag({Load(id)})
    BY <1>3 DEF Select
  <2>2. QED
    BY <1>1, <1>3, <2>1, LoadOK, NetAdds DEF NetOK, N
<1>4. QED
  BY <1>2, <1>3

(* A socket in another state; only the last one is open.                   *)
LEMMA SocketSet ==
    ASSUME SocketsOK, NEW k \in 1..Len(sockets), NEW x \in SocketStates(N),
           sockets' = [sockets EXCEPT ![k] = x], UNCHANGED typed,
           k < Len(sockets) => x.state = "closed",
           x.state # "open" => x.down = <<>>
    PROVE  SocketsOK'
<1>1. sockets' \in Seq(SocketStates(N)) /\ Len(sockets') = Len(sockets)
  BY DEF SocketsOK
<1>2. \A j \in 1..Len(sockets) : sockets'[j] = IF j = k THEN x ELSE sockets[j]
  BY DEF SocketsOK
<1>3. N' = N
  BY DEF N
<1>4. QED
  BY <1>1, <1>2, <1>3 DEF SocketsOK

LEMMA LastSocket ==
    ASSUME SocketsOK
    PROVE  /\ Ws \in 1..Len(sockets) /\ sockets[Ws] \in SocketStates(N)
           /\ sockets[Ws].state # "open" => sockets[Ws].down = <<>>
  BY DEF SocketsOK, Ws

(* The user.                                                               *)
LEMMA AskInv ==
    ASSUME PanelInv, NEW op \in Operations, NEW id, NEW arg, Ask(op, id, arg),
           op \in {"load", "model"} => id \in Sessions,
           op = "pin" => arg \in BOOLEAN, op = "model" => arg \in Models
    PROVE  PanelInv'
<1>1. RequestOK(Request(op, id, arg, searchQuery), N)
  BY AskedOK DEF PanelInv, ViewOK
<1>2. UNCHANGED <<view, sockets, server, history>> /\ Spend(op) /\ N' = N
  BY DEF Ask, history, N
<1>3. NetOK'
  BY <1>1, <1>2, NetAdds DEF PanelInv, NetOK, Ask, Added
<1>4. RestOK'
  BY <1>2, SpendOK DEF PanelInv, RestOK, history, shownHistory, listHistory
<1>5. ViewOK' /\ StreamOK'
  BY <1>2 DEF PanelInv, ViewOK, StreamOK, view
<1>6. SocketsOK' /\ ServerOK'
  BY <1>2 DEF PanelInv, SocketsOK, ServerOK, server
<1>7. QED
  BY <1>3, <1>4, <1>5, <1>6 DEF PanelInv

LEMMA SendInv == ASSUME PanelInv, Send PROVE PanelInv'
<1> DEFINE frame == [session |-> activeId, turn |-> N + 1]
<1>1. activeId \in Sessions /\ N \in Nat
  BY DEF Send, InputEnabled, PanelInv, ViewOK, RestOK, N
<1>2. typed' = Append(typed, activeId) /\ typed' \in Seq(Sessions) /\ N' = N + 1
  BY <1>1 DEF Send, PanelInv, RestOK, N
<1>3. frame \in UpFrames(N + 1) /\ UserMessage(N + 1) \in MessagesTo(N + 1)
  <2>1. N + 1 \in 1..(N + 1) /\ <<>> \in Seq(Deltas(N + 1))
    BY <1>1
  <2>2. QED
    BY <1>1, <2>1 DEF UpFrames, UserMessage, MessagesTo
<1>4. ViewOK'
  <2>1. active' = None \/ active' \in Bodies(N + 1)
    <3>1. CASE active = None
      BY <3>1 DEF Send
    <3>2. CASE active # None
      <4>1. active' = [active EXCEPT !.messages = Append(@, UserMessage(N + 1))]
        BY <3>2 DEF Send, N
      <4>2. active \in Bodies(N + 1)
        BY <1>1, <3>2, TypedMore DEF PanelInv, ViewOK
      <4>3. Append(active.messages, UserMessage(N + 1)) \in Seq(MessagesTo(N + 1))
        BY <1>3, <4>2 DEF Bodies
      <4>4. QED
        BY <4>1, <4>2, <4>3 DEF Bodies
    <3>3. QED
      BY <3>1, <3>2
  <2>2. UNCHANGED <<page, sessions, activeId, searchOpen, searchQuery>>
    BY DEF Send
  <2>3. QED
    BY <1>2, <2>1, <2>2 DEF PanelInv, ViewOK
<1>5. StreamOK'
  BY <1>1, <1>2, TypedMore DEF Send, PanelInv, StreamOK
<1>6. NetOK'
  BY <1>1, <1>2, TypedMore DEF Send, PanelInv, NetOK
<1>7. SocketsOK'
  <2> DEFINE x == [sockets[Ws] EXCEPT !.up = Append(@, frame)]
  <2>1. SocketStates(N) \subseteq SocketStates(N + 1)
    BY <1>1, TypedMore
  <2>2. sockets \in Seq(SocketStates(N + 1)) /\ Ws \in 1..Len(sockets)
    BY <2>1, SeqGrows, LastSocket DEF PanelInv, SocketsOK
  <2>3. sockets[Ws] \in SocketStates(N + 1)
    BY <2>2
  <2>4. Append(sockets[Ws].up, frame) \in Seq(UpFrames(N + 1))
    BY <1>3, <2>3 DEF SocketStates
  <2> HIDE DEF frame
  <2>5. x \in SocketStates(N + 1) /\ x.state = sockets[Ws].state /\ x.down = sockets[Ws].down
    BY <2>3, <2>4 DEF SocketStates
  <2>6. sockets' = sockets \/ sockets' = [sockets EXCEPT ![Ws] = x]
    BY <2>2 DEF Send, frame, N
  <2> HIDE DEF x
  <2>7. CASE sockets' = sockets
    BY <1>2, <2>2, <2>7 DEF PanelInv, SocketsOK
  <2>8. CASE sockets' = [sockets EXCEPT ![Ws] = x]
    <3>1. sockets' \in Seq(SocketStates(N + 1)) /\ Len(sockets') = Len(sockets)
      BY <2>2, <2>5, <2>8
    <3>2. \A j \in 1..Len(sockets) : sockets'[j] = IF j = Ws THEN x ELSE sockets[j]
      BY <2>2, <2>8
    <3>3. \A j \in 1..Len(sockets) :
            sockets'[j].state = sockets[j].state /\ sockets'[j].down = sockets[j].down
      BY <2>5, <3>2
    <3>4. QED
      BY <1>2, <3>1, <3>3 DEF PanelInv, SocketsOK
  <2>9. QED
    BY <2>6, <2>7, <2>8
<1>8. ServerOK'
  <2>1. stored' = stored /\ stored \in [Sessions -> Seq(MessagesTo(N + 1))]
    BY <1>1, TypedMore DEF Send, server, PanelInv, ServerOK
  <2>2. QED
    BY <1>2, <2>1 DEF Send, server, PanelInv, ServerOK
<1>9. RestOK'
  <2>1. left' \in [Operations -> Nat]
    BY SpendOK DEF Send, PanelInv, Operations
  <2>2. blurred' \in BOOLEAN /\ UNCHANGED <<listBlurred, residue>>
    BY DEF Send, listHistory
  <2>3. QED
    BY <1>2, <2>1, <2>2 DEF PanelInv, RestOK
<1>10. QED
  BY <1>4, <1>5, <1>6, <1>7, <1>8, <1>9 DEF PanelInv

(* A socket that is closed delivers nothing any more.                      *)
LEMMA ClosedSocket ==
    ASSUME SocketsOK, NEW x, x = [sockets[Ws] EXCEPT !.state = "closed", !.down = <<>>]
    PROVE  /\ x \in SocketStates(N) /\ x.state = "closed" /\ x.down = <<>>
           /\ Closed(Ws) = [sockets EXCEPT ![Ws] = x]
           /\ x.up = sockets[Ws].up /\ x.serving = sockets[Ws].serving
<1>1. Ws \in 1..Len(sockets) /\ sockets[Ws] \in SocketStates(N)
  BY LastSocket
<1>2. <<>> \in Seq(DownFrames(N))
  OBVIOUS
<1>3. x \in SocketStates(N) /\ x.state = "closed" /\ x.down = <<>>
  BY <1>1, <1>2 DEF SocketStates
<1>4. Closed(Ws) = [sockets EXCEPT ![Ws] = x]
  BY <1>1 DEF Closed, SocketsOK
<1>5. x.up = sockets[Ws].up /\ x.serving = sockets[Ws].serving
  BY <1>1 DEF SocketStates
<1>6. QED
  BY <1>3, <1>4, <1>5

LEMMA AbandonOK == ASSUME RestOK, Abandon PROVE blurred' \in BOOLEAN /\ residue' \in BOOLEAN
  BY DEF RestOK, Abandon

LEMMA TypeInv == ASSUME PanelInv, NEW q \in Queries, Type(q) PROVE PanelInv'
<1>1. UNCHANGED <<page, sessions, activeId, active, streaming, streamingRef, searchOpen,
                  server, typed>> /\ N' = N
  BY DEF Type, Abandon, N
<1>2. NetOK'
  BY <1>1, ListOK, NetAdds DEF Type, PanelInv, NetOK, Added
<1>3. SocketsOK'
  <2> DEFINE x == [sockets[Ws] EXCEPT !.state = "closed", !.down = <<>>]
             closed == [sockets EXCEPT ![Ws] = x]
  <2>1. x \in SocketStates(N) /\ x.state = "closed" /\ x.down = <<>> /\ Closed(Ws) = closed
    BY ClosedSocket DEF PanelInv
  <2>2. NewSocket \in SocketStates(N) /\ NewSocket.state # "open" /\ NewSocket.down = <<>>
    BY NewSocketOK
  <2> HIDE DEF x
  <2>3. closed \in Seq(SocketStates(N)) /\ Len(closed) = Ws /\ Ws \in Nat
    BY <2>1 DEF PanelInv, SocketsOK, Ws
  <2>4. \A j \in 1..Ws : closed[j].state = "closed" /\ closed[j].down = <<>>
    <3>1. \A j \in 1..Ws : closed[j] = IF j = Ws THEN x ELSE sockets[j]
      BY DEF PanelInv, SocketsOK, Ws
    <3>2. QED
      BY <2>1, <3>1 DEF PanelInv, SocketsOK, Ws
  <2> HIDE DEF closed
  <2>5. sockets' = Append(closed, NewSocket)
    BY <2>1 DEF Type
  <2>6. sockets' \in Seq(SocketStates(N)) /\ Len(sockets') = Ws + 1
    BY <2>2, <2>3, <2>5
  <2>7. \A j \in 1..(Ws + 1) : sockets'[j] = IF j <= Ws THEN closed[j] ELSE NewSocket
    BY <2>3, <2>5
  <2>8. \A j \in 1..Len(sockets') :
          /\ j < Len(sockets') => sockets'[j].state = "closed"
          /\ sockets'[j].state # "open" => sockets'[j].down = <<>>
    BY <2>2, <2>3, <2>4, <2>6, <2>7
  <2>9. QED
    BY <1>1, <2>3, <2>6, <2>8 DEF SocketsOK
<1>4. RestOK'
  <2>1. left' \in [Operations -> Nat]
    BY SpendOK DEF Type, PanelInv, Operations
  <2>2. listBlurred' \in BOOLEAN /\ typed' = typed
    BY DEF Type, Abandon, PanelInv, RestOK
  <2>3. QED
    BY <2>1, <2>2, AbandonOK DEF Type, PanelInv, RestOK
<1>5. ViewOK' /\ StreamOK'
  BY <1>1 DEF Type, PanelInv, ViewOK, StreamOK
<1>6. ServerOK'
  BY <1>1 DEF PanelInv, ServerOK, server
<1>7. QED
  BY <1>2, <1>3, <1>4, <1>5, <1>6 DEF PanelInv

LEMMA UserInv == ASSUME PanelInv, UserActs PROVE PanelInv'
<1>1. ASSUME NEW id \in Sessions, SelectSession(id) PROVE PanelInv'
  <2>1. UNCHANGED <<sessions, streaming, streamingRef, searchOpen, searchQuery, sockets,
                    server, typed, blurred, listBlurred, residue>> /\ N' = N
    BY <1>1 DEF SelectSession, listHistory, N
  <2>2. ViewOK' /\ NetOK'
    BY <1>1, <2>1, Selects DEF SelectSession, PanelInv, NetOK
  <2>3. RestOK'
    BY <1>1, <2>1, SpendOK DEF SelectSession, PanelInv, RestOK, Operations
  <2>4. StreamOK' /\ SocketsOK' /\ ServerOK'
    BY <2>1 DEF PanelInv, StreamOK, SocketsOK, ServerOK, server
  <2>5. QED
    BY <2>2, <2>3, <2>4 DEF PanelInv
<1>2. ASSUME NEW id \in Sessions, PinSession(id) PROVE PanelInv'
  BY <1>2, AskInv DEF PinSession, Operations, PanelInv, ViewOK, IsList
<1>3. ASSUME NEW id \in Sessions, ArchiveSession(id) PROVE PanelInv'
  BY <1>3, AskInv DEF ArchiveSession, Operations
<1>4. ASSUME NEW id \in Sessions, DeleteSession(id) PROVE PanelInv'
  BY <1>4, AskInv DEF DeleteSession, Operations
<1>5. ASSUME NEW m \in Models, SetSessionModel(m) PROVE PanelInv'
  BY <1>5, AskInv DEF SetSessionModel, Operations, PanelInv, ViewOK, Bodies
<1>6. CASE NewSession
  BY <1>6, AskInv DEF NewSession, Operations
<1>7. CASE Send
  BY <1>7, SendInv
<1>8. CASE ToggleSearch
  <2>1. UNCHANGED <<net, sockets, server, history>> /\ N' = N
    BY <1>8 DEF ToggleSearch, history, N
  <2>2. ViewOK' /\ StreamOK'
    BY <1>8, <2>1 DEF ToggleSearch, PanelInv, ViewOK, StreamOK
  <2>3. RestOK'
    BY <1>8, <2>1, SpendOK DEF ToggleSearch, PanelInv, RestOK, Operations, history, shownHistory, listHistory
  <2>4. NetOK' /\ SocketsOK' /\ ServerOK'
    BY <2>1 DEF PanelInv, NetOK, SocketsOK, ServerOK, server
  <2>5. QED
    BY <2>2, <2>3, <2>4 DEF PanelInv
<1>9. ASSUME NEW q \in Queries, Type(q) PROVE PanelInv'
  BY <1>9, TypeInv
<1>10. QED
  BY <1>1, <1>2, <1>3, <1>4, <1>5, <1>6, <1>7, <1>8, <1>9 DEF UserActs

(* What neither the server nor the page does in the steps of the other.    *)
LEMMA RestKept ==
    ASSUME RestOK, UNCHANGED <<left, typed, residue>>,
           blurred' \in BOOLEAN, listBlurred' \in BOOLEAN
    PROVE  RestOK'
  BY DEF RestOK

(* What C1 lists.                                                          *)
LEMMA ListingOK ==
    ASSUME ServerOK, RestOK, NEW query
    PROVE  IsList(Listing(query))
<1>1. N \in Nat
  BY DEF RestOK, N
<1>2. ASSUME NEW id \in Sessions PROVE Summary(id) \in Summaries
  <2>1. stored[id] \in Seq(MessagesTo(N))
    BY DEF ServerOK
  <2>2. Title(id) \in Nat
    <3>1. CASE stored[id] = <<>>
      BY <3>1 DEF Title
    <3>2. CASE stored[id] # <<>>
      <4>1. stored[id][1] \in MessagesTo(N)
        BY <2>1, <3>2
      <4>2. stored[id][1].turn \in Nat
        BY <1>1, <4>1 DEF MessagesTo
      <4>3. QED
        BY <3>2, <4>2 DEF Title
    <3>3. QED
      BY <3>1, <3>2
  <2>3. Len(stored[id]) \in Nat /\ pinned[id] \in BOOLEAN /\ model[id] \in Models \cup {None}
    BY <2>1 DEF ServerOK
  <2>4. QED
    BY <2>2, <2>3 DEF Summary, Summaries
<1>3. QED
  BY <1>2 DEF IsList, Listing

(* C1 answers.                                                             *)
LEMMA ServerInv == ASSUME PanelInv, ServerAnswers PROVE PanelInv'
<1>1. PICK r \in BagToSet(net) :
        /\ r.got = Pending
        /\ AnswerList(r) \/ AnswerLoad(r) \/ AnswerCreate(r) \/ AnswerPatch(r) \/ AnswerDelete(r)
        /\ UNCHANGED <<view, sockets, left, typed, blurred, listBlurred, residue>>
  BY DEF ServerAnswers
<1>2. RequestOK(r, N) /\ IsRequest(r)
  BY DEF PanelInv, NetOK, RequestOK
<1>3. N' = N /\ ViewOK' /\ StreamOK' /\ SocketsOK' /\ RestOK'
  <2>1. N' = N
    BY <1>1 DEF N
  <2>2. ViewOK' /\ StreamOK' /\ RestOK'
    BY <1>1, <2>1 DEF PanelInv, ViewOK, StreamOK, RestOK, view
  <2>3. SocketsOK'
    BY <1>1, <2>1 DEF PanelInv, SocketsOK
  <2>4. QED
    BY <2>1, <2>2, <2>3
<1> DEFINE Replied(got) == [r EXCEPT !.got = got]
<1>4. ASSUME NEW got, Reply(r, got), RequestOK(Replied(got), N), ServerOK' PROVE PanelInv'
  <2>1. net' = Instead(r, Replied(got))
    BY <1>4 DEF Reply
  <2> HIDE DEF Replied
  <2>2. \A q \in BagToSet(Instead(r, Replied(got))) : RequestOK(q, N)
    BY <1>4, NetReplaces DEF PanelInv
  <2>3. QED
    BY <1>3, <1>4, <2>1, <2>2 DEF PanelInv, NetOK
<1>5. ASSUME NEW got PROVE IsRequest(Replied(got)) /\ Replied(got).got = got /\ Replied(got).op = r.op
  BY <1>2 DEF IsRequest
<1>6. ASSUME NEW got, r.op \notin {"list", "load", "create"} PROVE RequestOK(Replied(got), N)
  BY <1>5, <1>6 DEF RequestOK, IsAnswered
<1> HIDE DEF Replied
<1>7. ASSUME UNCHANGED server PROVE ServerOK'
  BY <1>3, <1>7 DEF PanelInv, ServerOK, server
<1>8. CASE AnswerList(r)
  <2>1. r.query \in Queries /\ r.op = "list"
    BY <1>2, <1>8 DEF AnswerList, IsRequest
  <2>2. IsList(Listing(r.query))
    BY ListingOK DEF PanelInv
  <2>3. RequestOK(Replied(Listed(Listing(r.query))), N)
    BY <1>5, <2>1, <2>2 DEF RequestOK, IsAnswered
  <2>4. QED
    BY <1>4, <1>7, <1>8, <2>3 DEF AnswerList
<1>9. CASE AnswerLoad(r)
  <2>1. r.op = "load" /\ r.id \in Sessions
    BY <1>2, <1>9 DEF AnswerLoad, IsRequest
  <2>2. Body(r.id) \in Bodies(N)
    BY <2>1 DEF Bodies, Body, PanelInv, ServerOK
  <2>3. RequestOK(Replied(Missing), N)
    BY <1>5, <2>1 DEF RequestOK, IsAnswered
  <2>4. RequestOK(Replied(Loaded(Body(r.id))), N)
    BY <1>5, <2>1, <2>2 DEF RequestOK, IsAnswered
  <2>5. CASE Exists(r.id)
    BY <1>4, <1>7, <1>9, <2>4, <2>5 DEF AnswerLoad
  <2>6. CASE ~Exists(r.id)
    BY <1>4, <1>7, <1>9, <2>3, <2>6 DEF AnswerLoad
  <2>7. QED
    BY <2>5, <2>6
<1>10. CASE AnswerCreate(r)
  <2>1. PICK id \in Sessions :
          /\ status' = [status EXCEPT ![id] = "listed"]
          /\ Reply(r, Created(id)) /\ r.op = "create" /\ UNCHANGED <<pinned, model, stored>>
    BY <1>10 DEF AnswerCreate
  <2>2. RequestOK(Replied(Created(id)), N)
    BY <1>5, <2>1 DEF RequestOK, IsAnswered
  <2>3. ServerOK'
    BY <1>3, <2>1 DEF PanelInv, ServerOK
  <2>4. QED
    BY <1>4, <2>1, <2>2, <2>3
<1>11. CASE AnswerPatch(r)
  <2>1. r.op \in {"pin", "model"} /\ UNCHANGED <<status, stored>>
    BY <1>11 DEF AnswerPatch
  <2>2. pinned' \in [Sessions -> BOOLEAN] /\ model' \in [Sessions -> Models \cup {None}]
    BY <1>2, <1>11 DEF AnswerPatch, IsRequest, PanelInv, ServerOK
  <2>3. ServerOK'
    BY <1>3, <2>1, <2>2 DEF PanelInv, ServerOK
  <2>4. Reply(r, Done) \/ Reply(r, Missing)
    BY <1>11 DEF AnswerPatch
  <2>5. RequestOK(Replied(Done), N) /\ RequestOK(Replied(Missing), N)
    BY <1>6, <2>1
  <2>6. QED
    BY <1>4, <2>3, <2>4, <2>5
<1>12. CASE AnswerDelete(r)
  <2>1. r.op \in {"archive", "delete"} /\ UNCHANGED <<pinned, model, stored>>
    BY <1>12 DEF AnswerDelete
  <2>2. status' \in [Sessions -> {"unborn", "listed", "archived", "deleted"}]
    BY <1>12 DEF AnswerDelete, PanelInv, ServerOK
  <2>3. ServerOK'
    BY <1>3, <2>1, <2>2 DEF PanelInv, ServerOK
  <2>4. Reply(r, Done) \/ Reply(r, Missing)
    BY <1>12 DEF AnswerDelete
  <2>5. RequestOK(Replied(Done), N) /\ RequestOK(Replied(Missing), N)
    BY <1>6, <2>1
  <2>6. QED
    BY <1>4, <2>3, <2>4, <2>5
<1>13. QED
  BY <1>1, <1>8, <1>9, <1>10, <1>11, <1>12

(* The page takes an answer, or a fetch fails.                             *)
LEMMA TakeInv == ASSUME PanelInv, TakeAnswer PROVE PanelInv'
<1>1. PICK r \in BagToSet(net) :
        /\ r.got # Pending
        /\ TakeList(r) \/ TakeLoad(r) \/ TakeCreated(r) \/ TakePatched(r) \/ TakeDeleted(r)
        /\ UNCHANGED <<streaming, streamingRef, searchOpen, searchQuery, sockets, server, left,
                       typed, residue>>
  BY DEF TakeAnswer
<1>2. IsRequest(r) /\ IsAnswered(r, N)
  BY <1>1 DEF PanelInv, NetOK, RequestOK
<1>3. N' = N /\ StreamOK' /\ SocketsOK' /\ ServerOK'
  <2>1. N' = N
    BY <1>1 DEF N
  <2>2. StreamOK' /\ SocketsOK'
    BY <1>1, <2>1 DEF PanelInv, StreamOK, SocketsOK
  <2>3. ServerOK'
    BY <1>1, <2>1 DEF PanelInv, ServerOK, server
  <2>4. QED
    BY <2>1, <2>2, <2>3
<1>4. \A q \in BagToSet(Instead(r, List(r.query))) : RequestOK(q, N)
  BY <1>2, ListOK, NetReplaces DEF IsRequest, PanelInv
<1>5. ASSUME ViewOK', NetOK', blurred' \in BOOLEAN, listBlurred' \in BOOLEAN PROVE PanelInv'
  BY <1>1, <1>3, <1>5, RestKept DEF PanelInv
<1>6. blurred \in BOOLEAN /\ listBlurred \in BOOLEAN
  BY DEF PanelInv, RestOK
<1>7. ASSUME NEW id \in Sessions \cup {None}, Select(id, Instead(r, List(r.query))),
             UNCHANGED <<sessions, blurred, listBlurred>>
      PROVE  PanelInv'
  <2>1. ViewOK' /\ NetOK'
    BY <1>1, <1>4, <1>7, Selects DEF PanelInv
  <2>2. QED
    BY <1>5, <1>6, <1>7, <2>1
<1>8. CASE TakeList(r)
  <2>1. IsList(sessions')
    <3>1. PICK list : r.got = Listed(list) /\ IsList(list)
      BY <1>2, <1>8 DEF TakeList, IsAnswered
    <3>2. sessions' = list
      BY <1>8, <3>1 DEF TakeList, Listed
    <3>3. QED
      BY <3>1, <3>2 DEF IsList
  <2>2. ViewOK'
    BY <1>1, <1>3, <1>8, <2>1 DEF TakeList, PanelInv, ViewOK
  <2>3. NetOK'
    BY <1>3, <1>8, NetDrops DEF TakeList, PanelInv, NetOK
  <2>4. listBlurred' \in BOOLEAN /\ blurred' = blurred
    BY <1>8 DEF TakeList
  <2>5. QED
    BY <1>5, <1>6, <2>2, <2>3, <2>4
<1>9. CASE TakeLoad(r)
  <2>1. ViewOK'
    <3>1. UNCHANGED <<sessions, activeId>>
      BY <1>9 DEF TakeLoad
    <3>2. (active' = active /\ page' = page) \/ Show(r.got.body)
      BY <1>9 DEF TakeLoad
    <3>3. r.got.body \in Bodies(N) \/ (active' = active /\ page' = page)
      <4>1. CASE r.got = Missing
        BY <1>9, <4>1 DEF TakeLoad
      <4>2. ASSUME NEW b \in Bodies(N), r.got = Loaded(b) PROVE r.got.body \in Bodies(N)
        BY <4>2 DEF Loaded
      <4>3. QED
        BY <1>2, <1>9, <4>1, <4>2 DEF IsAnswered, TakeLoad
    <3>4. active' = None \/ active' \in Bodies(N)
      BY <3>2, <3>3 DEF Show, PanelInv, ViewOK
    <3>5. page' \in {"up", "crashed"}
      BY <3>2 DEF Show, PanelInv, ViewOK
    <3>6. QED
      BY <1>1, <1>3, <3>1, <3>4, <3>5 DEF PanelInv, ViewOK
  <2>2. NetOK'
    BY <1>3, <1>9, NetDrops DEF TakeLoad, PanelInv, NetOK
  <2>3. blurred' \in BOOLEAN /\ listBlurred' = listBlurred
    BY <1>6, <1>9 DEF TakeLoad
  <2>4. QED
    BY <1>5, <1>6, <2>1, <2>2, <2>3
<1>10. CASE TakeCreated(r)
  <2>1. PICK id \in Sessions : r.got = Created(id)
    BY <1>2, <1>10 DEF TakeCreated, IsAnswered
  <2>2. r.got.id \in Sessions
    BY <2>1 DEF Created
  <2>3. QED
    BY <1>7, <1>10, <2>2 DEF TakeCreated
<1>11. CASE TakePatched(r)
  <2>1. UNCHANGED <<page, sessions, activeId, active, blurred, listBlurred>>
    BY <1>11 DEF TakePatched
  <2>2. ViewOK'
    BY <1>1, <1>3, <2>1 DEF PanelInv, ViewOK
  <2>3. NetOK'
    <3>1. CASE r.op = "model" /\ net' = Instead(r, Load(r.id))
      <4>1. RequestOK(Load(r.id), N)
        BY <1>2, <3>1, LoadOK DEF IsRequest
      <4>2. QED
        BY <1>3, <3>1, <4>1, NetReplaces DEF PanelInv, NetOK
    <3>2. CASE net' = Instead(r, List(r.query))
      BY <1>3, <1>4, <3>2 DEF NetOK
    <3>3. QED
      BY <1>11, <3>1, <3>2 DEF TakePatched
  <2>4. QED
    BY <1>5, <1>6, <2>1, <2>2, <2>3
<1>12. CASE TakeDeleted(r)
  <2>1. Select(IF r.arg THEN None ELSE activeId, Instead(r, List(r.query)))
    BY <1>12 DEF TakeDeleted
  <2>2. (IF r.arg THEN None ELSE activeId) \in Sessions \cup {None}
    BY DEF PanelInv, ViewOK
  <2>3. UNCHANGED <<sessions, blurred, listBlurred>>
    BY <1>12 DEF TakeDeleted
  <2>4. QED
    BY <1>7, <2>1, <2>2, <2>3
<1>13. QED
  BY <1>1, <1>8, <1>9, <1>10, <1>11, <1>12

LEMMA FailInv == ASSUME PanelInv, FetchFails PROVE PanelInv'
<1>1. PICK r \in BagToSet(net) :
        /\ Spend("fail")
        /\ net' = Without(r)
        /\ blurred' \in BOOLEAN /\ listBlurred' \in BOOLEAN
        /\ UNCHANGED <<view, sockets, server, typed, residue>>
  BY DEF FetchFails
<1>2. N' = N
  BY <1>1 DEF N
<1>3. NetOK'
  BY <1>1, <1>2, NetDrops DEF PanelInv, NetOK
<1>4. ViewOK' /\ StreamOK' /\ SocketsOK'
  <2>1. ViewOK' /\ StreamOK'
    BY <1>1, <1>2 DEF PanelInv, ViewOK, StreamOK, view
  <2>2. SocketsOK'
    BY <1>1, <1>2 DEF PanelInv, SocketsOK
  <2>3. QED
    BY <2>1, <2>2
<1>5. ServerOK'
  BY <1>1, <1>2 DEF PanelInv, ServerOK, server
<1>6. RestOK'
  <2>1. left' \in [Operations -> Nat]
    BY <1>1, SpendOK DEF PanelInv, Operations
  <2>2. blurred' \in BOOLEAN /\ listBlurred' \in BOOLEAN
    BY <1>1
  <2>3. QED
    BY <1>1, <2>1, <2>2 DEF PanelInv, RestOK
<1>7. QED
  BY <1>3, <1>4, <1>5, <1>6 DEF PanelInv

-----------------------------------------------------------------------------
(* The chat socket, on the page and at the server.                         *)
LEMMA SocketSteps ==
    ASSUME PanelInv, SocketOpens \/ SocketLost \/ CopyStreaming
    PROVE  PanelInv'
<1>1. UNCHANGED <<page, sessions, activeId, active, streaming, searchOpen, searchQuery, net,
                  server, typed, listBlurred>> /\ N' = N
  BY DEF SocketOpens, SocketLost, Abandon, CopyStreaming, view, history, shownHistory, listHistory, N
<1>2. ViewOK' /\ NetOK' /\ ServerOK'
  <2>1. ViewOK' /\ NetOK'
    BY <1>1 DEF PanelInv, ViewOK, NetOK
  <2>2. ServerOK'
    BY <1>1 DEF PanelInv, ServerOK, server
  <2>3. QED
    BY <2>1, <2>2
<1>3. CASE SocketOpens
  <2>1. Ws \in 1..Len(sockets) /\ sockets[Ws] \in SocketStates(N) /\ Ws = Len(sockets)
    BY LastSocket DEF PanelInv, Ws
  <2> DEFINE x == [sockets[Ws] EXCEPT !.state = "open"]
  <2>2. x \in SocketStates(N) /\ x.state = "open"
    BY <2>1 DEF SocketStates
  <2>3. sockets' = [sockets EXCEPT ![Ws] = x]
    BY <1>3, <2>1 DEF SocketOpens, PanelInv, SocketsOK
  <2> HIDE DEF x
  <2>4. ~(Ws < Len(sockets))
    BY <2>1
  <2>5. SocketsOK'
    BY <1>1, <2>1, <2>2, <2>3, <2>4, SocketSet DEF PanelInv
  <2>6. StreamOK' /\ RestOK'
    BY <1>1, <1>3 DEF SocketOpens, view, history, shownHistory, listHistory, PanelInv, StreamOK, RestOK
  <2>7. QED
    BY <1>2, <2>5, <2>6 DEF PanelInv
<1>4. CASE SocketLost
  <2> DEFINE x == [sockets[Ws] EXCEPT !.state = "closed", !.down = <<>>]
  <2>1. x \in SocketStates(N) /\ x.state = "closed" /\ x.down = <<>>
        /\ sockets' = [sockets EXCEPT ![Ws] = x]
    BY <1>4, ClosedSocket DEF SocketLost, PanelInv
  <2> HIDE DEF x
  <2>2. Ws \in 1..Len(sockets)
    BY LastSocket DEF PanelInv
  <2>3. SocketsOK'
    BY <1>1, <2>1, <2>2, SocketSet DEF PanelInv
  <2>4. StreamOK'
    BY <1>1, <1>4 DEF SocketLost, view, PanelInv, StreamOK
  <2>5. RestOK'
    <3>1. left' \in [Operations -> Nat]
      BY <1>4, SpendOK DEF SocketLost, PanelInv, Operations
    <3>2. blurred' \in BOOLEAN /\ residue' \in BOOLEAN
      BY <1>4, AbandonOK DEF SocketLost, PanelInv
    <3>3. QED
      BY <1>1, <3>1, <3>2 DEF PanelInv, RestOK
  <2>6. QED
    BY <1>2, <2>3, <2>4, <2>5 DEF PanelInv
<1>5. CASE CopyStreaming
  <2>1. UNCHANGED <<sockets, left, history>>
    BY <1>5 DEF CopyStreaming
  <2>2. StreamOK'
    BY <1>1, <1>5 DEF CopyStreaming, PanelInv, StreamOK
  <2>3. SocketsOK' /\ RestOK'
    BY <1>1, <2>1 DEF PanelInv, SocketsOK, RestOK, history, shownHistory, listHistory
  <2>4. QED
    BY <1>2, <2>2, <2>3 DEF PanelInv
<1>6. QED
  BY <1>3, <1>4, <1>5

LEMMA ShowMoreOK ==
    ASSUME ViewOK, NEW message \in MessagesTo(N), ShowMore(message),
           UNCHANGED <<page, sessions, activeId, searchOpen, searchQuery, typed>>
    PROVE  ViewOK'
<1>1. N' = N
  BY DEF N
<1>2. active' = None \/ active' \in Bodies(N)
  <2>1. CASE active = None
    BY <2>1 DEF ShowMore
  <2>2. CASE active # None
    <3>1. active' = [active EXCEPT !.messages = Append(@, message)]
      BY <2>2 DEF ShowMore
    <3>2. active \in Bodies(N)
      BY <2>2 DEF ViewOK
    <3>3. Append(active.messages, message) \in Seq(MessagesTo(N))
      BY <3>2 DEF Bodies
    <3>4. QED
      BY <3>1, <3>2, <3>3 DEF Bodies
  <2>3. QED
    BY <2>1, <2>2
<1>3. QED
  BY <1>1, <1>2 DEF ViewOK

LEMMA FrameInv == ASSUME PanelInv, TakeFrame PROVE PanelInv'
<1> DEFINE x == [sockets[Ws] EXCEPT !.down = Tail(sockets[Ws].down)]
<1>1. UNCHANGED <<page, sessions, activeId, streamingRef, searchOpen, searchQuery, server, left,
                  typed, listBlurred>> /\ N' = N
  BY DEF TakeFrame, N
<1>2. /\ Ws \in 1..Len(sockets) /\ sockets[Ws] \in SocketStates(N) /\ sockets[Ws].state = "open"
      /\ sockets[Ws].down # <<>> /\ sockets[Ws].down \in Seq(DownFrames(N))
  <2>1. Ws \in 1..Len(sockets) /\ sockets[Ws] \in SocketStates(N)
    BY LastSocket DEF PanelInv
  <2>2. QED
    BY <2>1 DEF TakeFrame, SocketStates
<1>3. Frame \in DownFrames(N) /\ Tail(sockets[Ws].down) \in Seq(DownFrames(N))
  BY <1>2 DEF Frame
<1>4. /\ Frame.session \in Sessions /\ Frame.turn \in 1..N
      /\ Frame.type = "chat.delta" => Frame.part \in 1..Parts
  BY <1>3 DEF DownFrames
<1>5. SocketsOK'
  <2>1. sockets' = [sockets EXCEPT ![Ws] = x]
    BY <1>2 DEF TakeFrame, PanelInv, SocketsOK
  <2>2. x \in SocketStates(N) /\ x.state = "open"
    BY <1>2, <1>3 DEF SocketStates
  <2> HIDE DEF x
  <2>3. ~(Ws < Len(sockets))
    BY DEF PanelInv, SocketsOK, Ws
  <2>4. QED
    BY <1>1, <1>2, <2>1, <2>2, <2>3, SocketSet DEF PanelInv
<1>6. ServerOK'
  BY <1>1 DEF PanelInv, ServerOK, server
<1>7. blurred' \in BOOLEAN /\ residue' \in BOOLEAN
  <2>1. blurred \in BOOLEAN /\ residue \in BOOLEAN
    BY DEF PanelInv, RestOK
  <2>2. CASE TakeDelta
    BY <2>1, <2>2 DEF TakeDelta
  <2>3. CASE TakeToolCall
    BY <2>1, <2>3 DEF TakeToolCall
  <2>4. CASE TakeDone
    BY <2>1, <2>4 DEF TakeDone
  <2>5. CASE TakeError
    BY <2>1, <2>5 DEF TakeError
  <2>6. QED
    BY <2>2, <2>3, <2>4, <2>5 DEF TakeFrame
<1>8. RestOK'
  BY <1>1, <1>7 DEF PanelInv, RestOK
<1>9. ASSUME ViewOK', StreamOK', NetOK' PROVE PanelInv'
  BY <1>5, <1>6, <1>8, <1>9 DEF PanelInv
<1>10. ASSUME UNCHANGED active PROVE ViewOK'
  BY <1>1, <1>10 DEF PanelInv, ViewOK
<1>11. ASSUME UNCHANGED net PROVE NetOK'
  BY <1>1, <1>11 DEF PanelInv, NetOK
<1>12. <<>> \in Seq(Deltas(N)) /\ streaming \in Seq(Deltas(N)) /\ streamingRef \in Seq(Deltas(N))
  BY DEF PanelInv, StreamOK
<1>13. CASE TakeDelta
  <2>1. <<Frame.turn, Frame.part>> \in Deltas(N)
    BY <1>4, <1>13 DEF TakeDelta, Deltas
  <2>2. StreamOK'
    BY <1>1, <1>12, <1>13, <2>1 DEF TakeDelta, StreamOK
  <2>3. QED
    BY <1>9, <1>10, <1>11, <1>13, <2>2 DEF TakeDelta
<1>14. CASE TakeError
  <2>1. StreamOK'
    BY <1>1, <1>12, <1>14 DEF TakeError, StreamOK
  <2>2. QED
    BY <1>9, <1>10, <1>11, <1>14, <2>1 DEF TakeError
<1>15. CASE TakeToolCall
  <2>1. ToolMessage(Frame.turn) \in MessagesTo(N)
    BY <1>4, <1>12 DEF ToolMessage, MessagesTo
  <2>2. ViewOK'
    BY <1>1, <1>15, <2>1, ShowMoreOK DEF TakeToolCall, PanelInv
  <2>3. StreamOK'
    BY <1>1, <1>12, <1>15 DEF TakeToolCall, StreamOK
  <2>4. QED
    BY <1>9, <1>11, <1>15, <2>2, <2>3 DEF TakeToolCall
<1>16. CASE TakeDone
  <2>1. Answer(Frame.turn, streamingRef) \in MessagesTo(N)
    BY <1>4, <1>12 DEF Answer, MessagesTo
  <2>2. ViewOK'
    BY <1>1, <1>16, <2>1, ShowMoreOK DEF TakeDone, PanelInv
  <2>3. StreamOK'
    BY <1>1, <1>12, <1>16 DEF TakeDone, StreamOK
  <2>4. \A q \in BagToSet(net (+) SetToBag({List(searchQuery)})) : RequestOK(q, N)
    BY ListOK, NetAdds DEF PanelInv, ViewOK, NetOK
  <2>5. NetOK'
    BY <1>1, <1>4, <1>16, <2>4, LoadOK, NetAdds DEF TakeDone, NetOK
  <2>6. QED
    BY <1>9, <2>2, <2>3, <2>5
<1>17. QED
  BY <1>13, <1>14, <1>15, <1>16 DEF TakeFrame

LEMMA StoredMore ==
    ASSUME ServerOK, NEW id \in Sessions, NEW message \in MessagesTo(N),
           stored' = [stored EXCEPT ![id] = Append(@, message)]
    PROVE  stored' \in [Sessions -> Seq(MessagesTo(N))]
<1>1. stored[id] \in Seq(MessagesTo(N)) /\ stored \in [Sessions -> Seq(MessagesTo(N))]
  BY DEF ServerOK
<1>2. Append(stored[id], message) \in Seq(MessagesTo(N))
  BY <1>1
<1>3. QED
  BY <1>1, <1>2

(* A handler changes its own socket and what the server stored.            *)
LEMMA HandlerInv ==
    ASSUME PanelInv, NEW k \in 1..Ws, Handler(k)
    PROVE  PanelInv'
<1> DEFINE s == sockets[k]
           t == s.serving
<1>1. UNCHANGED <<view, net, status, pinned, model, typed, listBlurred, residue>> /\ N' = N
  BY DEF Handler, N
<1>2. /\ k \in 1..Len(sockets) /\ s \in SocketStates(N)
      /\ k < Len(sockets) => s.state = "closed"
      /\ s.state # "open" => s.down = <<>>
  BY DEF PanelInv, SocketsOK, Ws
<1>3. /\ s.up \in Seq(UpFrames(N)) /\ s.down \in Seq(DownFrames(N))
      /\ t = Idle \/ t \in [session : Sessions, turn : 1..N, sent : 0..Parts]
      /\ t \in Servings(N) /\ Idle \in Servings(N)
  BY <1>2 DEF SocketStates, Servings
<1>4. ViewOK' /\ StreamOK' /\ NetOK'
  <2>1. ViewOK' /\ StreamOK'
    BY <1>1 DEF PanelInv, ViewOK, StreamOK, view
  <2>2. NetOK'
    BY <1>1 DEF PanelInv, NetOK
  <2>3. QED
    BY <2>1, <2>2
<1>5. RestOK'
  <2>1. left' \in [Operations -> Nat]
    <3>1. CASE HandlerCallsTool(k)
      BY <3>1, SpendOK DEF HandlerCallsTool, PanelInv, Operations
    <3>2. CASE UNCHANGED left
      BY <3>2 DEF PanelInv, RestOK
    <3>3. QED
      BY <3>1, <3>2 DEF Handler, HandlerTakes, HandlerStreams, HandlerFinishes, HandlerFails,
                        HandlerEnds
  <2>2. blurred' \in BOOLEAN
    <3>1. CASE UNCHANGED blurred
      BY <3>1 DEF PanelInv, RestOK
    <3>2. CASE HandlerFinishes(k)
      BY <3>2 DEF HandlerFinishes
    <3>3. QED
      BY <3>1, <3>2 DEF Handler, HandlerTakes, HandlerStreams, HandlerCallsTool, HandlerFails,
                        HandlerEnds
  <2>3. QED
    BY <1>1, <2>1, <2>2 DEF PanelInv, RestOK
<1>6. ASSUME SocketsOK', stored' \in [Sessions -> Seq(MessagesTo(N))] PROVE PanelInv'
  <2>1. ServerOK'
    BY <1>1, <1>6 DEF PanelInv, ServerOK
  <2>2. QED
    BY <1>4, <1>5, <1>6, <2>1 DEF PanelInv
<1>7. stored \in [Sessions -> Seq(MessagesTo(N))]
  BY DEF PanelInv, ServerOK
<1>8. ASSUME NEW frame \in DownFrames(N)
      PROVE  Heard(k, frame) \in Seq(DownFrames(N)) /\ (s.state # "open" => Heard(k, frame) = <<>>)
  BY <1>2, <1>3, <1>8 DEF Heard
<1>9. ASSUME NEW x \in SocketStates(N), sockets' = [sockets EXCEPT ![k] = x],
             x.state = s.state, x.state # "open" => x.down = <<>>
      PROVE  SocketsOK'
  BY <1>1, <1>2, <1>9, SocketSet DEF PanelInv
<1>10. ASSUME NEW frame \in DownFrames(N), NEW serving \in Servings(N), Served(k, frame, serving)
       PROVE  SocketsOK'
  <2> DEFINE x == [s EXCEPT !.down = Heard(k, frame), !.serving = serving]
  <2>1. x \in SocketStates(N) /\ x.state = s.state /\ x.down = Heard(k, frame)
    BY <1>2, <1>8, <1>10 DEF SocketStates
  <2>2. sockets' = [sockets EXCEPT ![k] = x]
    BY <1>2, <1>10 DEF Served, PanelInv, SocketsOK
  <2> HIDE DEF x
  <2>3. QED
    BY <1>8, <1>9, <2>1, <2>2
<1>11. ASSUME t # Idle, NEW type \in FrameTypes, type = "chat.delta" => t.sent < Parts
       PROVE  FrameOf(k, type) \in DownFrames(N)
  <2>1. t \in [session : Sessions, turn : 1..N, sent : 0..Parts]
    BY <1>3, <1>11
  <2>2. t.sent + 1 \in Nat /\ (t.sent < Parts => t.sent + 1 \in 1..Parts)
    BY <2>1, SomeParts
  <2>3. QED
    BY <1>11, <2>1, <2>2 DEF FrameOf, DownFrames
<1>12. CASE HandlerTakes(k)
  <2> DEFINE f == Head(s.up)
             refusal == [type |-> "chat.error", session |-> f.session, turn |-> f.turn, part |-> 0]
             serving == [session |-> f.session, turn |-> f.turn, sent |-> 0]
             taken == [s EXCEPT !.up = Tail(s.up), !.serving = serving]
             refused == [s EXCEPT !.up = Tail(s.up), !.down = Heard(k, refusal)]
  <2>1. s.up # <<>>
    BY <1>12 DEF HandlerTakes
  <2>2. f \in UpFrames(N) /\ Tail(s.up) \in Seq(UpFrames(N))
    BY <1>3, <2>1
  <2>3. f.session \in Sessions /\ f.turn \in 1..N
    BY <2>2 DEF UpFrames
  <2>4. refusal \in DownFrames(N)
    BY <2>3 DEF DownFrames, FrameTypes
  <2>5. serving \in Servings(N) /\ UserMessage(f.turn) \in MessagesTo(N)
    <3>1. 0 \in 0..Parts /\ <<>> \in Seq(Deltas(N))
      BY SomeParts
    <3>2. QED
      BY <2>3, <3>1 DEF Servings, UserMessage, MessagesTo
  <2>6. CASE Exists(f.session)
    <3>1. /\ stored' = [stored EXCEPT ![f.session] = Append(@, UserMessage(f.turn))]
          /\ sockets' = [sockets EXCEPT ![k] = taken]
      BY <1>2, <1>12, <2>6 DEF HandlerTakes, PanelInv, SocketsOK
    <3> HIDE DEF f, serving
    <3>2. taken \in SocketStates(N) /\ taken.state = s.state /\ taken.down = s.down
      BY <1>2, <2>2, <2>5 DEF SocketStates
    <3> HIDE DEF taken
    <3>3. SocketsOK'
      BY <1>2, <1>9, <3>1, <3>2
    <3>4. stored' \in [Sessions -> Seq(MessagesTo(N))]
      BY <2>3, <2>5, <3>1, StoredMore DEF PanelInv
    <3>5. QED
      BY <1>6, <3>3, <3>4
  <2>7. CASE ~Exists(f.session)
    <3>1. stored' = stored /\ sockets' = [sockets EXCEPT ![k] = refused]
      BY <1>2, <1>12, <2>7 DEF HandlerTakes, PanelInv, SocketsOK
    <3> HIDE DEF f, refusal
    <3>2. refused \in SocketStates(N) /\ refused.state = s.state
          /\ refused.down = Heard(k, refusal)
      BY <1>2, <1>8, <2>2, <2>4 DEF SocketStates
    <3> HIDE DEF refused
    <3>3. SocketsOK'
      BY <1>8, <1>9, <2>4, <3>1, <3>2
    <3>4. QED
      BY <1>6, <1>7, <3>1, <3>3
  <2>8. QED
    BY <2>6, <2>7
<1>13. CASE HandlerStreams(k)
  <2>1. t # Idle /\ t.sent < Parts /\ stored' = stored
    BY <1>13 DEF HandlerStreams
  <2>2. FrameOf(k, "chat.delta") \in DownFrames(N)
    BY <1>11, <2>1 DEF FrameTypes
  <2>3. [t EXCEPT !.sent = @ + 1] \in Servings(N)
    <3>1. t \in [session : Sessions, turn : 1..N, sent : 0..Parts]
      BY <1>3, <2>1 DEF Servings
    <3>2. t.sent + 1 \in 0..Parts
      BY <2>1, <3>1, SomeParts
    <3> HIDE DEF t
    <3>3. [t EXCEPT !.sent = @ + 1] \in [session : Sessions, turn : 1..N, sent : 0..Parts]
      BY <3>1, <3>2
    <3>4. QED
      BY <3>3 DEF Servings
  <2>4. SocketsOK'
    BY <1>10, <1>13, <2>2, <2>3 DEF HandlerStreams
  <2>5. QED
    BY <1>6, <1>7, <2>1, <2>4
<1>14. CASE HandlerCallsTool(k)
  <2>1. t # Idle /\ stored' = stored
    BY <1>14 DEF HandlerCallsTool
  <2>2. FrameOf(k, "chat.tool_call") \in DownFrames(N)
    BY <1>11, <2>1 DEF FrameTypes
  <2>3. SocketsOK'
    BY <1>3, <1>10, <1>14, <2>2 DEF HandlerCallsTool
  <2>4. QED
    BY <1>6, <1>7, <2>1, <2>3
<1>15. CASE HandlerFinishes(k)
  <2>1. t # Idle /\ t \in [session : Sessions, turn : 1..N, sent : 0..Parts]
    BY <1>3, <1>15 DEF HandlerFinishes
  <2>2. FrameOf(k, "chat.done") \in DownFrames(N)
    BY <1>11, <2>1 DEF FrameTypes
  <2>3. SocketsOK'
    BY <1>3, <1>10, <1>15, <2>2 DEF HandlerFinishes
  <2>4. Text(t.turn, t.sent) \in Seq(Deltas(N))
    <3>1. t.turn \in 1..N /\ t.sent \in 0..Parts
      BY <2>1
    <3>2. t.sent \in Nat /\ \A i \in 1..t.sent : i \in 1..Parts
      BY <3>1, SomeParts
    <3>3. \A i \in 1..t.sent : <<t.turn, i>> \in Deltas(N)
      BY <3>1, <3>2 DEF Deltas
    <3>4. QED
      BY <3>2, <3>3 DEF Text
  <2>5. Answer(t.turn, Text(t.turn, t.sent)) \in MessagesTo(N)
    BY <2>1, <2>4 DEF Answer, MessagesTo
  <2>6. stored' \in [Sessions -> Seq(MessagesTo(N))]
    <3>1. \/ stored' = stored
          \/ stored' = [stored EXCEPT ![t.session] = Append(@, Answer(t.turn, Text(t.turn, t.sent)))]
      BY <1>15 DEF HandlerFinishes
    <3>2. t.session \in Sessions
      BY <2>1
    <3>3. QED
      BY <1>7, <2>5, <3>1, <3>2, StoredMore DEF PanelInv
  <2>7. QED
    BY <1>6, <2>3, <2>6
<1>16. CASE HandlerFails(k)
  <2>1. t # Idle /\ stored' = stored
    BY <1>16 DEF HandlerFails
  <2>2. FrameOf(k, "chat.error") \in DownFrames(N)
    BY <1>11, <2>1 DEF FrameTypes
  <2>3. SocketsOK'
    BY <1>3, <1>10, <1>16, <2>2 DEF HandlerFails
  <2>4. QED
    BY <1>6, <1>7, <2>1, <2>3
<1>17. CASE HandlerEnds(k)
  <2> DEFINE x == [s EXCEPT !.up = <<>>, !.serving = Idle]
  <2>1. <<>> \in Seq(UpFrames(N))
    OBVIOUS
  <2>2. x \in SocketStates(N) /\ x.state = s.state /\ x.down = s.down
    BY <1>2, <1>3, <2>1 DEF SocketStates
  <2>3. sockets' = [sockets EXCEPT ![k] = x] /\ stored' = stored
    BY <1>2, <1>17 DEF HandlerEnds, PanelInv, SocketsOK
  <2> HIDE DEF x
  <2>4. SocketsOK'
    BY <1>2, <1>9, <2>2, <2>3
  <2>5. QED
    BY <1>6, <1>7, <2>3, <2>4
<1>18. QED
  BY <1>12, <1>13, <1>14, <1>15, <1>16, <1>17 DEF Handler

LEMMA ChatInv == ASSUME PanelInv, ChatNext PROVE PanelInv'
  BY UserInv, ServerInv, TakeInv, FailInv, SocketSteps, FrameInv, HandlerInv DEF ChatNext

(* What was asked for and given keeps its types.                           *)
LEMMA GivenKept ==
    ASSUME GivenOK, UNCHANGED <<asked, askedText, givenBody, givenList, unseen, unlisted>>
    PROVE  GivenOK'
  BY DEF GivenOK

LEMMA GivenInitInv == ASSUME ChatInit, PanelInv PROVE GivenOK
<1>1. \A query \in Queries : IsList(Listing(query))
  BY ListingOK DEF PanelInv
<1>2. "" \in Queries
  BY ChatPanelAssumption
<1>3. \A id \in Sessions : Body(id).id = id
  BY DEF Body
<1>4. QED
  BY <1>1, <1>2, <1>3 DEF ChatInit, GivenOK

LEMMA GivenSelects ==
    ASSUME GivenOK, NEW id \in Sessions \cup {None}, NEW others, Select(id, others),
           askedText' \in Queries, UNCHANGED <<givenBody, givenList, unseen, unlisted>>
    PROVE  GivenOK'
<1>1. asked' = asked \/ asked' = id
  BY DEF Select
<1>2. QED
  BY <1>1 DEF GivenOK

(* The sessions of the frames that a socket which is closed still has.     *)
LEMMA UntoldOK == ASSUME PanelInv PROVE Untold \subseteq Sessions
<1>1. sockets[Ws].down \in Seq(DownFrames(N))
  BY LastSocket DEF PanelInv, SocketStates
<1>2. \A i \in 1..Len(sockets[Ws].down) : sockets[Ws].down[i].session \in Sessions
  BY <1>1 DEF DownFrames
<1>3. QED
  BY <1>2 DEF Untold

LEMMA GivenAbandon ==
    ASSUME PanelInv, GivenOK, Abandon, askedText' \in Queries
    PROVE  GivenOK'
  BY UntoldOK DEF Abandon, GivenOK

LEMMA GivenUser == ASSUME PanelInv, GivenOK, UserActs PROVE GivenOK'
<1>1. ASSUME NEW op, NEW id, NEW arg, Ask(op, id, arg) PROVE GivenOK'
  BY <1>1, GivenKept DEF Ask, history, shownHistory, listHistory
<1>2. ASSUME NEW id \in Sessions, SelectSession(id) PROVE GivenOK'
  <2>1. Select(id, net) /\ UNCHANGED <<askedText, givenBody, givenList, unseen, unlisted>>
    BY <1>2 DEF SelectSession, listHistory
  <2>2. QED
    BY <2>1, GivenSelects DEF GivenOK
<1>3. CASE Send
  <2>1. activeId \in Sessions
    BY <1>3 DEF Send, InputEnabled, PanelInv, ViewOK
  <2>2. unseen' \subseteq unseen \cup {activeId}
    BY <1>3 DEF Send
  <2>3. UNCHANGED <<asked, askedText, givenBody, givenList, unlisted>>
    BY <1>3 DEF Send, listHistory
  <2>4. QED
    BY <2>1, <2>2, <2>3 DEF GivenOK
<1>4. CASE ToggleSearch
  BY <1>4, GivenKept DEF ToggleSearch, history, shownHistory, listHistory
<1>5. ASSUME NEW q \in Queries, Type(q) PROVE GivenOK'
  BY <1>5, GivenAbandon DEF Type
<1>6. QED
  BY <1>1, <1>2, <1>3, <1>4, <1>5
  DEF UserActs, PinSession, ArchiveSession, DeleteSession, SetSessionModel, NewSession

LEMMA GivenServer == ASSUME PanelInv, GivenOK, ServerAnswers PROVE GivenOK'
<1>1. PICK r \in BagToSet(net) :
        /\ AnswerList(r) \/ AnswerLoad(r) \/ AnswerCreate(r) \/ AnswerPatch(r) \/ AnswerDelete(r)
        /\ UNCHANGED <<asked, askedText>>
  BY DEF ServerAnswers
<1>2. IsRequest(r)
  BY DEF PanelInv, NetOK, RequestOK
<1>3. CASE AnswerList(r)
  <2>1. IsList(Listing(r.query)) /\ r.query \in Queries
    BY <1>2, ListingOK DEF PanelInv, IsRequest
  <2>2. /\ givenList' = [givenList EXCEPT ![r.query] = Listing(r.query)]
        /\ unlisted' \subseteq unlisted
    BY <1>3 DEF AnswerList
  <2>3. UNCHANGED <<givenBody, unseen>>
    BY <1>3 DEF AnswerList
  <2>4. QED
    BY <1>1, <2>1, <2>2, <2>3 DEF GivenOK
<1>4. CASE AnswerLoad(r)
  <2>1. r.id \in Sessions /\ Body(r.id).id = r.id
    BY <1>2, <1>4 DEF AnswerLoad, IsRequest, Body
  <2>2. /\ givenBody' = givenBody \/ givenBody' = [givenBody EXCEPT ![r.id] = Body(r.id)]
        /\ unseen' \subseteq unseen \cup {r.id} /\ UNCHANGED <<givenList, unlisted>>
    BY <1>4 DEF AnswerLoad
  <2>3. QED
    BY <1>1, <2>1, <2>2 DEF GivenOK
<1>5. CASE AnswerPatch(r)
  <2>1. r.op = "model" => r.id \in Sessions
    BY <1>2 DEF IsRequest
  <2>2. unlisted' = unlisted \/ (r.op = "model" /\ unlisted' = unlisted \cup {r.id})
    BY <1>5 DEF AnswerPatch
  <2>3. UNCHANGED <<givenBody, givenList, unseen>>
    BY <1>5 DEF AnswerPatch
  <2>4. QED
    BY <1>1, <2>1, <2>2, <2>3 DEF GivenOK
<1>6. CASE AnswerCreate(r) \/ AnswerDelete(r)
  BY <1>1, <1>6, GivenKept DEF AnswerCreate, AnswerDelete
<1>7. QED
  BY <1>1, <1>3, <1>4, <1>5, <1>6

LEMMA GivenTake == ASSUME PanelInv, GivenOK, TakeAnswer \/ FetchFails PROVE GivenOK'
<1>1. CASE TakeAnswer
  <2>1. PICK r \in BagToSet(net) :
          /\ r.got # Pending
          /\ TakeList(r) \/ TakeLoad(r) \/ TakeCreated(r) \/ TakePatched(r) \/ TakeDeleted(r)
          /\ UNCHANGED <<givenBody, givenList, unseen, unlisted>>
    BY <1>1 DEF TakeAnswer
  <2>2. IsRequest(r) /\ IsAnswered(r, N)
    BY <2>1 DEF PanelInv, NetOK, RequestOK
  <2>3. r.query \in Queries /\ (r.op = "model" => r.id \in Sessions)
    BY <2>2 DEF IsRequest
  <2>4. CASE TakeList(r) \/ TakeLoad(r)
    BY <2>1, <2>4, GivenKept DEF TakeList, TakeLoad
  <2>5. CASE TakeCreated(r)
    <3>1. PICK id \in Sessions : r.got = Created(id)
      BY <2>2, <2>5 DEF TakeCreated, IsAnswered
    <3>2. r.got.id \in Sessions
      BY <3>1 DEF Created
    <3>3. QED
      BY <2>1, <2>3, <2>5, <3>2, GivenSelects DEF TakeCreated
  <2>6. CASE TakePatched(r)
    <3>1. asked' \in {asked, r.id} /\ (asked' = asked \/ r.op = "model")
          /\ askedText' \in {askedText, r.query}
      BY <2>6 DEF TakePatched
    <3>2. QED
      BY <2>1, <2>3, <3>1 DEF GivenOK
  <2>7. CASE TakeDeleted(r)
    <3>1. (IF r.arg THEN None ELSE activeId) \in Sessions \cup {None}
      BY DEF PanelInv, ViewOK
    <3>2. QED
      BY <2>1, <2>3, <2>7, <3>1, GivenSelects DEF TakeDeleted
  <2>8. QED
    BY <2>1, <2>4, <2>5, <2>6, <2>7
<1>2. CASE FetchFails
  <2>1. PICK r \in BagToSet(net) :
          /\ unseen' = IF r.op \in {"load", "model"} THEN unseen \cup {r.id} ELSE unseen
          /\ unlisted' = unlisted \cup Unlists(r)
          /\ UNCHANGED <<asked, askedText, givenBody, givenList>>
    BY <1>2 DEF FetchFails
  <2>2. r.op \in {"load", "model"} => r.id \in Sessions
    BY DEF PanelInv, NetOK, RequestOK, IsRequest
  <2>3. Unlists(r) \subseteq Sessions
    BY DEF Unlists
  <2>4. QED
    BY <2>1, <2>2, <2>3 DEF GivenOK
<1>3. QED
  BY <1>1, <1>2

LEMMA GivenSockets ==
    ASSUME PanelInv, GivenOK, SocketOpens \/ SocketLost \/ TakeFrame \/ CopyStreaming
    PROVE  GivenOK'
<1>1. CASE SocketOpens \/ CopyStreaming
  BY <1>1, GivenKept DEF SocketOpens, CopyStreaming, history, shownHistory, listHistory
<1>2. CASE SocketLost
  BY <1>2, GivenAbandon DEF SocketLost, GivenOK
<1>3. CASE TakeFrame
  <2>1. UNCHANGED <<givenBody, givenList, unseen, unlisted>>
    BY <1>3 DEF TakeFrame
  <2>2. Frame \in DownFrames(N)
    <3>1. sockets[Ws].down \in Seq(DownFrames(N)) /\ sockets[Ws].down # <<>>
      BY <1>3, LastSocket DEF TakeFrame, PanelInv, SocketStates
    <3>2. QED
      BY <3>1 DEF Frame
  <2>3. asked' \in {asked, Frame.session} /\ askedText' \in {askedText, searchQuery}
    BY <1>3 DEF TakeFrame, TakeDelta, TakeToolCall, TakeDone, TakeError
  <2>4. QED
    BY <2>1, <2>2, <2>3 DEF GivenOK, DownFrames, PanelInv, ViewOK
<1>4. QED
  BY <1>1, <1>2, <1>3

LEMMA GivenHandler ==
    ASSUME PanelInv, GivenOK, NEW k \in 1..Ws, Handler(k)
    PROVE  GivenOK'
<1>1. UNCHANGED <<asked, askedText, givenBody, givenList>>
  BY DEF Handler
<1>2. sockets[k].serving # Idle => sockets[k].serving.session \in Sessions
  <2>1. sockets[k] \in SocketStates(N)
    BY DEF PanelInv, SocketsOK, Ws
  <2>2. sockets[k].serving \in Servings(N)
    BY <2>1 DEF SocketStates
  <2>3. QED
    BY <2>2 DEF Servings
<1>3. unseen' \subseteq Sessions /\ unlisted' \subseteq Sessions
  <2>1. CASE UNCHANGED <<unseen, unlisted>>
    BY <2>1 DEF GivenOK
  <2>2. CASE HandlerFinishes(k)
    BY <1>2, <2>2 DEF HandlerFinishes, GivenOK
  <2>3. CASE HandlerFails(k)
    BY <1>2, <2>3 DEF HandlerFails, GivenOK
  <2>4. CASE HandlerEnds(k)
    BY <1>2, <2>4 DEF HandlerEnds, GivenOK, Idle
  <2>5. QED
    BY <2>1, <2>2, <2>3, <2>4 DEF Handler, HandlerTakes, HandlerStreams, HandlerCallsTool
<1>4. QED
  BY <1>1, <1>3 DEF GivenOK

LEMMA GivenInv == ASSUME PanelInv, GivenOK, ChatNext PROVE GivenOK'
  BY GivenUser, GivenServer, GivenTake, GivenSockets, GivenHandler DEF ChatNext

LEMMA PanelKept ==
    ASSUME PanelInv, UNCHANGED spent, left' \in [Operations -> Nat]
    PROVE  PanelInv'
<1>1. N' = N /\ UNCHANGED <<view, net, sockets, server, history>>
  BY DEF spent, history, N
<1>2. ViewOK' /\ StreamOK' /\ NetOK'
  BY <1>1 DEF view, PanelInv, ViewOK, StreamOK, NetOK
<1>3. SocketsOK' /\ ServerOK' /\ RestOK'
  BY <1>1 DEF server, history, shownHistory, listHistory, PanelInv, SocketsOK, ServerOK, RestOK
<1>4. QED
  BY <1>2, <1>3 DEF PanelInv

-----------------------------------------------------------------------------
(* Where a message is: in the queue of one socket, at one place, for the   *)
(* session it was typed for; or stored, at one place, in that session; or  *)
(* nowhere any more.  Never twice.                                         *)
Up(k) == sockets[k].up

SentRight ==
    \A k \in 1..Ws : \A i \in 1..Len(Up(k)) : typed[Up(k)[i].turn] = Up(k)[i].session
SentOnce ==
    \A k, l \in 1..Ws : \A i \in 1..Len(Up(k)), j \in 1..Len(Up(l)) :
        Up(k)[i].turn = Up(l)[j].turn => k = l /\ i = j
FiledRight ==
    \A id \in Sessions : \A i \in 1..Len(stored[id]) :
        stored[id][i].role = "user" =>
            /\ typed[stored[id][i].turn] = id
            /\ \A k \in 1..Ws : \A j \in 1..Len(Up(k)) : Up(k)[j].turn # stored[id][i].turn
FiledOnce ==
    \A id \in Sessions : \A i, j \in 1..Len(stored[id]) :
        /\ stored[id][i].role = "user" /\ stored[id][j].role = "user"
        /\ stored[id][i].turn = stored[id][j].turn
        => i = j

FiledInv == SentRight /\ SentOnce /\ FiledRight /\ FiledOnce

LEMMA FiledSuffices == FiledInv => FiledWhereTyped
  BY DEF FiledInv, FiledRight, FiledOnce, FiledWhereTyped

LEMMA FiledInit == ChatInit => FiledInv
<1> SUFFICES ASSUME ChatInit PROVE FiledInv
  OBVIOUS
<1>1. \A id \in Sessions : stored[id] = <<>>
  BY DEF ChatInit
<1>2. ASSUME NEW k \in 1..Ws PROVE Up(k) = <<>>
  <2>1. sockets = <<NewSocket>>
    BY DEF ChatInit
  <2>2. k = 1 /\ sockets[1] = NewSocket
    BY <1>2, <2>1 DEF Ws
  <2>3. QED
    BY <2>2 DEF Up, NewSocket
<1>3. SentRight /\ SentOnce
  BY <1>2 DEF SentRight, SentOnce
<1>4. FiledRight /\ FiledOnce
  BY <1>1 DEF FiledRight, FiledOnce
<1>5. QED
  BY <1>3, <1>4 DEF FiledInv

(* The queues, and what is in them.                                        *)
LEMMA UpType ==
    ASSUME PanelInv, NEW k \in 1..Ws
    PROVE  /\ Up(k) \in Seq(UpFrames(N)) /\ Len(Up(k)) \in Nat /\ Ws \in Nat /\ N \in Nat
           /\ \A i \in 1..Len(Up(k)) : Up(k)[i].turn \in 1..N /\ Up(k)[i].session \in Sessions
<1>1. sockets[k] \in SocketStates(N) /\ Ws \in Nat /\ N \in Nat
  BY DEF PanelInv, SocketsOK, RestOK, Ws, N
<1>2. Up(k) \in Seq(UpFrames(N))
  BY <1>1 DEF SocketStates, Up
<1>3. \A i \in 1..Len(Up(k)) : Up(k)[i] \in UpFrames(N)
  BY <1>2
<1>4. QED
  BY <1>1, <1>2, <1>3 DEF UpFrames

LEMMA StoredType ==
    ASSUME PanelInv, NEW id \in Sessions
    PROVE  /\ stored[id] \in Seq(MessagesTo(N)) /\ Len(stored[id]) \in Nat
           /\ \A i \in 1..Len(stored[id]) : stored[id][i].turn \in 1..N
<1>1. stored[id] \in Seq(MessagesTo(N))
  BY DEF PanelInv, ServerOK
<1>2. \A i \in 1..Len(stored[id]) : stored[id][i] \in MessagesTo(N)
  BY <1>1
<1>3. QED
  BY <1>1, <1>2 DEF MessagesTo

(* A step that puts nothing in a queue and files nothing.                  *)
KeepsUps ==
    \A k \in 1..Ws' : Up(k)' = <<>> \/ (k \in 1..Ws /\ Up(k)' = Up(k))

LEMMA UpsKept ==
    ASSUME FiledInv, KeepsUps, UNCHANGED <<typed, stored>>
    PROVE  FiledInv'
<1>1. ASSUME NEW k \in 1..Ws', NEW i \in 1..Len(Up(k)')
      PROVE  k \in 1..Ws /\ i \in 1..Len(Up(k)) /\ Up(k)'[i] = Up(k)[i]
  <2>1. Up(k)' # <<>>
    BY <1>1
  <2>2. QED
    BY <1>1, <2>1 DEF KeepsUps
<1>2. SentRight'
  BY <1>1 DEF FiledInv, SentRight
<1>3. SentOnce'
  BY <1>1 DEF FiledInv, SentOnce
<1>4. FiledRight'
  BY <1>1 DEF FiledInv, FiledRight
<1>5. FiledOnce'
  BY DEF FiledInv, FiledOnce
<1>6. QED
  BY <1>2, <1>3, <1>4, <1>5 DEF FiledInv

(* One socket changes, and not its queue.                                  *)
LEMMA UpKept ==
    ASSUME SocketsOK, NEW k \in 1..Ws, NEW x, sockets' = [sockets EXCEPT ![k] = x],
           x.up = sockets[k].up \/ x.up = <<>>
    PROVE  KeepsUps
<1>1. Ws' = Ws /\ Ws = Len(sockets) /\ Ws \in Nat
  BY DEF SocketsOK, Ws
<1>2. \A j \in 1..Ws : sockets'[j] = IF j = k THEN x ELSE sockets[j]
  BY <1>1 DEF SocketsOK
<1>3. QED
  BY <1>1, <1>2 DEF KeepsUps, Up

LEMMA UpsSame == ASSUME UNCHANGED sockets PROVE KeepsUps
  BY DEF KeepsUps, Up, Ws

LEMMA PageUps ==
    ASSUME PanelInv, SocketOpens \/ SocketLost \/ TakeFrame \/ \E q \in Queries : Type(q)
    PROVE  KeepsUps
<1>1. SocketsOK /\ Ws \in 1..Ws /\ Ws \in 1..Len(sockets) /\ sockets[Ws] \in SocketStates(N)
  BY LastSocket DEF PanelInv, Ws
<1>2. CASE SocketOpens
  <2>1. sockets' = [sockets EXCEPT ![Ws] = [sockets[Ws] EXCEPT !.state = "open"]]
    BY <1>1, <1>2 DEF SocketOpens, SocketsOK
  <2>2. [sockets[Ws] EXCEPT !.state = "open"].up = sockets[Ws].up
    BY <1>1 DEF SocketStates
  <2>3. QED
    BY <1>1, <2>1, <2>2, UpKept
<1> DEFINE closed == [sockets[Ws] EXCEPT !.state = "closed", !.down = <<>>]
<1>3. closed.up = sockets[Ws].up /\ Closed(Ws) = [sockets EXCEPT ![Ws] = closed]
  BY <1>1, ClosedSocket
<1> HIDE DEF closed
<1>4. CASE SocketLost
  BY <1>1, <1>3, <1>4, UpKept DEF SocketLost
<1>5. CASE TakeFrame
  <2> DEFINE x == [sockets[Ws] EXCEPT !.down = Tail(sockets[Ws].down)]
  <2>1. sockets' = [sockets EXCEPT ![Ws] = x]
    BY <1>1, <1>5 DEF TakeFrame, SocketsOK
  <2>2. x.up = sockets[Ws].up
    BY <1>1 DEF SocketStates
  <2> HIDE DEF x
  <2>3. QED
    BY <1>1, <2>1, <2>2, UpKept
<1>6. ASSUME NEW q \in Queries, Type(q) PROVE KeepsUps
  <2>1. sockets' = Append(Closed(Ws), NewSocket)
    BY <1>6 DEF Type
  <2>2. Len(Closed(Ws)) = Ws /\ Ws \in Nat
        /\ \A j \in 1..Ws : Closed(Ws)[j] = IF j = Ws THEN closed ELSE sockets[j]
    BY <1>1, <1>3 DEF SocketsOK, Ws
  <2>3. closed \in SocketStates(N)
    BY <1>1, ClosedSocket DEF closed
  <2>4. Closed(Ws) \in Seq(SocketStates(N))
    BY <1>1, <1>3, <2>3 DEF SocketsOK
  <2>5. Ws' = Ws + 1
    BY <2>1, <2>2, <2>4 DEF Ws
  <2>6. \A j \in 1..Ws : sockets'[j] = Closed(Ws)[j]
    BY <2>1, <2>2, <2>4
  <2>7. sockets'[Ws + 1] = NewSocket
    BY <2>1, <2>2, <2>4
  <2>8. \A j \in 1..Ws : sockets'[j].up = sockets[j].up
    BY <1>3, <2>2, <2>6
  <2>9. sockets'[Ws + 1].up = <<>>
    BY <2>7 DEF NewSocket
  <2>10. QED
    BY <2>2, <2>5, <2>8, <2>9 DEF KeepsUps, Up
<1>7. QED
  BY <1>2, <1>4, <1>5, <1>6

(* A message is sent: another turn than all before it.                     *)
LEMMA SendFiled == ASSUME PanelInv, FiledInv, Send PROVE FiledInv'
<1> DEFINE frame == [session |-> activeId, turn |-> N + 1]
           x == [sockets[Ws] EXCEPT !.up = Append(@, frame)]
<1>1. activeId \in Sessions /\ N \in Nat /\ typed' = Append(typed, activeId) /\ stored' = stored
  BY DEF Send, InputEnabled, PanelInv, ViewOK, RestOK, N, server
<1>2. typed'[N + 1] = activeId /\ \A n \in 1..N : typed'[n] = typed[n]
  BY <1>1 DEF PanelInv, RestOK, N
<1>3. SocketsOK /\ Ws \in 1..Len(sockets) /\ sockets[Ws] \in SocketStates(N) /\ Ws = Len(sockets)
      /\ Ws \in Nat
  BY LastSocket DEF PanelInv, SocketsOK, Ws
<1>4. /\ Ws' = Ws /\ \A k \in 1..Ws : k # Ws => Up(k)' = Up(k)
      /\ Up(Ws)' = Up(Ws) \/ Up(Ws)' = Append(Up(Ws), frame)
  <2>1. sockets' = sockets \/ sockets' = [sockets EXCEPT ![Ws] = x]
    BY <1>3 DEF Send, N, SocketsOK
  <2>2. x.up = Append(sockets[Ws].up, frame)
    BY <1>3 DEF SocketStates
  <2> HIDE DEF x, frame
  <2>3. CASE sockets' = sockets
    BY <2>3 DEF Up, Ws
  <2>4. CASE sockets' = [sockets EXCEPT ![Ws] = x]
    <3>1. Len(sockets') = Len(sockets)
      BY <1>3, <2>4 DEF SocketsOK
    <3>2. Ws' = Ws
      BY <3>1 DEF Ws
    <3>3. \A k \in 1..Ws : sockets'[k] = IF k = Ws THEN x ELSE sockets[k]
      BY <1>3, <2>4 DEF SocketsOK
    <3>4. \A k \in 1..Ws : k # Ws => Up(k)' = Up(k)
      BY <3>3 DEF Up
    <3>5. sockets'[Ws].up = Append(sockets[Ws].up, frame)
      BY <1>3, <2>2, <3>3
    <3>6. Up(Ws)' = Append(Up(Ws), frame)
      BY <3>2, <3>5 DEF Up
    <3>7. QED
      BY <3>2, <3>4, <3>6
  <2>5. QED
    BY <2>1, <2>3, <2>4
<1> HIDE DEF x
<1>5. ASSUME NEW k \in 1..Ws, NEW i \in 1..Len(Up(k)')
      PROVE  \/ i \in 1..Len(Up(k)) /\ Up(k)'[i] = Up(k)[i]
             \/ k = Ws /\ i = Len(Up(Ws)) + 1 /\ Up(k)'[i] = frame
  <2>1. Up(k) \in Seq(UpFrames(N)) /\ Len(Up(k)) \in Nat
    BY UpType
  <2>2. CASE Up(k)' = Up(k)
    BY <1>5, <2>2
  <2>3. CASE k = Ws /\ Up(Ws)' = Append(Up(Ws), frame)
    <3> DEFINE u == Up(Ws)
    <3>1. u \in Seq(UpFrames(N)) /\ Up(k)' = Append(u, frame)
      BY <1>4, <2>1, <2>3
    <3>2. i \in 1..(Len(u) + 1)
      BY <1>5, <3>1
    <3>3. QED
      BY <2>3, <3>1, <3>2
  <2>4. QED
    BY <1>3, <1>4, <1>5, <2>2, <2>3
<1>6. frame.turn = N + 1 /\ frame.session = activeId
  OBVIOUS
<1> HIDE DEF frame
<1>7. \A k \in 1..Ws : \A i \in 1..Len(Up(k)) :
        Up(k)[i].turn \in 1..N /\ Up(k)[i].turn # N + 1 /\ Len(Up(k)) \in Nat
  BY UpType
<1>8. SentRight'
  <2> SUFFICES ASSUME NEW k \in 1..Ws, NEW i \in 1..Len(Up(k)')
               PROVE  typed'[Up(k)'[i].turn] = Up(k)'[i].session
    BY <1>4 DEF SentRight
  <2>1. CASE i \in 1..Len(Up(k)) /\ Up(k)'[i] = Up(k)[i]
    BY <1>2, <1>7, <2>1 DEF FiledInv, SentRight
  <2>2. CASE Up(k)'[i] = frame
    BY <1>2, <1>6, <2>2
  <2>3. QED
    BY <1>5, <2>1, <2>2
<1>9. SentOnce'
  <2> SUFFICES ASSUME NEW k \in 1..Ws, NEW l \in 1..Ws,
                      NEW i \in 1..Len(Up(k)'), NEW j \in 1..Len(Up(l)'),
                      Up(k)'[i].turn = Up(l)'[j].turn
               PROVE  k = l /\ i = j
    BY <1>4 DEF SentOnce
  <2>1. /\ \/ i \in 1..Len(Up(k)) /\ Up(k)'[i] = Up(k)[i] /\ Up(k)[i].turn # N + 1
           \/ k = Ws /\ i = Len(Up(Ws)) + 1 /\ Up(k)'[i].turn = N + 1
        /\ \/ j \in 1..Len(Up(l)) /\ Up(l)'[j] = Up(l)[j] /\ Up(l)[j].turn # N + 1
           \/ l = Ws /\ j = Len(Up(Ws)) + 1 /\ Up(l)'[j].turn = N + 1
    BY <1>5, <1>6, <1>7
  <2>2. CASE /\ i \in 1..Len(Up(k)) /\ Up(k)'[i] = Up(k)[i]
             /\ j \in 1..Len(Up(l)) /\ Up(l)'[j] = Up(l)[j]
    BY <2>2 DEF FiledInv, SentOnce
  <2>3. QED
    BY <2>1, <2>2
<1>10. \A id \in Sessions : \A i \in 1..Len(stored[id]) :
         stored[id][i].turn \in 1..N /\ stored[id][i].turn # N + 1
  BY <1>1, StoredType
<1>11. FiledRight'
  <2> SUFFICES ASSUME NEW id \in Sessions, NEW i \in 1..Len(stored[id]),
                      stored[id][i].role = "user"
               PROVE  /\ typed'[stored[id][i].turn] = id
                      /\ \A k \in 1..Ws : \A j \in 1..Len(Up(k)') :
                            Up(k)'[j].turn # stored[id][i].turn
    <3>1. stored' = stored /\ Ws' = Ws
      BY <1>1, <1>4
    <3>2. QED
      BY <3>1 DEF FiledRight
  <2>1. typed'[stored[id][i].turn] = id
    BY <1>2, <1>10 DEF FiledInv, FiledRight
  <2>2. ASSUME NEW k \in 1..Ws, NEW j \in 1..Len(Up(k)')
        PROVE  Up(k)'[j].turn # stored[id][i].turn
    <3>1. CASE j \in 1..Len(Up(k)) /\ Up(k)'[j] = Up(k)[j]
      BY <3>1 DEF FiledInv, FiledRight
    <3>2. CASE Up(k)'[j] = frame
      BY <1>6, <1>10, <3>2
    <3>3. QED
      BY <1>5, <2>2, <3>1, <3>2
  <2>3. QED
    BY <2>1, <2>2
<1>12. FiledOnce'
  <2>1. stored' = stored
    BY <1>1
  <2>2. QED
    BY <2>1 DEF FiledInv, FiledOnce
<1>13. QED
  BY <1>8, <1>9, <1>11, <1>12 DEF FiledInv

(* A handler takes the first message of its queue, and files it or not.    *)
LEMMA TakesFiled ==
    ASSUME PanelInv, FiledInv, NEW k \in 1..Ws, HandlerTakes(k), UNCHANGED typed
    PROVE  FiledInv'
<1> DEFINE f == Head(Up(k))
           x == sockets'[k]
<1>1. Up(k) # <<>> /\ Up(k) \in Seq(UpFrames(N)) /\ Len(Up(k)) \in Nat /\ k \in 1..Len(sockets)
      /\ sockets[k] \in SocketStates(N)
  <2>1. Up(k) \in Seq(UpFrames(N)) /\ Len(Up(k)) \in Nat
    BY UpType
  <2>2. Up(k) # <<>>
    BY DEF HandlerTakes, Up
  <2>3. k \in 1..Len(sockets) /\ sockets[k] \in SocketStates(N)
    BY DEF Ws, PanelInv, SocketsOK
  <2>4. QED
    BY <2>1, <2>2, <2>3
<1>2. f = Up(k)[1] /\ 1 \in 1..Len(Up(k))
  BY <1>1
<1>3. f.session \in Sessions /\ f.turn \in 1..N
  BY <1>2, UpType
<1>4. /\ Ws' = Ws /\ Up(k)' = Tail(Up(k))
      /\ \A l \in 1..Ws : l # k => Up(l)' = Up(l)
  <2>1. PICK y : sockets' = [sockets EXCEPT ![k] = y] /\ y.up = Tail(sockets[k].up)
    <3> DEFINE g == Head(sockets[k].up)
               down == Heard(k, [type |-> "chat.error", session |-> g.session,
                                 turn |-> g.turn, part |-> 0])
               taken == [sockets[k] EXCEPT !.up = Tail(sockets[k].up),
                           !.serving = [session |-> g.session, turn |-> g.turn, sent |-> 0]]
               refused == [sockets[k] EXCEPT !.up = Tail(sockets[k].up), !.down = down]
    <3>1. taken.up = Tail(sockets[k].up) /\ refused.up = Tail(sockets[k].up)
      BY <1>1 DEF SocketStates
    <3>2. sockets' = [sockets EXCEPT ![k] = taken] \/ sockets' = [sockets EXCEPT ![k] = refused]
      <4>1. CASE Exists(g.session)
        BY <1>1, <4>1 DEF HandlerTakes, PanelInv, SocketsOK
      <4>2. CASE ~Exists(g.session)
        BY <1>1, <4>2 DEF HandlerTakes, PanelInv, SocketsOK
      <4>3. QED
        BY <4>1, <4>2
    <3> HIDE DEF taken, refused
    <3>3. QED
      BY <3>1, <3>2
  <2>2. Len(sockets') = Len(sockets) /\ \A l \in 1..Ws : sockets'[l] = IF l = k THEN y ELSE sockets[l]
    BY <1>1, <2>1 DEF PanelInv, SocketsOK, Ws
  <2>3. Ws' = Ws
    BY <2>2 DEF Ws
  <2>4. sockets'[k].up = Tail(sockets[k].up) /\ \A l \in 1..Ws : l # k => sockets'[l] = sockets[l]
    BY <2>1, <2>2
  <2>5. Up(k)' = Tail(Up(k))
    BY <2>4 DEF Up
  <2>6. \A l \in 1..Ws : l # k => Up(l)' = Up(l)
    BY <2>4 DEF Up
  <2>7. QED
    BY <2>3, <2>5, <2>6
<1>5. ASSUME NEW l \in 1..Ws, NEW i \in 1..Len(Up(l)')
      PROVE  \/ l # k /\ i \in 1..Len(Up(l)) /\ Up(l)'[i] = Up(l)[i]
             \/ l = k /\ i + 1 \in 1..Len(Up(k)) /\ i + 1 # 1 /\ Up(l)'[i] = Up(k)[i + 1]
  <2>1. CASE l # k
    BY <1>4, <1>5, <2>1
  <2>2. CASE l = k
    <3>1. Len(Tail(Up(k))) = Len(Up(k)) - 1
          /\ \A n \in 1..Len(Tail(Up(k))) : Tail(Up(k))[n] = Up(k)[n + 1]
      BY <1>1
    <3>2. i \in 1..(Len(Up(k)) - 1)
      BY <1>4, <1>5, <2>2, <3>1
    <3>3. QED
      BY <1>1, <1>4, <2>2, <3>1, <3>2
  <2>3. QED
    BY <2>1, <2>2
<1>6. SentRight'
  <2> SUFFICES ASSUME NEW l \in 1..Ws, NEW i \in 1..Len(Up(l)')
               PROVE  typed[Up(l)'[i].turn] = Up(l)'[i].session
    BY <1>4 DEF SentRight
  <2>1. QED
    BY <1>5 DEF FiledInv, SentRight
<1>7. SentOnce'
  <2> SUFFICES ASSUME NEW l \in 1..Ws, NEW m \in 1..Ws,
                      NEW i \in 1..Len(Up(l)'), NEW j \in 1..Len(Up(m)'),
                      Up(l)'[i].turn = Up(m)'[j].turn
               PROVE  l = m /\ i = j
    BY <1>4 DEF SentOnce
  <2>1. CASE l # k /\ m # k
    <3>1. /\ i \in 1..Len(Up(l)) /\ Up(l)'[i] = Up(l)[i]
          /\ j \in 1..Len(Up(m)) /\ Up(m)'[j] = Up(m)[j]
      BY <1>5, <2>1
    <3>2. QED
      BY <3>1 DEF FiledInv, SentOnce
  <2>2. CASE l = k /\ m # k
    <3>1. /\ i + 1 \in 1..Len(Up(k)) /\ Up(l)'[i] = Up(k)[i + 1]
          /\ j \in 1..Len(Up(m)) /\ Up(m)'[j] = Up(m)[j]
      BY <1>5, <2>2
    <3>2. k = m
      BY <3>1 DEF FiledInv, SentOnce
    <3>3. QED
      BY <2>2, <3>2
  <2>3. CASE l # k /\ m = k
    <3>1. /\ i \in 1..Len(Up(l)) /\ Up(l)'[i] = Up(l)[i]
          /\ j + 1 \in 1..Len(Up(k)) /\ Up(m)'[j] = Up(k)[j + 1]
      BY <1>5, <2>3
    <3>2. l = k
      BY <3>1 DEF FiledInv, SentOnce
    <3>3. QED
      BY <2>3, <3>2
  <2>4. CASE l = k /\ m = k
    <3>1. i + 1 = j + 1
      BY <1>5, <2>4 DEF FiledInv, SentOnce
    <3>2. i \in Nat /\ j \in Nat
      BY <1>1, <1>4, <2>4
    <3>3. QED
      BY <2>4, <3>1, <3>2
  <2>5. QED
    BY <2>1, <2>2, <2>3, <2>4
<1>8. \A l \in 1..Ws : \A i \in 1..Len(Up(l)') : Up(l)'[i].turn # f.turn
  <2> SUFFICES ASSUME NEW l \in 1..Ws, NEW i \in 1..Len(Up(l)') PROVE Up(l)'[i].turn # f.turn
    OBVIOUS
  <2>1. CASE l # k
    BY <1>2, <1>5, <2>1 DEF FiledInv, SentOnce
  <2>2. CASE l = k
    BY <1>2, <1>5, <2>2 DEF FiledInv, SentOnce
  <2>3. QED
    BY <2>1, <2>2
<1>9. typed[f.turn] = f.session
  BY <1>2 DEF FiledInv, SentRight
<1>10. \A id \in Sessions : \A i \in 1..Len(stored[id]) :
         stored[id][i].role = "user" => stored[id][i].turn # f.turn
  BY <1>2 DEF FiledInv, FiledRight
<1>11. ASSUME NEW id \in Sessions, NEW i \in 1..Len(stored[id]'), stored[id]'[i].role = "user"
       PROVE  \/ i \in 1..Len(stored[id]) /\ stored[id]'[i] = stored[id][i]
              \/ id = f.session /\ i = Len(stored[id]) + 1 /\ stored[id]'[i].turn = f.turn
  <2> DEFINE h == stored[id]
  <2>1. h \in Seq(MessagesTo(N)) /\ stored \in [Sessions -> Seq(MessagesTo(N))]
    BY DEF PanelInv, ServerOK
  <2>2. \/ stored' = stored
        \/ stored' = [stored EXCEPT ![f.session] = Append(@, UserMessage(f.turn))]
    BY DEF HandlerTakes, Up
  <2>3. CASE stored[id]' = h
    BY <1>11, <2>3
  <2>4. CASE id = f.session /\ stored[id]' = Append(h, UserMessage(f.turn))
    <3> HIDE DEF h
    <3>1. i \in 1..(Len(h) + 1)
      BY <1>11, <2>1, <2>4
    <3>2. CASE i = Len(h) + 1
      <4>1. Append(h, UserMessage(f.turn))[i] = UserMessage(f.turn)
        BY <2>1, <3>2
      <4>2. QED
        BY <2>4, <3>2, <4>1 DEF UserMessage, h
    <3>3. CASE i \in 1..Len(h)
      BY <2>1, <2>4, <3>3 DEF h
    <3>4. QED
      BY <2>1, <3>1, <3>2, <3>3
  <2>5. QED
    BY <1>3, <2>1, <2>2, <2>3, <2>4
<1>12. FiledRight'
  <2> SUFFICES ASSUME NEW id \in Sessions, NEW i \in 1..Len(stored[id]'),
                      stored[id]'[i].role = "user"
               PROVE  /\ typed[stored[id]'[i].turn] = id
                      /\ \A l \in 1..Ws : \A j \in 1..Len(Up(l)') :
                            Up(l)'[j].turn # stored[id]'[i].turn
    BY <1>4 DEF FiledRight
  <2>1. CASE i \in 1..Len(stored[id]) /\ stored[id]'[i] = stored[id][i]
    <3>1. typed[stored[id]'[i].turn] = id
      BY <2>1 DEF FiledInv, FiledRight
    <3>2. ASSUME NEW l \in 1..Ws, NEW j \in 1..Len(Up(l)')
          PROVE  Up(l)'[j].turn # stored[id]'[i].turn
      <4>1. PICK n \in 1..Len(Up(l)) : Up(l)'[j] = Up(l)[n]
        BY <1>5, <3>2
      <4>2. QED
        BY <2>1, <4>1 DEF FiledInv, FiledRight
    <3>3. QED
      BY <3>1, <3>2
  <2>2. CASE id = f.session /\ stored[id]'[i].turn = f.turn
    BY <1>8, <1>9, <2>2
  <2>3. QED
    BY <1>11, <2>1, <2>2
<1>13. FiledOnce'
  <2> SUFFICES ASSUME NEW id \in Sessions,
                      NEW i \in 1..Len(stored[id]'), NEW j \in 1..Len(stored[id]'),
                      stored[id]'[i].role = "user", stored[id]'[j].role = "user",
                      stored[id]'[i].turn = stored[id]'[j].turn
               PROVE  i = j
    BY DEF FiledOnce
  <2>1. CASE i \in 1..Len(stored[id]) /\ stored[id]'[i] = stored[id][i]
    BY <1>10, <1>11, <2>1 DEF FiledInv, FiledOnce
  <2>2. CASE i = Len(stored[id]) + 1 /\ stored[id]'[i].turn = f.turn
    BY <1>10, <1>11, <2>2
  <2>3. QED
    BY <1>11, <2>1, <2>2
<1>14. QED
  BY <1>6, <1>7, <1>12, <1>13 DEF FiledInv

(* A handler that finishes stores an answer, which is no message of the    *)
(* user's.                                                                 *)
LEMMA FinishesFiled ==
    ASSUME PanelInv, FiledInv, NEW k \in 1..Ws, HandlerFinishes(k), KeepsUps, UNCHANGED typed
    PROVE  FiledInv'
<1>1. ASSUME NEW id \in Sessions, NEW i \in 1..Len(stored[id]'), stored[id]'[i].role = "user"
      PROVE  i \in 1..Len(stored[id]) /\ stored[id]'[i] = stored[id][i]
  <2> DEFINE t == sockets[k].serving
             answer == Answer(t.turn, Text(t.turn, t.sent))
             h == stored[id]
  <2>1. h \in Seq(MessagesTo(N)) /\ stored \in [Sessions -> Seq(MessagesTo(N))]
    BY DEF PanelInv, ServerOK
  <2>2. stored' = stored \/ stored' = [stored EXCEPT ![t.session] = Append(@, answer)]
    BY DEF HandlerFinishes
  <2>3. answer.role = "assistant"
    BY DEF Answer
  <2> HIDE DEF answer, t
  <2>4. CASE stored[id]' = h
    BY <1>1, <2>4
  <2>5. CASE stored[id]' = Append(h, answer)
    <3> HIDE DEF h
    <3>1. i \in 1..(Len(h) + 1)
      BY <1>1, <2>1, <2>5
    <3>2. i # Len(h) + 1
      <4>1. Append(h, answer)[Len(h) + 1] = answer
        BY <2>1
      <4>2. QED
        BY <1>1, <2>3, <2>5, <4>1
    <3>3. i \in 1..Len(h)
      BY <2>1, <3>1, <3>2
    <3>4. QED
      BY <2>1, <2>5, <3>3 DEF h
  <2>6. QED
    BY <2>1, <2>2, <2>4, <2>5
<1>2. ASSUME NEW l \in 1..Ws', NEW i \in 1..Len(Up(l)')
      PROVE  l \in 1..Ws /\ i \in 1..Len(Up(l)) /\ Up(l)'[i] = Up(l)[i]
  <2>1. Up(l)' # <<>>
    BY <1>2
  <2>2. QED
    BY <1>2, <2>1 DEF KeepsUps
<1>3. SentRight'
  BY <1>2 DEF FiledInv, SentRight
<1>4. SentOnce'
  BY <1>2 DEF FiledInv, SentOnce
<1>5. FiledRight'
  <2> SUFFICES ASSUME NEW id \in Sessions, NEW i \in 1..Len(stored[id]'),
                      stored[id]'[i].role = "user"
               PROVE  /\ typed[stored[id]'[i].turn] = id
                      /\ \A l \in 1..Ws' : \A j \in 1..Len(Up(l)') :
                            Up(l)'[j].turn # stored[id]'[i].turn
    BY DEF FiledRight
  <2>1. i \in 1..Len(stored[id]) /\ stored[id]'[i] = stored[id][i] /\ stored[id][i].role = "user"
    BY <1>1
  <2>2. /\ typed[stored[id][i].turn] = id
        /\ \A l \in 1..Ws : \A j \in 1..Len(Up(l)) : Up(l)[j].turn # stored[id][i].turn
    BY <2>1 DEF FiledInv, FiledRight
  <2>3. ASSUME NEW l \in 1..Ws', NEW j \in 1..Len(Up(l)')
        PROVE  Up(l)'[j].turn # stored[id]'[i].turn
    BY <1>2, <2>1, <2>2, <2>3
  <2>4. QED
    BY <2>1, <2>2, <2>3
<1>6. FiledOnce'
  <2> SUFFICES ASSUME NEW id \in Sessions,
                      NEW i \in 1..Len(stored[id]'), NEW j \in 1..Len(stored[id]'),
                      stored[id]'[i].role = "user", stored[id]'[j].role = "user",
                      stored[id]'[i].turn = stored[id]'[j].turn
               PROVE  i = j
    BY DEF FiledOnce
  <2>1. /\ i \in 1..Len(stored[id]) /\ stored[id]'[i] = stored[id][i]
        /\ j \in 1..Len(stored[id]) /\ stored[id]'[j] = stored[id][j]
    BY <1>1
  <2>2. QED
    BY <2>1 DEF FiledInv, FiledOnce
<1>7. QED
  BY <1>3, <1>4, <1>5, <1>6 DEF FiledInv

LEMMA HandlerUps ==
    ASSUME PanelInv, NEW k \in 1..Ws, Handler(k), ~HandlerTakes(k)
    PROVE  KeepsUps
<1>1. SocketsOK /\ k \in 1..Len(sockets) /\ sockets[k] \in SocketStates(N)
  BY DEF PanelInv, SocketsOK, Ws
<1>2. ASSUME NEW frame, NEW serving, Served(k, frame, serving) PROVE KeepsUps
  <2> DEFINE x == [sockets[k] EXCEPT !.down = Heard(k, frame), !.serving = serving]
  <2>1. sockets' = [sockets EXCEPT ![k] = x]
    BY <1>1, <1>2 DEF Served, SocketsOK
  <2>2. x.up = sockets[k].up
    BY <1>1 DEF SocketStates
  <2> HIDE DEF x
  <2>3. QED
    BY <1>1, <2>1, <2>2, UpKept
<1>3. CASE HandlerEnds(k)
  <2> DEFINE x == [sockets[k] EXCEPT !.up = <<>>, !.serving = Idle]
  <2>1. sockets' = [sockets EXCEPT ![k] = x]
    BY <1>1, <1>3 DEF HandlerEnds, SocketsOK
  <2>2. x.up = <<>>
    BY <1>1 DEF SocketStates
  <2> HIDE DEF x
  <2>3. QED
    BY <1>1, <2>1, <2>2, UpKept
<1>4. QED
  BY <1>2, <1>3 DEF Handler, HandlerStreams, HandlerCallsTool, HandlerFinishes, HandlerFails

LEMMA ChatFiled == ASSUME PanelInv, FiledInv, ChatNext PROVE FiledInv'
<1>1. ASSUME UNCHANGED <<sockets, typed, stored>> PROVE FiledInv'
  BY <1>1, UpsSame, UpsKept
<1>2. CASE Send
  BY <1>2, SendFiled
<1>3. ASSUME NEW q \in Queries, Type(q) PROVE FiledInv'
  <2>1. KeepsUps
    BY <1>3, PageUps
  <2>2. QED
    BY <1>3, <2>1, UpsKept DEF Type, Abandon, server
<1>4. CASE UserActs
  <2>1. ASSUME NEW op, NEW id, NEW arg, Ask(op, id, arg) PROVE FiledInv'
    BY <1>1, <2>1 DEF Ask, server, history
  <2>2. ASSUME NEW id, SelectSession(id) PROVE FiledInv'
    BY <1>1, <2>2 DEF SelectSession, server, history
  <2>3. CASE ToggleSearch
    BY <1>1, <2>3 DEF ToggleSearch, server, history
  <2>4. QED
    BY <1>2, <1>3, <1>4, <2>1, <2>2, <2>3
    DEF UserActs, PinSession, ArchiveSession, DeleteSession, SetSessionModel, NewSession
<1>5. CASE ServerAnswers
  <2>1. UNCHANGED <<sockets, typed, stored>>
    BY <1>5 DEF ServerAnswers, history, server, AnswerList, AnswerLoad, AnswerCreate,
                AnswerPatch, AnswerDelete
  <2>2. QED
    BY <1>1, <2>1
<1>6. CASE TakeAnswer \/ FetchFails \/ CopyStreaming
  BY <1>1, <1>6 DEF TakeAnswer, FetchFails, CopyStreaming, server, history
<1>7. CASE SocketOpens \/ SocketLost \/ TakeFrame
  <2>1. KeepsUps
    BY <1>7, PageUps
  <2>2. QED
    BY <1>7, <2>1, UpsKept DEF SocketOpens, SocketLost, Abandon, TakeFrame, server, history
<1>8. ASSUME NEW k \in 1..Ws, Handler(k) PROVE FiledInv'
  <2>1. UNCHANGED typed
    BY <1>8 DEF Handler
  <2>2. CASE HandlerTakes(k)
    BY <2>1, <2>2, TakesFiled
  <2>3. CASE ~HandlerTakes(k)
    <3>1. KeepsUps
      BY <1>8, <2>3, HandlerUps
    <3>2. CASE HandlerFinishes(k)
      BY <2>1, <3>1, <3>2, FinishesFiled
    <3>3. CASE UNCHANGED stored
      BY <2>1, <3>1, <3>3, UpsKept
    <3>4. QED
      BY <1>8, <2>3, <3>2, <3>3
      DEF Handler, HandlerStreams, HandlerCallsTool, HandlerFails, HandlerEnds
  <2>4. QED
    BY <2>2, <2>3
<1>9. QED
  BY <1>4, <1>5, <1>6, <1>7, <1>8 DEF ChatNext

-----------------------------------------------------------------------------
(* The text that streams in.  What is on the screen came on the socket     *)
(* that is open now, and its end is still to come on it, behind every      *)
(* delta under way; or a socket was closed in the middle of it.            *)
Down(k) == sockets[k].down
Ends == {"chat.done", "chat.error"}
EndComes(k, i) ==
    sockets[k].serving # Idle \/ \E j \in 1..Len(Down(k)) : j > i /\ Down(k)[j].type \in Ends

DeltasEnd ==
    \A k \in 1..Ws : \A i \in 1..Len(Down(k)) :
        Down(k)[i].type = "chat.delta" => EndComes(k, i)
StreamEnds ==
    streaming # <<>> /\ ~residue => sockets[Ws].state = "open" /\ EndComes(Ws, 0)
OpensIdle == \A k \in 1..Ws : sockets[k].state = "connecting" => ~Busy(k)

StreamInv == DeltasEnd /\ StreamEnds /\ OpensIdle

LEMMA StreamSuffices == SocketsOK /\ StreamInv => StreamingIsLive
<1> SUFFICES ASSUME SocketsOK, StreamInv, AtRest, ~residue, streaming # <<>> PROVE FALSE
  BY DEF StreamingIsLive
<1>1. ~Busy(Ws)
  BY LastSocket DEF AtRest, Ws
<1>2. sockets[Ws].serving = Idle /\ Down(Ws) = <<>>
  BY <1>1 DEF Busy, Down
<1>3. EndComes(Ws, 0)
  BY DEF StreamInv, StreamEnds
<1>4. QED
  BY <1>2, <1>3 DEF EndComes

LEMMA StreamInit == ChatInit => StreamInv
<1> SUFFICES ASSUME ChatInit PROVE StreamInv
  OBVIOUS
<1>1. ASSUME NEW k \in 1..Ws PROVE Down(k) = <<>> /\ ~Busy(k)
  <2>1. sockets = <<NewSocket>>
    BY DEF ChatInit
  <2>2. k = 1 /\ sockets[1] = NewSocket
    BY <1>1, <2>1 DEF Ws
  <2>3. QED
    BY <2>2 DEF Down, NewSocket, Busy
<1>2. streaming = <<>>
  BY DEF ChatInit
<1>3. QED
  BY <1>1, <1>2 DEF StreamInv, DeltasEnd, StreamEnds, OpensIdle

(* A step that leaves the sockets alone, and the text or the excuse.       *)
LEMMA StreamKept ==
    ASSUME StreamInv, UNCHANGED <<sockets, residue, streaming>>
    PROVE  StreamInv'
  BY DEF StreamInv, DeltasEnd, StreamEnds, OpensIdle, EndComes, Down, Busy, Ws

(* What a step does to one socket.                                         *)
LEMMA OneSocket ==
    ASSUME SocketsOK, NEW k \in 1..Ws, NEW x, sockets' = [sockets EXCEPT ![k] = x]
    PROVE  /\ Ws' = Ws /\ sockets'[k] = x /\ \A l \in 1..Ws : l # k => sockets'[l] = sockets[l]
           /\ Ws \in Nat /\ Ws \in 1..Ws
<1>1. Ws = Len(sockets) /\ Ws \in Nat /\ Ws >= 1 /\ Len(sockets') = Len(sockets)
  BY DEF SocketsOK, Ws
<1>2. \A l \in 1..Ws : sockets'[l] = IF l = k THEN x ELSE sockets[l]
  BY <1>1 DEF SocketsOK
<1>3. QED
  BY <1>1, <1>2 DEF Ws

LEMMA DownType ==
    ASSUME PanelInv, NEW k \in 1..Ws
    PROVE  /\ Down(k) \in Seq(DownFrames(N)) /\ Len(Down(k)) \in Nat
           /\ k \in 1..Len(sockets) /\ sockets[k] \in SocketStates(N)
           /\ sockets[k].state # "open" => Down(k) = <<>>
           /\ sockets[k].state = "open" => k = Ws
<1>1. /\ k \in 1..Len(sockets) /\ sockets[k] \in SocketStates(N) /\ Ws \in Nat /\ Ws = Len(sockets)
      /\ sockets[k].state # "open" => sockets[k].down = <<>>
      /\ k < Len(sockets) => sockets[k].state = "closed"
  BY DEF PanelInv, SocketsOK, Ws
<1>2. Down(k) \in Seq(DownFrames(N))
  BY <1>1 DEF Down, SocketStates
<1>3. QED
  BY <1>1, <1>2 DEF Down

(* The socket k changes so that what ends came, comes.                     *)
LEMMA SocketChange ==
    ASSUME SocketsOK, StreamInv, NEW k \in 1..Ws, NEW x, sockets' = [sockets EXCEPT ![k] = x],
           \A i \in 1..Len(Down(k)') : Down(k)'[i].type = "chat.delta" => EndComes(k, i)',
           x.state = "connecting" => ~Busy(k)',
           StreamEnds'
    PROVE  StreamInv'
<1>1. /\ Ws' = Ws /\ sockets'[k] = x /\ \A l \in 1..Ws : l # k => sockets'[l] = sockets[l]
  BY OneSocket
<1>2. DeltasEnd'
  <2> SUFFICES ASSUME NEW l \in 1..Ws PROVE \A i \in 1..Len(Down(l)') :
                        Down(l)'[i].type = "chat.delta" => EndComes(l, i)'
    BY <1>1 DEF DeltasEnd
  <2>1. CASE l = k
    BY <2>1
  <2>2. CASE l # k
    <3>1. sockets'[l] = sockets[l]
      BY <1>1, <2>2
    <3>2. QED
      BY <3>1 DEF StreamInv, DeltasEnd, EndComes, Down
  <2>3. QED
    BY <2>1, <2>2
<1>3. OpensIdle'
  <2> SUFFICES ASSUME NEW l \in 1..Ws, sockets'[l].state = "connecting" PROVE ~Busy(l)'
    BY <1>1 DEF OpensIdle
  <2>1. CASE l = k
    BY <1>1, <2>1
  <2>2. CASE l # k
    <3>1. sockets'[l] = sockets[l]
      BY <1>1, <2>2
    <3>2. QED
      BY <3>1 DEF StreamInv, OpensIdle, Busy
  <2>3. QED
    BY <2>1, <2>2
<1>4. QED
  BY <1>2, <1>3 DEF StreamInv

LEMMA LastOne ==
    ASSUME PanelInv
    PROVE  \E k \in 1..Ws :
              /\ k = Ws /\ k \in 1..Len(sockets) /\ sockets[k] \in SocketStates(N)
              /\ sockets[k].state # "open" => sockets[k].down = <<>>
  BY LastSocket DEF PanelInv, Ws

LEMMA SendStream == ASSUME PanelInv, StreamInv, Send PROVE StreamInv'
<1>1. PICK k \in 1..Ws : k = Ws /\ k \in 1..Len(sockets) /\ sockets[k] \in SocketStates(N)
  BY LastOne
<1> DEFINE x == [sockets[k] EXCEPT !.up = Append(@, [session |-> activeId, turn |-> Len(typed) + 1])]
<1>2. CASE sockets[k].state # "open"
  BY <1>1, <1>2, StreamKept DEF Send
<1>3. CASE sockets[k].state = "open"
  <2>1. sockets' = [sockets EXCEPT ![k] = x]
    BY <1>1, <1>3 DEF Send, PanelInv, SocketsOK
  <2>2. x.state = sockets[k].state /\ x.down = sockets[k].down /\ x.serving = sockets[k].serving
    BY <1>1 DEF SocketStates
  <2> HIDE DEF x
  <2>3. Ws' = k /\ sockets'[k] = x
    BY <1>1, <2>1, OneSocket DEF PanelInv
  <2>4. Down(k)' = Down(k) /\ \A i : EndComes(k, i) => EndComes(k, i)'
    BY <2>2, <2>3 DEF Down, EndComes
  <2>5. \A i \in 1..Len(Down(k)') : Down(k)'[i].type = "chat.delta" => EndComes(k, i)'
    BY <2>4 DEF StreamInv, DeltasEnd
  <2>6. StreamEnds'
    <3>1. UNCHANGED <<streaming, residue>>
      BY DEF Send
    <3>2. streaming # <<>> /\ ~residue => EndComes(k, 0)'
      BY <1>1, <2>4 DEF StreamInv, StreamEnds
    <3>3. QED
      BY <1>3, <2>2, <2>3, <3>1, <3>2 DEF StreamEnds, EndComes, Down
  <2>7. QED
    BY <1>3, <2>1, <2>2, <2>5, <2>6, SocketChange DEF PanelInv
<1>4. QED
  BY <1>2, <1>3

LEMMA ClosedStream ==
    ASSUME PanelInv, StreamInv, SocketLost
    PROVE  StreamInv'
<1>1. PICK k \in 1..Ws : k = Ws
  BY LastOne
<1> DEFINE x == [sockets[k] EXCEPT !.state = "closed", !.down = <<>>]
<1>2. x.state = "closed" /\ x.down = <<>> /\ sockets' = [sockets EXCEPT ![k] = x]
  BY <1>1, ClosedSocket DEF SocketLost, PanelInv
<1> HIDE DEF x
<1>3. sockets'[k] = x /\ Down(k)' = <<>>
  BY <1>1, <1>2, OneSocket DEF PanelInv, Down
<1>4. StreamEnds'
  BY DEF SocketLost, Abandon, view, StreamInv, StreamEnds
<1>5. \A i \in 1..Len(Down(k)') : Down(k)'[i].type = "chat.delta" => EndComes(k, i)'
  BY <1>3
<1>6. QED
  BY <1>2, <1>4, <1>5, SocketChange DEF PanelInv

LEMMA TypeStream == ASSUME PanelInv, StreamInv, NEW q \in Queries, Type(q) PROVE StreamInv'
<1>1. PICK k \in 1..Ws : k = Ws /\ k \in 1..Len(sockets) /\ Ws \in Nat /\ Ws = Len(sockets)
  BY LastOne DEF PanelInv, SocketsOK, Ws
<1> DEFINE x == [sockets[k] EXCEPT !.state = "closed", !.down = <<>>]
<1>2. /\ x \in SocketStates(N) /\ x.state = "closed" /\ x.down = <<>>
      /\ Closed(Ws) = [sockets EXCEPT ![k] = x]
  BY <1>1, ClosedSocket DEF PanelInv
<1> HIDE DEF x
<1>3. Closed(Ws) \in Seq(SocketStates(N)) /\ Len(Closed(Ws)) = Ws
      /\ \A l \in 1..Ws : Closed(Ws)[l] = IF l = k THEN x ELSE sockets[l]
  BY <1>1, <1>2 DEF PanelInv, SocketsOK
<1>4. sockets' = Append(Closed(Ws), NewSocket)
  BY DEF Type
<1>5. /\ Ws' = Ws + 1 /\ sockets'[Ws + 1] = NewSocket
      /\ \A l \in 1..Ws : sockets'[l] = IF l = k THEN x ELSE sockets[l]
  BY <1>1, <1>3, <1>4 DEF Ws
<1>6. ASSUME NEW l \in 1..Ws'
      PROVE  Down(l)' = <<>> \/ (l \in 1..Ws /\ l # k /\ sockets'[l] = sockets[l])
  <2>1. CASE l = Ws + 1
    BY <1>5, <2>1 DEF Down, NewSocket
  <2>2. CASE l = k
    BY <1>2, <1>5, <2>2 DEF Down
  <2>3. CASE l \in 1..Ws /\ l # k
    BY <1>5, <2>3
  <2>4. QED
    BY <1>1, <1>5, <1>6, <2>1, <2>2, <2>3
<1>7. DeltasEnd'
  <2> SUFFICES ASSUME NEW l \in 1..Ws', NEW i \in 1..Len(Down(l)'), Down(l)'[i].type = "chat.delta"
               PROVE  EndComes(l, i)'
    BY DEF DeltasEnd
  <2>1. l \in 1..Ws /\ sockets'[l] = sockets[l]
    <3>1. Down(l)' # <<>>
      OBVIOUS
    <3>2. QED
      BY <1>6, <3>1
  <2>2. Down(l)' = Down(l) /\ (EndComes(l, i) => EndComes(l, i)')
    BY <2>1 DEF Down, EndComes
  <2>3. QED
    BY <2>1, <2>2 DEF StreamInv, DeltasEnd
<1>8. StreamEnds'
  BY DEF Type, Abandon, StreamInv, StreamEnds
<1>9. OpensIdle'
  <2> SUFFICES ASSUME NEW l \in 1..Ws', sockets'[l].state = "connecting" PROVE ~Busy(l)'
    BY DEF OpensIdle
  <2>1. CASE l = Ws + 1
    BY <1>5, <2>1 DEF Busy, NewSocket
  <2>2. CASE l \in 1..Ws
    <3>1. sockets'[l] = sockets[l]
      BY <1>2, <1>5, <2>2
    <3>2. QED
      BY <2>2, <3>1 DEF StreamInv, OpensIdle, Busy
  <2>3. QED
    BY <1>1, <1>5, <2>1, <2>2
<1>10. QED
  BY <1>7, <1>8, <1>9 DEF StreamInv

LEMMA OpensStream == ASSUME PanelInv, StreamInv, SocketOpens PROVE StreamInv'
<1>1. PICK k \in 1..Ws : k = Ws /\ k \in 1..Len(sockets) /\ sockets[k] \in SocketStates(N)
  BY LastOne
<1> DEFINE x == [sockets[k] EXCEPT !.state = "open"]
<1>2. sockets' = [sockets EXCEPT ![k] = x]
  BY <1>1 DEF SocketOpens, PanelInv, SocketsOK
<1>3. x.state = "open" /\ x.down = sockets[k].down
  BY <1>1 DEF SocketStates
<1> HIDE DEF x
<1>4. Ws' = k /\ sockets'[k] = x
  BY <1>1, <1>2, OneSocket DEF PanelInv
<1>5. sockets[k].state = "connecting"
  BY <1>1 DEF SocketOpens
<1>6. ~Busy(k)
  BY <1>5 DEF StreamInv, OpensIdle
<1>7. Down(k)' = <<>>
  BY <1>3, <1>4, <1>6 DEF Down, Busy
<1>8. StreamEnds'
  <2>1. UNCHANGED <<streaming, residue>>
    BY DEF SocketOpens, view, history
  <2>2. ~(streaming # <<>> /\ ~residue)
    BY <1>1, <1>5 DEF StreamInv, StreamEnds
  <2>3. QED
    BY <2>1, <2>2 DEF StreamEnds
<1>9. \A i \in 1..Len(Down(k)') : Down(k)'[i].type = "chat.delta" => EndComes(k, i)'
  BY <1>7
<1>10. QED
  BY <1>2, <1>3, <1>8, <1>9, SocketChange DEF PanelInv

(* The page takes a frame.                                                 *)
LEMMA FrameStream == ASSUME PanelInv, StreamInv, TakeFrame PROVE StreamInv'
<1>1. PICK k \in 1..Ws : k = Ws /\ k \in 1..Len(sockets) /\ sockets[k] \in SocketStates(N)
  BY LastOne
<1> DEFINE x == [sockets[k] EXCEPT !.down = Tail(sockets[k].down)]
<1>2. sockets' = [sockets EXCEPT ![k] = x]
  BY <1>1 DEF TakeFrame, PanelInv, SocketsOK
<1>3. x.state = sockets[k].state /\ x.down = Tail(sockets[k].down) /\ x.serving = sockets[k].serving
  BY <1>1 DEF SocketStates
<1> HIDE DEF x
<1>4. Ws' = k /\ sockets'[k] = x
  BY <1>1, <1>2, OneSocket DEF PanelInv
<1>5. /\ sockets[k].state = "open" /\ Down(k) # <<>> /\ Frame = Down(k)[1]
      /\ Down(k) \in Seq(DownFrames(N)) /\ Len(Down(k)) \in Nat
  BY <1>1, DownType DEF TakeFrame, Down, Frame
<1>6. /\ Len(Down(k)') = Len(Down(k)) - 1
      /\ \A i \in 1..Len(Down(k)') : Down(k)'[i] = Down(k)[i + 1] /\ i + 1 \in 1..Len(Down(k))
  <2>1. Down(k)' = Tail(Down(k))
    BY <1>3, <1>4 DEF Down
  <2>2. QED
    BY <1>5, <2>1
<1>7. ASSUME NEW i \in Nat, EndComes(k, i + 1) PROVE EndComes(k, i)'
  <2>1. CASE sockets[k].serving # Idle
    BY <1>3, <1>4, <2>1 DEF EndComes
  <2>2. ASSUME NEW j \in 1..Len(Down(k)), j > i + 1, Down(k)[j].type \in Ends
        PROVE  EndComes(k, i)'
    <3>1. j - 1 \in 1..Len(Down(k)') /\ j - 1 > i
      BY <1>5, <1>6, <1>7, <2>2
    <3>2. Down(k)'[j - 1] = Down(k)[j]
      BY <1>6, <3>1
    <3>3. QED
      BY <2>2, <3>1, <3>2 DEF EndComes
  <2>3. QED
    BY <1>7, <2>1, <2>2 DEF EndComes
<1>8. \A i \in 1..Len(Down(k)') : Down(k)'[i].type = "chat.delta" => EndComes(k, i)'
  <2> SUFFICES ASSUME NEW i \in 1..Len(Down(k)'), Down(k)'[i].type = "chat.delta"
               PROVE  EndComes(k, i)'
    OBVIOUS
  <2>1. Down(k)[i + 1].type = "chat.delta" /\ i + 1 \in 1..Len(Down(k))
    BY <1>6
  <2>2. EndComes(k, i + 1) /\ i \in Nat
    BY <1>5, <1>6, <2>1 DEF StreamInv, DeltasEnd
  <2>3. QED
    BY <1>7, <2>2
<1>9. StreamEnds'
  <2>1. CASE TakeDone \/ TakeError
    BY <2>1 DEF TakeDone, TakeError, StreamEnds
  <2>2. CASE TakeDelta
    <3>1. Frame.type = "chat.delta" /\ 1 \in 1..Len(Down(k))
      BY <1>5, <2>2 DEF TakeDelta
    <3>2. EndComes(k, 1)
      BY <1>5, <3>1 DEF StreamInv, DeltasEnd
    <3>3. EndComes(k, 0)'
      BY <1>7, <3>2
    <3>4. QED
      BY <1>3, <1>4, <1>5, <3>3 DEF StreamEnds, EndComes, Down
  <2>3. CASE TakeToolCall
    <3>1. UNCHANGED <<streaming, residue>> /\ Frame.type = "chat.tool_call"
      BY <2>3 DEF TakeToolCall
    <3>2. EndComes(k, 0) => EndComes(k, 0 + 1)
      <4>1. Down(k)[1].type \notin Ends
        BY <1>5, <3>1 DEF Ends
      <4>2. \A j \in 1..Len(Down(k)) : j > 0 /\ Down(k)[j].type \in Ends => j > 0 + 1
        BY <1>5, <4>1
      <4>3. QED
        BY <4>2 DEF EndComes
    <3>3. streaming # <<>> /\ ~residue => EndComes(k, 0)'
      BY <1>1, <1>7, <3>2 DEF StreamInv, StreamEnds
    <3>4. QED
      BY <1>3, <1>4, <1>5, <3>1, <3>3 DEF StreamEnds, EndComes, Down
  <2>4. QED
    BY <2>1, <2>2, <2>3 DEF TakeFrame
<1>10. QED
  BY <1>2, <1>3, <1>5, <1>8, <1>9, SocketChange DEF PanelInv

(* What a handler does to its socket: it goes on serving, or sends an end  *)
(* to whoever hears it.                                                    *)
LEMMA HandlerEffect ==
    ASSUME PanelInv, NEW k \in 1..Ws, Handler(k)
    PROVE  \E x :
              /\ sockets' = [sockets EXCEPT ![k] = x]
              /\ x.state = sockets[k].state
              /\ \/ x.serving # Idle
                 \/ sockets[k].state # "open" /\ x.down = <<>>
                 \/ \E frame : frame.type \in Ends /\ x.down = Append(Down(k), frame)
<1>1. /\ k \in 1..Len(sockets) /\ sockets[k] \in SocketStates(N) /\ SocketsOK
      /\ sockets[k].state # "open" => Down(k) = <<>>
  BY DownType DEF PanelInv
<1>2. ASSUME NEW frame, frame.type \in Ends
      PROVE  \/ sockets[k].state # "open" /\ Heard(k, frame) = <<>>
             \/ Heard(k, frame) = Append(Down(k), frame)
  BY <1>1 DEF Heard, Down
<1>3. ASSUME NEW frame, NEW serving, Served(k, frame, serving), serving # Idle \/ frame.type \in Ends
      PROVE  \E x :
              /\ sockets' = [sockets EXCEPT ![k] = x]
              /\ x.state = sockets[k].state
              /\ \/ x.serving # Idle
                 \/ sockets[k].state # "open" /\ x.down = <<>>
                 \/ \E f : f.type \in Ends /\ x.down = Append(Down(k), f)
  <2> DEFINE x == [sockets[k] EXCEPT !.down = Heard(k, frame), !.serving = serving]
  <2>1. sockets' = [sockets EXCEPT ![k] = x]
    BY <1>1, <1>3 DEF Served, SocketsOK
  <2>2. x.state = sockets[k].state /\ x.down = Heard(k, frame) /\ x.serving = serving
    BY <1>1 DEF SocketStates
  <2> HIDE DEF x
  <2>3. QED
    BY <1>2, <1>3, <2>1, <2>2
<1>4. CASE HandlerTakes(k)
  <2> DEFINE f == Head(sockets[k].up)
             refusal == [type |-> "chat.error", session |-> f.session, turn |-> f.turn, part |-> 0]
             serving == [session |-> f.session, turn |-> f.turn, sent |-> 0]
             taken == [sockets[k] EXCEPT !.up = Tail(sockets[k].up), !.serving = serving]
             refused == [sockets[k] EXCEPT !.up = Tail(sockets[k].up), !.down = Heard(k, refusal)]
  <2>1. sockets' = [sockets EXCEPT ![k] = taken] \/ sockets' = [sockets EXCEPT ![k] = refused]
    <3>1. CASE Exists(f.session)
      BY <1>1, <1>4, <3>1 DEF HandlerTakes, SocketsOK
    <3>2. CASE ~Exists(f.session)
      BY <1>1, <1>4, <3>2 DEF HandlerTakes, SocketsOK
    <3>3. QED
      BY <3>1, <3>2
  <2>2. serving # Idle
    <3>1. sockets[k].up # <<>> /\ sockets[k].up \in Seq(UpFrames(N))
      BY <1>1, <1>4 DEF HandlerTakes, SocketStates
    <3>2. f.turn \in 1..N
      <4>1. f = Up(k)[1] /\ 1 \in 1..Len(Up(k))
        BY <3>1 DEF Up
      <4>2. QED
        BY <4>1, UpType
    <3>3. serving.turn # Idle.turn
      BY <3>2, UpType DEF Idle
    <3>4. QED
      BY <3>3
  <2>3. refusal.type \in Ends
    BY DEF Ends
  <2> HIDE DEF f, serving, refusal
  <2>4. taken.state = sockets[k].state /\ taken.serving = serving
    BY <1>1 DEF SocketStates
  <2>5. refused.state = sockets[k].state /\ refused.down = Heard(k, refusal)
    BY <1>1 DEF SocketStates
  <2> HIDE DEF taken, refused
  <2>6. QED
    BY <1>2, <2>1, <2>2, <2>3, <2>4, <2>5
<1>5. CASE HandlerEnds(k)
  <2> DEFINE x == [sockets[k] EXCEPT !.up = <<>>, !.serving = Idle]
  <2>1. sockets' = [sockets EXCEPT ![k] = x] /\ sockets[k].state = "closed"
    BY <1>1, <1>5 DEF HandlerEnds, SocketsOK
  <2>2. x.state = sockets[k].state /\ x.down = sockets[k].down
    BY <1>1 DEF SocketStates
  <2> HIDE DEF x
  <2>3. QED
    BY <1>1, <2>1, <2>2 DEF Down
<1>6. CASE HandlerStreams(k)
  <2> DEFINE next == [sockets[k].serving EXCEPT !.sent = @ + 1]
  <2>1. next # Idle
    <3>1. sockets[k].serving # Idle /\ sockets[k].serving \in Servings(N)
      BY <1>1, <1>6 DEF HandlerStreams, SocketStates
    <3>2. sockets[k].serving \in [session : Sessions, turn : 1..N, sent : 0..Parts]
      BY <3>1 DEF Servings
    <3>3. next.turn \in 1..N
      BY <3>2
    <3> HIDE DEF next
    <3>4. N \in Nat /\ Idle.turn = 0
      BY UpType DEF Idle
    <3>5. QED
      BY <3>3, <3>4
  <2>2. QED
    BY <1>3, <1>6, <2>1 DEF HandlerStreams
<1>7. CASE HandlerCallsTool(k)
  BY <1>3, <1>7 DEF HandlerCallsTool
<1>8. ASSUME NEW type \in Ends PROVE FrameOf(k, type).type \in Ends
  BY DEF FrameOf
<1>9. CASE HandlerFinishes(k)
  <2>1. FrameOf(k, "chat.done").type \in Ends
    BY <1>8 DEF Ends
  <2>2. QED
    BY <1>3, <1>9, <2>1 DEF HandlerFinishes
<1>10. CASE HandlerFails(k)
  <2>1. FrameOf(k, "chat.error").type \in Ends
    BY <1>8 DEF Ends
  <2>2. QED
    BY <1>3, <1>10, <2>1 DEF HandlerFails
<1>11. QED
  BY <1>4, <1>5, <1>6, <1>7, <1>9, <1>10 DEF Handler

LEMMA HandlerStream == ASSUME PanelInv, StreamInv, NEW k \in 1..Ws, Handler(k) PROVE StreamInv'
<1>1. PICK x :
        /\ sockets' = [sockets EXCEPT ![k] = x] /\ x.state = sockets[k].state
        /\ \/ x.serving # Idle
           \/ sockets[k].state # "open" /\ x.down = <<>>
           \/ \E frame : frame.type \in Ends /\ x.down = Append(Down(k), frame)
  BY HandlerEffect
<1>2. Ws' = Ws /\ sockets'[k] = x /\ \A l \in 1..Ws : l # k => sockets'[l] = sockets[l]
  BY <1>1, OneSocket DEF PanelInv
<1>3. UNCHANGED <<streaming, residue>>
  BY DEF Handler, view
<1>4. Down(k)' = x.down /\ (x.serving # Idle => \A i : EndComes(k, i)')
  BY <1>2 DEF Down, EndComes
<1>5. ASSUME NEW frame, frame.type \in Ends, x.down = Append(Down(k), frame)
      PROVE  /\ EndComes(k, 0)'
             /\ \A i \in 1..Len(Down(k)') : Down(k)'[i].type = "chat.delta" => EndComes(k, i)'
  <2> DEFINE d == Down(k)
             n == Len(d) + 1
  <2>1. d \in Seq(DownFrames(N)) /\ Len(d) \in Nat
    BY DownType
  <2>2. Down(k)' = Append(d, frame)
    BY <1>4, <1>5
  <2>3. Len(Down(k)') = n /\ Down(k)'[n] = frame
    BY <2>1, <2>2
  <2> HIDE DEF d
  <2>4. \A i \in 0..(n - 1) : EndComes(k, i)'
    BY <1>5, <2>1, <2>3 DEF EndComes
  <2>5. frame.type # "chat.delta"
    BY <1>5 DEF Ends
  <2>6. \A i \in 1..n : Down(k)'[i].type = "chat.delta" => i \in 0..(n - 1)
    BY <2>1, <2>3, <2>5
  <2>7. QED
    BY <2>1, <2>3, <2>4, <2>6
<1>6. \A i \in 1..Len(Down(k)') : Down(k)'[i].type = "chat.delta" => EndComes(k, i)'
  <2>1. CASE x.down = <<>>
    BY <1>4, <2>1
  <2>2. QED
    BY <1>1, <1>4, <1>5, <2>1
<1>7. x.state # "connecting"
  <2>1. Busy(k)
    BY DEF Handler, HandlerTakes, HandlerStreams, HandlerCallsTool, HandlerFinishes, HandlerFails,
           HandlerEnds, Busy
  <2>2. QED
    BY <1>1, <2>1 DEF StreamInv, OpensIdle
<1>8. StreamEnds'
  <2> SUFFICES ASSUME streaming # <<>>, ~residue
               PROVE  sockets'[Ws].state = "open" /\ EndComes(Ws, 0)'
    BY <1>2, <1>3 DEF StreamEnds
  <2>1. sockets[Ws].state = "open" /\ EndComes(Ws, 0)
    BY DEF StreamInv, StreamEnds
  <2>2. CASE k = Ws
    <3>1. EndComes(k, 0)'
      BY <1>1, <1>4, <1>5, <2>1, <2>2
    <3>2. QED
      BY <1>1, <1>2, <2>1, <2>2, <3>1 DEF EndComes, Down
  <2>3. CASE k # Ws
    <3>1. sockets'[Ws] = sockets[Ws]
      BY <1>2, <2>3, LastOne
    <3>2. QED
      BY <1>2, <2>1, <3>1 DEF EndComes, Down
  <2>4. QED
    BY <2>2, <2>3
<1>9. QED
  BY <1>1, <1>6, <1>7, <1>8, SocketChange DEF PanelInv

LEMMA ChatStream == ASSUME PanelInv, StreamInv, ChatNext PROVE StreamInv'
<1>1. CASE UserActs
  <2>1. ASSUME NEW op, NEW id, NEW arg, Ask(op, id, arg) PROVE StreamInv'
    BY <2>1, StreamKept DEF Ask, view, history
  <2>2. ASSUME NEW id, SelectSession(id) PROVE StreamInv'
    BY <2>2, StreamKept DEF SelectSession, history
  <2>3. CASE ToggleSearch
    BY <2>3, StreamKept DEF ToggleSearch, history
  <2>4. QED
    BY <1>1, <2>1, <2>2, <2>3, SendStream, TypeStream
    DEF UserActs, PinSession, ArchiveSession, DeleteSession, SetSessionModel, NewSession
<1>2. CASE ServerAnswers \/ TakeAnswer \/ FetchFails
  BY <1>2, StreamKept DEF ServerAnswers, TakeAnswer, FetchFails, view, history
<1>3. CASE CopyStreaming
  BY <1>3, StreamKept DEF CopyStreaming, history
<1>4. QED
  BY <1>1, <1>2, <1>3, OpensStream, ClosedStream, FrameStream, HandlerStream DEF ChatNext

-----------------------------------------------------------------------------
(* Bags again: what stays when a record is taken out.                      *)
LEMMA BagCopies == ASSUME NEW B, IsABag(B), NEW e \in DOMAIN B PROVE B[e] \in Nat /\ B[e] > 0
<1>1. B \in [DOMAIN B -> {n \in Nat : n > 0}]
  BY DEF IsABag
<1>2. B[e] \in {n \in Nat : n > 0}
  BY <1>1
<1>3. QED
  BY <1>2

LEMMA BagStays ==
    ASSUME NEW B, IsABag(B), NEW r, NEW q \in BagToSet(B), q # r
    PROVE  q \in BagToSet(B (-) SetToBag({r}))
<1>1. q \in DOMAIN B /\ B[q] \in Nat /\ B[q] > 0
  BY BagCopies DEF BagToSet
<1>2. q \notin DOMAIN SetToBag({r})
  BY DEF SetToBag
<1>3. QED
  BY <1>1, <1>2 DEF BagToSet, (-)

LEMMA SetIsBag == ASSUME NEW S PROVE IsABag(SetToBag(S)) /\ BagToSet(SetToBag(S)) = S
  BY DEF IsABag, SetToBag, BagToSet

LEMMA BagAfterPut == ASSUME NEW B, NEW C, IsABag(B), IsABag(C) PROVE IsABag(B (+) C)
<1> DEFINE D == B (+) C
<1>1. DOMAIN D = DOMAIN B \cup DOMAIN C
  BY DEF (+)
<1>2. ASSUME NEW e \in DOMAIN D PROVE D[e] \in Nat /\ D[e] > 0
  <2>1. e \in DOMAIN B => B[e] \in Nat /\ B[e] > 0
    BY BagCopies
  <2>2. e \in DOMAIN C => C[e] \in Nat /\ C[e] > 0
    BY BagCopies
  <2>3. D[e] = (IF e \in DOMAIN B THEN B[e] ELSE 0) + (IF e \in DOMAIN C THEN C[e] ELSE 0)
    BY <1>1, <1>2 DEF (+)
  <2> HIDE DEF D
  <2>4. QED
    BY <1>1, <1>2, <2>1, <2>2, <2>3
<1>3. D = [e \in DOMAIN D |-> D[e]]
  BY DEF (+)
<1> HIDE DEF D
<1>4. D \in [DOMAIN D -> {n \in Nat : n > 0}]
  BY <1>2, <1>3
<1>5. QED
  BY <1>4 DEF IsABag, D

LEMMA BagAfterTake == ASSUME NEW B, NEW C, IsABag(B), IsABag(C) PROVE IsABag(B (-) C)
<1> DEFINE D == B (-) C
<1>1. ASSUME NEW e \in DOMAIN D PROVE D[e] \in Nat /\ D[e] > 0
  <2>1. e \in DOMAIN B
    BY <1>1 DEF (-)
  <2>2. B[e] \in Nat
    BY <2>1, BagCopies
  <2>3. e \in DOMAIN C => C[e] \in Nat
    BY BagCopies
  <2>4. D[e] = (IF e \in DOMAIN C THEN B[e] - C[e] ELSE B[e]) /\ D[e] > 0
    BY <1>1, <2>1 DEF (-)
  <2> HIDE DEF D
  <2>5. QED
    BY <2>2, <2>3, <2>4
<1>2. D = [e \in DOMAIN D |-> D[e]]
  BY DEF (-)
<1> HIDE DEF D
<1>3. D \in [DOMAIN D -> {n \in Nat : n > 0}]
  BY <1>1, <1>2
<1>4. QED
  BY <1>3 DEF IsABag, D

-----------------------------------------------------------------------------
(* The list.  Where the page does not have the last list that C1 gave for  *)
(* the text the page asked with last, an answer with it is under way, or a *)
(* request for it.  Where that list is not what the server has by now, it  *)
(* is asked for, or something is under way that has the page ask again.    *)
Asks(r) == r.op = "list" /\ r.query = askedText
Brings(r) == Asks(r) /\ r.got \in {Pending, Listed(givenList[askedText])}
Relists(r, id) ==
    \/ r.op = "create" /\ r.got = Created(id)
    \/ r.op \in {"pin", "archive", "delete"} /\ r.id = id
Tells(k, id) ==
    \/ sockets[k].serving.session = id
    \/ \E i \in 1..Len(Down(k)) : Down(k)[i].type = "chat.done" /\ Down(k)[i].session = id

NetBag == IsABag(net)
Asking == \E r \in BagToSet(net) : Asks(r) /\ r.got = Pending
ListFresh ==
    ~listBlurred => sessions = givenList[askedText] \/ \E r \in BagToSet(net) : Brings(r)

RowFresh(id) ==
    LET given == givenList[askedText]
        now == Listing(askedText)
    IN  /\ id \in DOMAIN given <=> id \in DOMAIN now
        /\ id \in DOMAIN now => given[id] = now[id]
RowComes(id) ==
    \/ Asking
    \/ \E r \in BagToSet(net) : Relists(r, id)
    \/ \E k \in 1..Ws : Tells(k, id)
RowsFresh == \A id \in Sessions \ unlisted : RowFresh(id) \/ RowComes(id)

ListInv == NetBag /\ ListFresh /\ RowsFresh

LEMMA ListSuffices == ListInv => ListTruthful
<1> SUFFICES ASSUME ListInv, AtRest, ~listBlurred, NEW id \in Sessions \ unlisted
             PROVE  /\ id \in DOMAIN sessions <=> id \in DOMAIN Listing(askedText)
                    /\ id \in DOMAIN Listing(askedText) =>
                         sessions[id] = Listing(askedText)[id]
  BY DEF ListTruthful
<1>1. BagToSet(net) = {}
  BY EmptyIsBag DEF AtRest
<1>2. sessions = givenList[askedText]
  BY <1>1 DEF ListInv, ListFresh
<1>3. ASSUME NEW k \in 1..Ws PROVE ~Tells(k, id)
  <2>1. sockets[k].serving = Idle /\ Down(k) = <<>>
    BY DEF AtRest, Busy, Down
  <2>2. None # id
    BY ChatTypesAssumption
  <2>3. QED
    BY <2>1, <2>2 DEF Tells, Idle
<1>4. RowFresh(id)
  BY <1>1, <1>3 DEF ListInv, RowsFresh, RowComes, Asking
<1>5. QED
  BY <1>2, <1>4 DEF RowFresh

(* The list that was asked for for the first time is under way.            *)
LEMMA ListComes == ASSUME NetBag', Asking' PROVE ListInv'
<1>1. ListFresh'
  BY DEF ListFresh, Brings, Asking
<1>2. RowsFresh'
  BY DEF RowsFresh, RowComes
<1>3. QED
  BY <1>1, <1>2 DEF ListInv

LEMMA ListAsked ==
    ASSUME IsABag(net'), NEW query, List(query) \in BagToSet(net'), askedText' = query
    PROVE  ListInv'
<1>1. List(query).op = "list" /\ List(query).query = query /\ List(query).got = Pending
  BY DEF List, Request
<1>2. Asking'
  BY <1>1 DEF Asking, Asks
<1>3. QED
  BY <1>2, ListComes DEF NetBag

LEMMA ListInit == ChatInit => ListInv
<1> SUFFICES ASSUME ChatInit PROVE ListInv
  OBVIOUS
<1>1. net = SetToBag({List("")}) /\ askedText = ""
  BY DEF ChatInit
<1>2. IsABag(net) /\ BagToSet(net) = {List("")}
  BY <1>1, SetIsBag
<1>3. Asks(List("")) /\ List("").got = Pending
  BY <1>1 DEF Asks, List, Request
<1>4. QED
  BY <1>2, <1>3 DEF ListInv, NetBag, ListFresh, RowsFresh, RowComes, Brings, Asking

(* What the steps do to the bag of requests.                               *)
LEMMA PutNet ==
    ASSUME NEW B, IsABag(B), NEW S
    PROVE  IsABag(B (+) SetToBag(S)) /\ BagToSet(B (+) SetToBag(S)) = BagToSet(B) \cup S
<1>1. IsABag(SetToBag(S)) /\ BagToSet(SetToBag(S)) = S
  BY SetIsBag
<1>2. BagToSet(B (+) SetToBag(S)) = BagToSet(B) \cup BagToSet(SetToBag(S))
  BY DEF BagToSet, (+)
<1>3. QED
  BY <1>1, <1>2, BagAfterPut

LEMMA TakeNet ==
    ASSUME NetBag, NEW r
    PROVE  /\ IsABag(Without(r)) /\ BagToSet(Without(r)) \subseteq BagToSet(net)
           /\ \A q \in BagToSet(net) : q # r => q \in BagToSet(Without(r))
  BY SetIsBag, BagAfterTake, BagTake, BagStays DEF NetBag, Without

LEMMA InsteadNet ==
    ASSUME NetBag, NEW r, NEW next
    PROVE  /\ IsABag(Instead(r, next)) /\ next \in BagToSet(Instead(r, next))
           /\ \A q \in BagToSet(net) : q # r => q \in BagToSet(Instead(r, next))
           /\ BagToSet(Instead(r, next)) \subseteq BagToSet(net) \cup {next}
  BY TakeNet, PutNet DEF Instead

LEMMA SelectNet ==
    ASSUME NEW id, NEW others, IsABag(others), Select(id, others)
    PROVE  /\ IsABag(net') /\ BagToSet(others) \subseteq BagToSet(net')
           /\ BagToSet(net') \subseteq BagToSet(others) \cup {Load(id)}
           /\ id \notin {activeId, None} => Load(id) \in BagToSet(net')
<1> DEFINE S == IF id \in {activeId, None} THEN {} ELSE {Load(id)}
<1>1. net' = others (+) SetToBag(S)
  BY DEF Select
<1>2. S \subseteq {Load(id)} /\ (id \notin {activeId, None} => Load(id) \in S)
  OBVIOUS
<1> HIDE DEF S
<1>3. QED
  BY <1>1, <1>2, PutNet

(* A row stays fresh if its session is as it was.                          *)
LEMMA RowStays ==
    ASSUME NEW id \in Sessions, RowFresh(id), askedText' = askedText,
           givenList'[askedText] = givenList[askedText],
           status'[id] = status[id], pinned'[id] = pinned[id], model'[id] = model[id],
           stored'[id] = stored[id]
    PROVE  RowFresh(id)'
<1>1. /\ Found(askedText, id)' <=> Found(askedText, id)
      /\ Summary(id)' = Summary(id)
  BY DEF Found, Summary, Title
<1>2. /\ id \in DOMAIN Listing(askedText)' <=> id \in DOMAIN Listing(askedText)
      /\ id \in DOMAIN Listing(askedText)' =>
           Listing(askedText)'[id] = Listing(askedText)[id]
  BY <1>1 DEF Listing
<1>3. QED
  BY <1>2 DEF RowFresh

(* What is under way goes on: all that goes are loads and changes of the   *)
(* model.                                                                  *)
Lists(r) == r.op \notin {"load", "model"}
ListsStay == \A q \in BagToSet(net) : Lists(q) => q \in BagToSet(net')
TellsStay ==
    \A id \in Sessions \ unlisted' :
        (\E k \in 1..Ws : Tells(k, id)) => (\E k \in 1..Ws : Tells(k, id))'

LEMMA ComesStill ==
    ASSUME ListsStay, TellsStay, askedText' = askedText,
           NEW id \in Sessions \ unlisted', RowComes(id)
    PROVE  RowComes(id)'
  BY DEF RowComes, Asking, Asks, Relists, ListsStay, Lists, TellsStay

LEMMA ListKept ==
    ASSUME ListInv, NetBag', ListsStay, TellsStay, unlisted \subseteq unlisted',
           UNCHANGED <<sessions, askedText, givenList, listBlurred, server>>
    PROVE  ListInv'
<1>1. ListFresh'
  BY DEF ListInv, ListFresh, ListsStay, Lists, Brings, Asks
<1>2. ASSUME NEW id \in Sessions \ unlisted' PROVE RowFresh(id)' \/ RowComes(id)'
  <2>1. RowFresh(id) \/ RowComes(id)
    BY <1>2 DEF ListInv, RowsFresh
  <2>2. RowFresh(id) => RowFresh(id)'
    BY <1>2, RowStays DEF server
  <2>3. QED
    BY <1>2, <2>1, <2>2, ComesStill
<1>3. QED
  BY <1>1, <1>2 DEF ListInv, RowsFresh

LEMMA SameTells == ASSUME UNCHANGED sockets PROVE TellsStay
  BY DEF TellsStay, Tells, Down, Ws

LEMMA MoreUnderWay ==
    ASSUME BagToSet(net) \subseteq BagToSet(net')
    PROVE  ListsStay
  BY DEF ListsStay

LEMMA SameNet == ASSUME ListInv, UNCHANGED net PROVE NetBag' /\ ListsStay
  BY DEF ListInv, NetBag, ListsStay

LEMMA UserList == ASSUME PanelInv, ListInv, UserActs PROVE ListInv'
<1>1. ASSUME NEW op, NEW id, NEW arg, Ask(op, id, arg) PROVE ListInv'
  <2>1. NetBag' /\ BagToSet(net) \subseteq BagToSet(net')
    BY <1>1, PutNet DEF Ask, Added, ListInv, NetBag
  <2>2. QED
    BY <1>1, <2>1, ListKept, MoreUnderWay, SameTells DEF Ask, view, history, listHistory
<1>2. ASSUME NEW id, SelectSession(id) PROVE ListInv'
  <2>1. NetBag' /\ BagToSet(net) \subseteq BagToSet(net')
    BY <1>2, SelectNet DEF SelectSession, ListInv, NetBag
  <2>2. QED
    BY <1>2, <2>1, ListKept, MoreUnderWay, SameTells DEF SelectSession, listHistory
<1>3. CASE Send
  <2>1. UNCHANGED <<sessions, net, server, listHistory>>
    BY <1>3 DEF Send
  <2> DEFINE frame == [session |-> activeId, turn |-> Len(typed) + 1]
             x == [sockets[Ws] EXCEPT !.up = Append(@, frame)]
  <2>2. /\ Ws \in 1..Len(sockets) /\ sockets[Ws] \in SocketStates(N)
        /\ sockets' = sockets \/ sockets' = [sockets EXCEPT ![Ws] = x]
    BY <1>3, LastSocket DEF Send, PanelInv, SocketsOK
  <2> HIDE DEF frame
  <2>3. x.down = sockets[Ws].down /\ x.serving = sockets[Ws].serving
    BY <2>2 DEF SocketStates
  <2> HIDE DEF x
  <2>4. Ws' = Ws /\ \A k \in 1..Ws : /\ sockets'[k].down = sockets[k].down
                                     /\ sockets'[k].serving = sockets[k].serving
    BY <2>2, <2>3 DEF PanelInv, SocketsOK, Ws
  <2>5. TellsStay
    BY <2>4 DEF TellsStay, Tells, Down
  <2>6. QED
    BY <2>1, <2>5, ListKept, SameNet DEF listHistory
<1>4. CASE ToggleSearch
  BY <1>4, ListKept, SameNet, SameTells DEF ToggleSearch, history, listHistory
<1>5. ASSUME NEW q, Type(q) PROVE ListInv'
  <2>1. IsABag(net') /\ List(q) \in BagToSet(net') /\ askedText' = q
    BY <1>5, PutNet DEF Type, Added, ListInv, NetBag
  <2>2. QED
    BY <2>1, ListAsked
<1>6. QED
  BY <1>1, <1>2, <1>3, <1>4, <1>5
  DEF UserActs, PinSession, ArchiveSession, DeleteSession, SetSessionModel, NewSession

(* C1 answers: a list is the one it has; and who is told that a session    *)
(* changed asks again.                                                     *)
LEMMA ServerList == ASSUME PanelInv, GivenOK, ListInv, ServerAnswers PROVE ListInv'
<1>1. PICK r \in BagToSet(net) :
        /\ r.got = Pending
        /\ AnswerList(r) \/ AnswerLoad(r) \/ AnswerCreate(r) \/ AnswerPatch(r) \/ AnswerDelete(r)
        /\ UNCHANGED <<view, sockets, askedText, listBlurred>>
  BY DEF ServerAnswers
<1>2. PICK got : net' = Instead(r, [r EXCEPT !.got = got]) /\ Reply(r, got)
  BY <1>1 DEF AnswerList, AnswerLoad, AnswerCreate, AnswerPatch, AnswerDelete, Reply
<1> DEFINE reply == [r EXCEPT !.got = got]
<1>3. /\ r = [op |-> r.op, id |-> r.id, arg |-> r.arg, query |-> r.query, got |-> r.got]
      /\ r.query \in Queries
  BY DEF PanelInv, NetOK, RequestOK, IsRequest
<1>4. reply.op = r.op /\ reply.id = r.id /\ reply.query = r.query /\ reply.got = got
  BY <1>3
<1> HIDE DEF reply
<1>5. /\ NetBag' /\ reply \in BagToSet(net')
      /\ \A q \in BagToSet(net) : q # r => q \in BagToSet(net')
  BY <1>2, InsteadNet DEF reply, ListInv, NetBag
<1>6. sessions' = sessions /\ TellsStay
  BY <1>1, SameTells DEF view
<1>7. ASSUME r.op # "list", UNCHANGED givenList PROVE ListFresh'
  <2>1. ASSUME NEW q \in BagToSet(net), Brings(q) PROVE q \in BagToSet(net')
    BY <1>5, <1>7, <2>1 DEF Brings, Asks
  <2>2. QED
    BY <1>1, <1>6, <1>7, <2>1 DEF ListInv, ListFresh, Brings, Asks
<1>8. ASSUME r.op # "list", UNCHANGED givenList, unlisted \subseteq unlisted',
             \A id \in Sessions \ unlisted' :
                 \/ Relists(reply, id)
                 \/ /\ ~Relists(r, id)
                    /\ status'[id] = status[id] /\ pinned'[id] = pinned[id]
                    /\ model'[id] = model[id] /\ stored'[id] = stored[id]
      PROVE  ListInv'
  <2>1. ASSUME NEW id \in Sessions \ unlisted' PROVE RowFresh(id)' \/ RowComes(id)'
    <3>1. CASE Relists(reply, id)
      BY <1>5, <3>1 DEF RowComes, Relists
    <3>2. CASE /\ ~Relists(r, id)
               /\ status'[id] = status[id] /\ pinned'[id] = pinned[id]
               /\ model'[id] = model[id] /\ stored'[id] = stored[id]
      <4>1. RowFresh(id) => RowFresh(id)'
        BY <1>1, <1>8, <2>1, <3>2, RowStays
      <4>2. ASSUME Asking PROVE Asking'
        BY <1>1, <1>5, <1>8, <4>2 DEF Asking, Asks
      <4>3. ASSUME NEW q \in BagToSet(net), Relists(q, id) PROVE q \in BagToSet(net')
        BY <1>5, <3>2, <4>3
      <4>4. RowComes(id) => RowComes(id)'
        BY <1>6, <2>1, <4>2, <4>3 DEF RowComes, Relists, TellsStay
      <4>5. QED
        BY <1>8, <2>1, <4>1, <4>4 DEF ListInv, RowsFresh
    <3>3. QED
      BY <1>8, <2>1, <3>1, <3>2
  <2>2. QED
    BY <1>5, <1>7, <1>8, <2>1 DEF ListInv, RowsFresh
<1>9. CASE AnswerList(r)
  <2>1. /\ r.op = "list" /\ UNCHANGED server /\ Reply(r, Listed(Listing(r.query)))
        /\ givenList' = [givenList EXCEPT ![r.query] = Listing(r.query)]
        /\ unlisted' = IF r.query = askedText THEN {} ELSE unlisted
    BY <1>9 DEF AnswerList
  <2>2. CASE r.query = askedText
    <3>1. givenList'[askedText] = Listing(askedText)
      BY <1>3, <2>1, <2>2 DEF GivenOK
    <3>2. Listing(askedText)' = Listing(askedText)
      BY <1>1, <2>1 DEF Listing, Found, Summary, Title, server
    <3>3. RowsFresh'
      BY <1>1, <3>1, <3>2 DEF RowsFresh, RowFresh
    <3>4. PICK answer : /\ answer = [r EXCEPT !.got = Listed(Listing(r.query))]
                        /\ net' = Instead(r, answer)
      BY <2>1 DEF Reply
    <3>5. answer.op = "list" /\ answer.query = askedText /\ answer.got = Listed(Listing(askedText))
      BY <1>3, <2>1, <2>2, <3>4
    <3>6. answer \in BagToSet(net')
      BY <3>4, InsteadNet DEF ListInv
    <3>7. Brings(answer)'
      BY <1>1, <3>1, <3>5 DEF Brings, Asks
    <3>8. QED
      BY <1>5, <3>3, <3>6, <3>7 DEF ListInv, ListFresh
  <2>3. CASE r.query # askedText
    <3>1. givenList'[askedText] = givenList[askedText] /\ unlisted' = unlisted
      BY <1>3, <2>1, <2>3 DEF GivenOK
    <3>2. \A q \in BagToSet(net) : Asks(q) => q \in BagToSet(net')
      BY <1>5, <2>3 DEF Asks
    <3>3. ListFresh'
      BY <1>1, <1>6, <3>1, <3>2 DEF ListInv, ListFresh, Brings, Asks
    <3>4. ASSUME NEW id \in Sessions \ unlisted PROVE RowFresh(id)' \/ RowComes(id)'
      <4>1. RowFresh(id) => RowFresh(id)'
        BY <1>1, <2>1, <3>1, RowStays DEF server
      <4>2. ASSUME Asking PROVE Asking'
        BY <1>1, <3>2, <4>2 DEF Asking, Asks
      <4>3. ASSUME NEW q \in BagToSet(net), Relists(q, id) PROVE q \in BagToSet(net')
        BY <1>5, <2>1, <4>3 DEF Relists
      <4>4. RowComes(id) => RowComes(id)'
        BY <1>6, <3>1, <4>2, <4>3 DEF RowComes, Relists, TellsStay
      <4>5. QED
        BY <4>1, <4>4 DEF ListInv, RowsFresh
    <3>5. QED
      BY <1>5, <3>1, <3>3, <3>4 DEF ListInv, RowsFresh
  <2>4. QED
    BY <2>2, <2>3
<1>10. CASE AnswerLoad(r)
  <2>1. r.op = "load" /\ UNCHANGED <<givenList, unlisted, server>>
    BY <1>10 DEF AnswerLoad
  <2>2. ListsStay
    BY <1>5, <2>1 DEF ListsStay, Lists
  <2>3. QED
    BY <1>1, <1>5, <1>6, <2>1, <2>2, ListKept
<1>11. CASE AnswerCreate(r)
  <2>1. PICK new \in Sessions :
          /\ status' = [status EXCEPT ![new] = "listed"]
          /\ Reply(r, Created(new)) /\ r.op = "create"
          /\ UNCHANGED <<pinned, model, stored, givenList, unlisted>>
    BY <1>11 DEF AnswerCreate
  <2> DEFINE answer == [r EXCEPT !.got = Created(new)]
  <2>2. net' = Instead(r, answer)
    BY <2>1 DEF Reply
  <2>3. answer.op = "create" /\ answer.got = Created(new)
    BY <1>3, <2>1
  <2> HIDE DEF answer
  <2>4. answer \in BagToSet(net')
    BY <2>2, InsteadNet DEF ListInv
  <2>5. ASSUME NEW id \in Sessions \ unlisted' PROVE RowFresh(id)' \/ RowComes(id)'
    <3>1. CASE id = new
      BY <2>3, <2>4, <3>1 DEF RowComes, Relists
    <3>2. CASE id # new
      <4>1. RowFresh(id) => RowFresh(id)'
        <5>1. status'[id] = status[id]
          BY <2>1, <3>2 DEF PanelInv, ServerOK
        <5>2. QED
          BY <1>1, <2>1, <2>5, <5>1, RowStays
      <4>2. ASSUME Asking PROVE Asking'
        BY <1>1, <1>5, <2>1, <4>2 DEF Asking, Asks
      <4>3. ~Relists(r, id)
        BY <1>1, <2>1 DEF Relists, Created, Pending
      <4>4. RowComes(id) => RowComes(id)'
        BY <1>5, <1>6, <2>5, <4>2, <4>3 DEF RowComes, Relists, TellsStay
      <4>5. QED
        BY <2>1, <2>5, <4>1, <4>4 DEF ListInv, RowsFresh
    <3>3. QED
      BY <3>1, <3>2
  <2>6. QED
    BY <1>5, <1>7, <2>1, <2>5 DEF ListInv, RowsFresh
<1>12. CASE AnswerPatch(r)
  <2>1. /\ r.op \in {"pin", "model"} /\ UNCHANGED <<status, stored, givenList>>
        /\ unlisted \subseteq unlisted'
    BY <1>12 DEF AnswerPatch
  <2>2. ASSUME NEW id \in Sessions \ unlisted', id # r.id
        PROVE  pinned'[id] = pinned[id] /\ model'[id] = model[id] /\ ~Relists(r, id)
    BY <1>12, <2>1, <2>2 DEF AnswerPatch, Relists, PanelInv, ServerOK
  <2>3. ASSUME NEW id \in Sessions \ unlisted', id = r.id, r.op = "pin"
        PROVE  Relists(reply, id)
    BY <1>4, <2>3 DEF Relists
  <2>4. ASSUME NEW id \in Sessions \ unlisted', id = r.id, r.op = "model"
        PROVE  pinned'[id] = pinned[id] /\ model'[id] = model[id] /\ ~Relists(r, id)
    BY <1>12, <2>4 DEF AnswerPatch, Relists
  <2>5. QED
    BY <1>8, <2>1, <2>2, <2>3, <2>4
<1>13. CASE AnswerDelete(r)
  <2>1. /\ r.op \in {"archive", "delete"}
        /\ UNCHANGED <<pinned, model, stored, givenList, unlisted>>
    BY <1>13 DEF AnswerDelete
  <2>2. ASSUME NEW id \in Sessions \ unlisted', id # r.id
        PROVE  status'[id] = status[id] /\ ~Relists(r, id)
    BY <1>13, <2>1, <2>2 DEF AnswerDelete, Relists, PanelInv, ServerOK
  <2>3. ASSUME NEW id \in Sessions \ unlisted', id = r.id PROVE Relists(reply, id)
    BY <1>4, <2>1, <2>3 DEF Relists
  <2>4. QED
    BY <1>8, <2>1, <2>2, <2>3
<1>14. QED
  BY <1>1, <1>9, <1>10, <1>11, <1>12, <1>13

LEMMA TakeListed == ASSUME ListInv, TakeAnswer PROVE ListInv'
<1>1. PICK r \in BagToSet(net) :
        /\ r.got # Pending
        /\ TakeList(r) \/ TakeLoad(r) \/ TakeCreated(r) \/ TakePatched(r) \/ TakeDeleted(r)
        /\ UNCHANGED <<sockets, server, givenList, unlisted>>
  BY DEF TakeAnswer
<1>2. NetBag /\ TellsStay
  BY <1>1, SameTells DEF ListInv
<1>3. CASE TakeList(r)
  <2>1. /\ r.op = "list" /\ net' = Without(r) /\ askedText' = askedText
        /\ ~listBlurred' => r.query = askedText /\ sessions' = givenList[r.query]
    BY <1>3 DEF TakeList
  <2>2. NetBag' /\ \A q \in BagToSet(net) : q # r => q \in BagToSet(net')
    BY <1>2, <2>1, TakeNet DEF NetBag
  <2>3. ListFresh'
    BY <1>1, <2>1 DEF ListFresh
  <2>4. ASSUME NEW id \in Sessions \ unlisted' PROVE RowFresh(id)' \/ RowComes(id)'
    <3>1. RowFresh(id) => RowFresh(id)'
      BY <1>1, <2>1, <2>4, RowStays DEF server
    <3>2. ASSUME Asking PROVE Asking'
      BY <1>1, <2>1, <2>2, <3>2 DEF Asking, Asks
    <3>3. ~Relists(r, id)
      BY <2>1 DEF Relists
    <3>4. RowComes(id) => RowComes(id)'
      BY <1>2, <2>2, <2>4, <3>2, <3>3 DEF RowComes, Relists, TellsStay
    <3>5. QED
      BY <1>1, <2>4, <3>1, <3>4 DEF ListInv, RowsFresh
  <2>5. QED
    BY <2>2, <2>3, <2>4 DEF ListInv, RowsFresh
<1>4. CASE TakeLoad(r)
  <2>1. /\ r.op = "load" /\ net' = Without(r)
        /\ UNCHANGED <<sessions, askedText, listBlurred>>
    BY <1>4 DEF TakeLoad
  <2>2. NetBag' /\ ListsStay
    BY <1>2, <2>1, TakeNet DEF ListsStay, Lists, NetBag
  <2>3. QED
    BY <1>1, <1>2, <2>1, <2>2, ListKept
<1>5. CASE TakeCreated(r) \/ TakeDeleted(r)
  <2>1. PICK id : Select(id, Instead(r, List(r.query)))
    BY <1>5 DEF TakeCreated, TakeDeleted
  <2>2. IsABag(net') /\ List(r.query) \in BagToSet(net') /\ askedText' = r.query
    BY <1>2, <1>5, <2>1, InsteadNet, SelectNet DEF TakeCreated, TakeDeleted
  <2>3. QED
    BY <2>2, ListAsked
<1>6. CASE TakePatched(r)
  <2>1. CASE net' = Instead(r, List(r.query)) /\ askedText' = r.query
    <3>1. IsABag(net') /\ List(r.query) \in BagToSet(net')
      BY <1>2, <2>1, InsteadNet
    <3>2. QED
      BY <2>1, <3>1, ListAsked
  <2>2. CASE r.op = "model" /\ net' = Instead(r, Load(r.id)) /\ askedText' = askedText
    <3>1. NetBag' /\ ListsStay
      BY <1>2, <2>2, InsteadNet DEF ListsStay, Lists, NetBag
    <3>2. UNCHANGED <<sessions, listBlurred>>
      BY <1>6 DEF TakePatched
    <3>3. QED
      BY <1>1, <1>2, <2>2, <3>1, <3>2, ListKept
  <2>3. QED
    BY <1>6, <2>1, <2>2 DEF TakePatched
<1>7. QED
  BY <1>1, <1>3, <1>4, <1>5, <1>6

(* A fetch that fails: what it would have told is not missed, or nothing.  *)
LEMMA FailList == ASSUME ListInv, FetchFails PROVE ListInv'
<1>1. PICK r \in BagToSet(net) :
        /\ net' = Without(r)
        /\ listBlurred' = (listBlurred \/ r.op = "list")
        /\ unlisted' = unlisted \cup Unlists(r)
        /\ UNCHANGED <<view, sockets, server, askedText, givenList>>
  BY DEF FetchFails
<1>2. NetBag' /\ \A q \in BagToSet(net) : q # r => q \in BagToSet(net')
  BY <1>1, TakeNet DEF ListInv, NetBag
<1>3. sessions' = sessions /\ TellsStay
  BY <1>1, SameTells DEF view
<1>4. ListFresh'
  <2> SUFFICES ASSUME ~listBlurred' PROVE ListFresh'
    BY DEF ListFresh
  <2>1. ~listBlurred /\ r.op # "list"
    BY <1>1
  <2>2. ASSUME NEW q \in BagToSet(net), Brings(q) PROVE q \in BagToSet(net')
    BY <1>2, <2>1, <2>2 DEF Brings, Asks
  <2>3. QED
    BY <1>1, <1>3, <2>1, <2>2 DEF ListInv, ListFresh, Brings, Asks
<1>5. ASSUME NEW id \in Sessions \ unlisted' PROVE RowFresh(id)' \/ RowComes(id)'
  <2>1. id \notin unlisted /\ ~Relists(r, id) /\ ~(Asks(r) /\ r.got = Pending)
    BY <1>1, <1>5 DEF Unlists, Relists, Asks
  <2>2. RowFresh(id) => RowFresh(id)'
    BY <1>1, <1>5, RowStays DEF server
  <2>3. ASSUME Asking PROVE Asking'
    BY <1>1, <1>2, <2>1, <2>3 DEF Asking, Asks
  <2>4. RowComes(id) => RowComes(id)'
    BY <1>2, <1>3, <1>5, <2>1, <2>3 DEF RowComes, Relists, TellsStay
  <2>5. QED
    BY <1>5, <2>1, <2>2, <2>4 DEF ListInv, RowsFresh
<1>6. QED
  BY <1>2, <1>4, <1>5 DEF ListInv, RowsFresh

(* A socket that is closed still serves; the ends of turns it had not told *)
(* are in unlisted.                                                        *)
LEMMA ClosedList ==
    ASSUME PanelInv, ListInv, SocketLost
    PROVE  ListInv'
<1> DEFINE x == [sockets[Ws] EXCEPT !.state = "closed", !.down = <<>>]
<1>1. x.serving = sockets[Ws].serving /\ sockets' = [sockets EXCEPT ![Ws] = x]
  BY ClosedSocket DEF SocketLost, PanelInv
<1> HIDE DEF x
<1>2. Ws' = Ws /\ Ws \in 1..Ws
  BY <1>1, LastSocket DEF PanelInv, SocketsOK, Ws
<1>3. \A k \in 1..Ws : sockets'[k] = IF k = Ws THEN x ELSE sockets[k]
  BY <1>1 DEF PanelInv, SocketsOK, Ws
<1>4. unlisted' = unlisted \cup Untold
  BY DEF SocketLost, Abandon
<1>5. ASSUME NEW id \in Sessions \ unlisted', NEW k \in 1..Ws, Tells(k, id)
      PROVE  Tells(k, id)'
  <2>1. CASE k # Ws
    BY <1>3, <1>5, <2>1 DEF Tells, Down
  <2>2. CASE k = Ws
    <3>1. id \notin Untold
      BY <1>4, <1>5
    <3>2. \A i \in 1..Len(Down(Ws)) :
            ~(Down(Ws)[i].type = "chat.done" /\ Down(Ws)[i].session = id)
      BY <3>1 DEF Untold, Down
    <3>3. sockets[Ws].serving.session = id
      BY <1>5, <2>2, <3>2 DEF Tells
    <3>4. QED
      BY <1>1, <1>3, <2>2, <3>3 DEF Tells
  <2>3. QED
    BY <2>1, <2>2
<1>6. TellsStay
  BY <1>2, <1>5 DEF TellsStay
<1>7. UNCHANGED <<sessions, net, askedText, givenList, listBlurred, server>>
  BY DEF SocketLost, Abandon, view
<1>8. QED
  BY <1>4, <1>6, <1>7, ListKept, SameNet

LEMMA FrameList == ASSUME PanelInv, ListInv, TakeFrame PROVE ListInv'
<1>1. UNCHANGED <<sessions, searchQuery, server, listBlurred, givenList, unlisted>>
  BY DEF TakeFrame
<1>2. CASE TakeDone
  <2> DEFINE more == net (+) SetToBag({List(searchQuery)})
  <2>1. IsABag(more) /\ List(searchQuery) \in BagToSet(more)
    BY PutNet DEF ListInv, NetBag
  <2>2. net' = more (+) SetToBag({Load(Frame.session)}) /\ askedText' = searchQuery
    BY <1>2 DEF TakeDone
  <2> HIDE DEF more
  <2>3. IsABag(net') /\ List(searchQuery) \in BagToSet(net')
    BY <2>1, <2>2, PutNet
  <2>4. QED
    BY <2>2, <2>3, ListAsked
<1>3. CASE TakeDelta \/ TakeToolCall \/ TakeError
  <2>1. Frame.type # "chat.done" /\ UNCHANGED <<net, askedText>>
    BY <1>3 DEF TakeDelta, TakeToolCall, TakeError
  <2> DEFINE x == [sockets[Ws] EXCEPT !.down = Tail(sockets[Ws].down)]
  <2>2. /\ Ws \in 1..Len(sockets) /\ Ws \in 1..Ws /\ sockets[Ws] \in SocketStates(N)
        /\ sockets[Ws].down # <<>> /\ sockets[Ws].down \in Seq(DownFrames(N))
    BY LastSocket DEF PanelInv, TakeFrame, SocketStates, Ws
  <2>3. x.serving = sockets[Ws].serving /\ x.down = Tail(sockets[Ws].down)
    BY <2>2 DEF SocketStates
  <2>4. sockets' = [sockets EXCEPT ![Ws] = x]
    BY <2>2 DEF TakeFrame, PanelInv, SocketsOK
  <2> HIDE DEF x
  <2>5. Ws' = Ws /\ \A k \in 1..Ws : sockets'[k] = IF k = Ws THEN x ELSE sockets[k]
    BY <2>2, <2>4 DEF PanelInv, SocketsOK, Ws
  <2>6. ASSUME NEW id \in Sessions, NEW k \in 1..Ws, Tells(k, id) PROVE Tells(k, id)'
    <3>1. CASE k # Ws
      BY <2>5, <2>6, <3>1 DEF Tells, Down
    <3>2. CASE k = Ws /\ sockets[Ws].serving.session = id
      BY <2>3, <2>5, <3>2 DEF Tells
    <3>3. ASSUME k = Ws, NEW i \in 1..Len(Down(Ws)),
                 Down(Ws)[i].type = "chat.done", Down(Ws)[i].session = id
          PROVE  Tells(k, id)'
      <4>1. i # 1
        BY <2>1, <3>3 DEF Down, Frame
      <4>2. Down(Ws)' = Tail(Down(Ws))
        BY <2>2, <2>3, <2>5 DEF Down
      <4>3. i - 1 \in 1..Len(Tail(Down(Ws))) /\ Tail(Down(Ws))[i - 1] = Down(Ws)[i]
        BY <2>2, <3>3, <4>1 DEF Down
      <4>4. QED
        BY <2>5, <3>3, <4>2, <4>3 DEF Tells
    <3>4. QED
      BY <2>6, <3>1, <3>2, <3>3 DEF Tells
  <2>7. TellsStay
    BY <2>5, <2>6 DEF TellsStay
  <2>8. QED
    BY <1>1, <2>1, <2>7, ListKept, SameNet
<1>4. QED
  BY <1>2, <1>3 DEF TakeFrame

(* A handler that stores something serves a session, whose end it tells,   *)
(* unless nobody hears it, or is the excuse.                               *)
LEMMA HandlerList ==
    ASSUME PanelInv, StreamInv, ListInv, NEW k \in 1..Ws, Handler(k)
    PROVE  ListInv'
<1> DEFINE s == sockets[k]
           t == s.serving
<1>1. /\ UNCHANGED <<sessions, net, status, pinned, model, askedText, givenList, listBlurred>>
      /\ NetBag' /\ ListsStay
  BY SameNet DEF Handler, view
<1>2. k \in 1..Len(sockets) /\ s \in SocketStates(N)
  BY DEF PanelInv, SocketsOK, Ws
<1>3. s.down \in Seq(DownFrames(N)) /\ t \in Servings(N)
  BY <1>2 DEF SocketStates
<1>4. ASSUME NEW x, sockets' = [sockets EXCEPT ![k] = x]
      PROVE  Ws' = Ws /\ \A l \in 1..Ws : sockets'[l] = IF l = k THEN x ELSE sockets[l]
  BY <1>2, <1>4 DEF PanelInv, SocketsOK, Ws
<1>5. ASSUME NEW frame
      PROVE  \A i \in 1..Len(s.down) :
                 i \in 1..Len(Heard(k, frame)) /\ Heard(k, frame)[i] = s.down[i]
  BY <1>3 DEF Heard
<1>6. ASSUME NEW x, sockets' = [sockets EXCEPT ![k] = x], unlisted \subseteq unlisted',
             \A i \in 1..Len(s.down) : i \in 1..Len(x.down) /\ x.down[i] = s.down[i],
             \A id \in Sessions \ unlisted' :
                 \/ \E l \in 1..Ws : Tells(l, id)'
                 \/ t.session # id /\ stored'[id] = stored[id]
      PROVE  ListInv'
  <2>1. Ws' = Ws /\ \A l \in 1..Ws : sockets'[l] = IF l = k THEN x ELSE sockets[l]
    BY <1>4, <1>6
  <2>2. ASSUME NEW id \in Sessions \ unlisted' PROVE RowFresh(id)' \/ RowComes(id)'
    <3>1. CASE \E l \in 1..Ws : Tells(l, id)'
      BY <2>1, <3>1 DEF RowComes
    <3>2. CASE t.session # id /\ stored'[id] = stored[id]
      <4>1. RowFresh(id) => RowFresh(id)'
        BY <1>1, <2>2, <3>2, RowStays
      <4>2. ASSUME NEW l \in 1..Ws, Tells(l, id) PROVE Tells(l, id)'
        <5>1. CASE l = k
          BY <1>6, <2>1, <3>2, <4>2, <5>1 DEF Tells, Down
        <5>2. CASE l # k
          BY <2>1, <4>2, <5>2 DEF Tells, Down
        <5>3. QED
          BY <5>1, <5>2
      <4>3. RowComes(id) => RowComes(id)'
        BY <1>1, <2>1, <4>2 DEF RowComes, Asking, Asks, Relists
      <4>4. QED
        BY <1>6, <2>2, <4>1, <4>3 DEF ListInv, RowsFresh
    <3>3. QED
      BY <1>6, <2>2, <3>1, <3>2
  <2>3. ListFresh'
    BY <1>1 DEF ListInv, ListFresh, Brings, Asks
  <2>4. QED
    BY <1>1, <2>2, <2>3 DEF ListInv, RowsFresh
<1>7. ASSUME NEW id \in Sessions, t.session = id PROVE t # Idle
  BY <1>7, ChatTypesAssumption DEF Idle
<1>8. CASE HandlerTakes(k)
  <2> DEFINE f == Head(s.up)
             serving == [session |-> f.session, turn |-> f.turn, sent |-> 0]
             refusal == [type |-> "chat.error", session |-> f.session, turn |-> f.turn, part |-> 0]
             taken == [s EXCEPT !.up = Tail(s.up), !.serving = serving]
             refused == [s EXCEPT !.up = Tail(s.up), !.down = Heard(k, refusal)]
  <2>1. t = Idle /\ UNCHANGED unlisted
    BY <1>8 DEF HandlerTakes
  <2>2. CASE Exists(f.session)
    <3>1. /\ stored' = [stored EXCEPT ![f.session] = Append(@, UserMessage(f.turn))]
          /\ sockets' = [sockets EXCEPT ![k] = taken]
      BY <1>2, <1>8, <2>2 DEF HandlerTakes, PanelInv, SocketsOK
    <3>2. taken.serving.session = f.session /\ taken.down = s.down
      BY <1>2 DEF SocketStates
    <3> HIDE DEF f, taken
    <3>3. ASSUME NEW id \in Sessions, id = f.session PROVE Tells(k, id)'
      <4>1. sockets'[k] = taken
        BY <1>2, <3>1 DEF PanelInv, SocketsOK
      <4>2. QED
        BY <3>2, <3>3, <4>1 DEF Tells
    <3>4. ASSUME NEW id \in Sessions, id # f.session PROVE stored'[id] = stored[id]
      BY <3>1, <3>4 DEF PanelInv, ServerOK
    <3>5. \A id \in Sessions \ unlisted' :
              \/ \E l \in 1..Ws : Tells(l, id)'
              \/ t.session # id /\ stored'[id] = stored[id]
      BY <1>7, <2>1, <3>3, <3>4
    <3>6. QED
      BY <1>6, <2>1, <3>1, <3>2, <3>5
  <2>3. CASE ~Exists(f.session)
    <3>1. stored' = stored /\ sockets' = [sockets EXCEPT ![k] = refused]
      BY <1>2, <1>8, <2>3 DEF HandlerTakes, PanelInv, SocketsOK
    <3> HIDE DEF f, refusal
    <3>2. refused.down = Heard(k, refusal)
      BY <1>2 DEF SocketStates
    <3> HIDE DEF refused
    <3>3. QED
      BY <1>5, <1>6, <1>7, <2>1, <3>1, <3>2
  <2>4. QED
    BY <2>2, <2>3
<1>9. ASSUME NEW frame, NEW serving, Served(k, frame, serving)
      PROVE  \E x : /\ sockets' = [sockets EXCEPT ![k] = x]
                    /\ x.down = Heard(k, frame) /\ x.serving = serving
  <2> DEFINE x == [s EXCEPT !.down = Heard(k, frame), !.serving = serving]
  <2>1. x.down = Heard(k, frame) /\ x.serving = serving
    BY <1>2 DEF SocketStates
  <2>2. sockets' = [sockets EXCEPT ![k] = x]
    BY <1>2, <1>9 DEF Served, PanelInv, SocketsOK
  <2> HIDE DEF x
  <2>3. QED
    BY <2>1, <2>2
<1>10. CASE HandlerStreams(k) \/ HandlerCallsTool(k)
  <2>1. PICK frame, serving : /\ Served(k, frame, serving) /\ serving.session = t.session
                              /\ UNCHANGED <<stored, unlisted>>
    <3>1. t # Idle
      BY <1>10 DEF HandlerStreams, HandlerCallsTool
    <3>2. t \in [session : Sessions, turn : 1..N, sent : 0..Parts]
      BY <1>3, <3>1 DEF Servings
    <3>3. [t EXCEPT !.sent = @ + 1].session = t.session
      BY <3>2
    <3>4. QED
      BY <1>10, <3>3 DEF HandlerStreams, HandlerCallsTool
  <2>2. PICK x : /\ sockets' = [sockets EXCEPT ![k] = x]
                 /\ x.down = Heard(k, frame) /\ x.serving = serving
    BY <1>9, <2>1
  <2>3. ASSUME NEW id, t.session = id PROVE Tells(k, id)'
    <3>1. sockets'[k] = x
      BY <1>2, <2>2 DEF PanelInv, SocketsOK
    <3>2. QED
      BY <2>1, <2>2, <2>3, <3>1 DEF Tells
  <2>4. \A i \in 1..Len(s.down) : i \in 1..Len(x.down) /\ x.down[i] = s.down[i]
    BY <1>5, <2>2
  <2>5. \A id \in Sessions \ unlisted' :
            \/ \E l \in 1..Ws : Tells(l, id)'
            \/ t.session # id /\ stored'[id] = stored[id]
    BY <2>1, <2>3
  <2>6. QED
    BY <1>6, <2>1, <2>2, <2>4, <2>5
<1>11. CASE HandlerFinishes(k)
  <2> DEFINE frame == FrameOf(k, "chat.done")
  <2>1. /\ Served(k, frame, Idle)
        /\ unlisted' = unlisted \cup (IF s.state = "closed" THEN {t.session} ELSE {})
        /\ t # Idle
    BY <1>11 DEF HandlerFinishes
  <2>2. frame.type = "chat.done" /\ frame.session = t.session
    BY DEF FrameOf
  <2> HIDE DEF frame
  <2>3. PICK x : sockets' = [sockets EXCEPT ![k] = x] /\ x.down = Heard(k, frame)
    BY <1>9, <2>1
  <2>4. ASSUME NEW id \in Sessions \ unlisted', t.session = id PROVE Tells(k, id)'
    <3>1. s.state = "open"
      <4>1. s.state # "closed"
        BY <2>1, <2>4
      <4>2. s.state # "connecting"
        BY <2>1 DEF StreamInv, OpensIdle, Busy
      <4>3. QED
        BY <1>2, <4>1, <4>2 DEF SocketStates
    <3>2. Down(k)' = Append(s.down, frame)
      BY <1>4, <2>3, <3>1 DEF Down, Heard
    <3>3. /\ Len(s.down) + 1 \in 1..Len(Append(s.down, frame))
          /\ Append(s.down, frame)[Len(s.down) + 1] = frame
      BY <1>3
    <3>4. QED
      BY <2>2, <2>4, <3>2, <3>3 DEF Tells
  <2>5. ASSUME NEW id \in Sessions, t.session # id PROVE stored'[id] = stored[id]
    <3>1. \/ stored' = stored
          \/ stored' = [stored EXCEPT ![t.session] = Append(@, Answer(t.turn, Text(t.turn, t.sent)))]
      BY <1>11 DEF HandlerFinishes
    <3>2. QED
      BY <2>5, <3>1 DEF PanelInv, ServerOK
  <2>6. \A i \in 1..Len(s.down) : i \in 1..Len(x.down) /\ x.down[i] = s.down[i]
    BY <1>5, <2>3
  <2>7. \A id \in Sessions \ unlisted' :
            \/ \E l \in 1..Ws : Tells(l, id)'
            \/ t.session # id /\ stored'[id] = stored[id]
    BY <2>4, <2>5
  <2>8. QED
    BY <1>6, <2>1, <2>3, <2>6, <2>7
<1>12. CASE HandlerFails(k)
  <2>1. /\ Served(k, FrameOf(k, "chat.error"), Idle) /\ stored' = stored
        /\ unlisted' = unlisted \cup {t.session}
    BY <1>12 DEF HandlerFails
  <2>2. PICK x : sockets' = [sockets EXCEPT ![k] = x]
                 /\ x.down = Heard(k, FrameOf(k, "chat.error"))
    BY <1>9, <2>1
  <2>3. QED
    BY <1>5, <1>6, <2>1, <2>2
<1>13. CASE HandlerEnds(k)
  <2> DEFINE x == [s EXCEPT !.up = <<>>, !.serving = Idle]
  <2>1. x.down = s.down
    BY <1>2 DEF SocketStates
  <2>2. /\ sockets' = [sockets EXCEPT ![k] = x] /\ stored' = stored
        /\ unlisted' = unlisted \cup ({t.session} \ {None})
    BY <1>2, <1>13 DEF HandlerEnds, PanelInv, SocketsOK
  <2> HIDE DEF x
  <2>3. \A id \in Sessions \ unlisted' : t.session # id
    BY <2>2, ChatTypesAssumption
  <2>4. QED
    BY <1>6, <2>1, <2>2, <2>3
<1>14. QED
  BY <1>8, <1>10, <1>11, <1>12, <1>13 DEF Handler

LEMMA ChatList ==
    ASSUME PanelInv, GivenOK, StreamInv, ListInv, ChatNext
    PROVE  ListInv'
<1>1. CASE SocketOpens
  <2> DEFINE x == [sockets[Ws] EXCEPT !.state = "open"]
  <2>1. /\ Ws \in 1..Len(sockets) /\ sockets[Ws] \in SocketStates(N)
        /\ sockets' = [sockets EXCEPT ![Ws] = x]
    BY <1>1, LastSocket DEF SocketOpens, PanelInv, SocketsOK
  <2>2. x.down = sockets[Ws].down /\ x.serving = sockets[Ws].serving
    BY <2>1 DEF SocketStates
  <2> HIDE DEF x
  <2>3. Ws' = Ws /\ \A k \in 1..Ws : /\ sockets'[k].down = sockets[k].down
                                     /\ sockets'[k].serving = sockets[k].serving
    BY <2>1, <2>2 DEF PanelInv, SocketsOK, Ws
  <2>4. TellsStay
    BY <2>3 DEF TellsStay, Tells, Down
  <2>5. QED
    BY <1>1, <2>4, ListKept, SameNet DEF SocketOpens, view, history, listHistory
<1>2. CASE CopyStreaming
  BY <1>2, ListKept, SameNet, SameTells DEF CopyStreaming, history, listHistory
<1>3. QED
  BY <1>1, <1>2, UserList, ServerList, TakeListed, FailList, ClosedList, FrameList, HandlerList
  DEF ChatNext

-----------------------------------------------------------------------------
(* The sessions that the page and what is under way name were created, and *)
(* a session that was not found is gone for good.                          *)
Born(id) == id \in Sessions /\ status[id] # "unborn"
Gone(id) == id \in Sessions /\ status[id] = "deleted"
BornRequest(r) ==
    /\ r.op \in {"load", "model"} => Born(r.id)
    /\ r.op = "list" /\ r.got # Pending => \A id \in DOMAIN r.got.list : Born(id)
    /\ r.op = "create" /\ r.got # Pending => Born(r.got.id)
    /\ r.op = "load" /\ r.got = Missing => Gone(r.id)
    /\ r.op = "load" /\ r.got \notin {Pending, Missing} => r.got.body.id = r.id
BornSocket(x) ==
    /\ \A i \in 1..Len(x.down) : Born(x.down[i].session)
    /\ \A i \in 1..Len(x.up) : Born(x.up[i].session)
    /\ x.serving # Idle => Born(x.serving.session)

BornView ==
    /\ \A id \in DOMAIN sessions : Born(id)
    /\ activeId # None => Born(activeId)
    /\ active # None => Born(active.id)
    /\ asked # None => Born(asked)
BornNet == \A r \in BagToSet(net) : BornRequest(r)
BornSockets == \A k \in 1..Ws : BornSocket(sockets[k])
BornInv == BornView /\ BornNet /\ BornSockets

LEMMA BornInit == ChatInit => BornInv
<1> SUFFICES ASSUME ChatInit PROVE BornInv
  OBVIOUS
<1>1. BornView
  BY DEF ChatInit, BornView
<1>2. BornNet
  <2>1. BagToSet(net) = {List("")}
    BY DEF ChatInit, BagToSet, SetToBag
  <2>2. BornRequest(List(""))
    BY DEF BornRequest, List, Request
  <2>3. QED
    BY <2>1, <2>2 DEF BornNet
<1>3. BornSockets
  <2>1. sockets = <<NewSocket>>
    BY DEF ChatInit
  <2>2. BornSocket(NewSocket)
    BY DEF BornSocket, NewSocket
  <2>3. QED
    BY <2>1, <2>2 DEF BornSockets, Ws
<1>4. QED
  BY <1>1, <1>2, <1>3 DEF BornInv

(* A session that was created stays so, and one that was deleted too.      *)
Ages == \A id : (Born(id) => Born(id)') /\ (Gone(id) => Gone(id)')

LEMMA SameAge == UNCHANGED status => Ages
  BY DEF Ages, Born, Gone

LEMMA Aged ==
    ASSUME Ages
    PROVE  /\ \A r : BornRequest(r) => BornRequest(r)'
           /\ \A x : BornSocket(x) => BornSocket(x)'
<1>1. ASSUME NEW r, BornRequest(r) PROVE BornRequest(r)'
  BY <1>1 DEF Ages, BornRequest
<1>2. ASSUME NEW x, BornSocket(x) PROVE BornSocket(x)'
  BY <1>2 DEF Ages, BornSocket
<1>3. QED
  BY <1>1, <1>2

LEMMA ViewAged ==
    ASSUME BornView, Ages, UNCHANGED <<sessions, activeId, active>>,
           asked' = asked \/ Born(asked')
    PROVE  BornView'
  BY DEF BornView, Ages

LEMMA NetAged ==
    ASSUME BornNet, Ages, NEW r, BornRequest(r)',
           BagToSet(net') \subseteq BagToSet(net) \cup {r}
    PROVE  BornNet'
<1> SUFFICES ASSUME NEW q \in BagToSet(net') PROVE BornRequest(q)'
  BY DEF BornNet
<1>1. CASE q = r
  BY <1>1, Zenon
<1>2. CASE q \in BagToSet(net)
  BY <1>2, Aged DEF BornNet
<1>3. QED
  BY <1>1, <1>2

LEMMA SocketsAged == ASSUME BornSockets, Ages, UNCHANGED sockets PROVE BornSockets'
  BY Aged DEF BornSockets, Ws

LEMMA SocketAged ==
    ASSUME SocketsOK, BornSockets, Ages, NEW k \in 1..Ws, NEW x,
           sockets' = [sockets EXCEPT ![k] = x], BornSocket(x)
    PROVE  BornSockets'
<1>1. Ws' = Ws /\ sockets'[k] = x /\ \A l \in 1..Ws : l # k => sockets'[l] = sockets[l]
  BY OneSocket
<1> SUFFICES ASSUME NEW l \in 1..Ws PROVE BornSocket(sockets[l])'
  BY <1>1 DEF BornSockets
<1>2. PICK y : y = sockets'[l] /\ BornSocket(y)
  BY <1>1 DEF BornSockets
<1>3. BornSocket(y)'
  BY <1>2, Aged
<1>4. QED
  BY <1>2, <1>3

(* A keystroke in the search field closes a socket and opens another.      *)
LEMMA TypedSockets ==
    ASSUME PanelInv, NEW q \in Queries, Type(q)
    PROVE  /\ Ws' = Ws + 1 /\ Ws \in Nat
           /\ \A l \in 1..Ws' :
                 \/ l = Ws + 1 /\ sockets'[l] = NewSocket
                 \/ l \in 1..Ws /\ l < Ws /\ sockets'[l] = sockets[l]
                 \/ /\ l \in 1..Ws /\ l = Ws
                    /\ sockets'[l].down = <<>> /\ sockets'[l].up = sockets[l].up
                    /\ sockets'[l].state = "closed" /\ sockets'[l].serving = sockets[l].serving
<1>1. PICK k \in 1..Ws : k = Ws /\ k \in 1..Len(sockets) /\ Ws \in Nat /\ Ws = Len(sockets)
  BY LastOne DEF PanelInv, SocketsOK, Ws
<1> DEFINE x == [sockets[k] EXCEPT !.state = "closed", !.down = <<>>]
<1>2. /\ x \in SocketStates(N) /\ x.state = "closed" /\ x.down = <<>>
      /\ Closed(Ws) = [sockets EXCEPT ![k] = x]
      /\ x.up = sockets[k].up /\ x.serving = sockets[k].serving
  BY <1>1, ClosedSocket DEF PanelInv
<1> HIDE DEF x
<1>3. Closed(Ws) \in Seq(SocketStates(N)) /\ Len(Closed(Ws)) = Ws
      /\ \A l \in 1..Ws : Closed(Ws)[l] = IF l = k THEN x ELSE sockets[l]
  BY <1>1, <1>2 DEF PanelInv, SocketsOK
<1>4. sockets' = Append(Closed(Ws), NewSocket)
  BY DEF Type
<1>5. /\ Ws' = Ws + 1 /\ sockets'[Ws + 1] = NewSocket
      /\ \A l \in 1..Ws : sockets'[l] = IF l = k THEN x ELSE sockets[l]
  BY <1>1, <1>3, <1>4 DEF Ws
<1>6. QED
  BY <1>1, <1>2, <1>5

LEMMA UserBorn == ASSUME PanelInv, ListInv, BornInv, UserActs PROVE BornInv'
<1>1. UNCHANGED status
  BY DEF UserActs, SelectSession, PinSession, ArchiveSession, DeleteSession, SetSessionModel,
         NewSession, Ask, Send, ToggleSearch, Type, server
<1>2. Ages /\ NetBag /\ BornView /\ BornNet /\ BornSockets
  BY <1>1, SameAge DEF ListInv, BornInv
<1>3. ASSUME NEW r, BornRequest(r), BagToSet(net') \subseteq BagToSet(net) \cup {r} PROVE BornNet'
  BY <1>2, <1>3, Aged, NetAged
<1>4. ASSUME NEW op, NEW id, NEW arg, Ask(op, id, arg), op # "load", op = "model" => Born(id)
      PROVE  BornInv'
  <2>1. BornRequest(Request(op, id, arg, searchQuery))
    BY <1>4 DEF BornRequest, Request
  <2>2. BagToSet(net') \subseteq BagToSet(net) \cup {Request(op, id, arg, searchQuery)}
    BY <1>2, <1>4, PutNet DEF Ask, Added, NetBag
  <2>3. BornNet'
    BY <1>3, <2>1, <2>2
  <2>4. QED
    BY <1>2, <1>4, <2>3, ViewAged, SocketsAged DEF Ask, view, history, shownHistory, BornInv
<1>5. ASSUME NEW id, SelectSession(id) PROVE BornInv'
  <2>1. Born(id)
    BY <1>2, <1>5 DEF SelectSession, BornView
  <2>2. BornRequest(Load(id))
    BY <2>1 DEF BornRequest, Load, Request, Pending, Missing
  <2>3. BornNet'
    BY <1>2, <1>3, <1>5, <2>2, SelectNet DEF SelectSession, NetBag
  <2>4. BornView'
    <3>1. /\ Born(id)' /\ activeId' = id /\ sessions' = sessions /\ active' \in {active, None}
          /\ asked' \in {asked, id}
      BY <1>2, <1>5, <2>1 DEF SelectSession, Select, Show, Ages
    <3>2. QED
      BY <1>2, <3>1 DEF BornView, Ages
  <2>5. QED
    BY <1>2, <1>5, <2>3, <2>4, SocketsAged DEF SelectSession, BornInv
<1>6. CASE Send
  <2>1. PICK k \in 1..Ws : k = Ws /\ k \in 1..Len(sockets) /\ sockets[k] \in SocketStates(N)
    BY LastOne
  <2> DEFINE f == [session |-> activeId, turn |-> Len(typed) + 1]
             x == [sockets[k] EXCEPT !.up = Append(@, f)]
  <2>2. sockets' = sockets \/ sockets' = [sockets EXCEPT ![k] = x]
    BY <1>6, <2>1 DEF Send, PanelInv, SocketsOK
  <2>3. BornSocket(x)
    <3>1. Born(f.session)
      BY <1>2, <1>6 DEF Send, InputEnabled, BornView
    <3> HIDE DEF f
    <3>2. x.up = Append(Up(k), f) /\ x.down = sockets[k].down /\ x.serving = sockets[k].serving
      BY <2>1 DEF SocketStates, Up
    <3> HIDE DEF x
    <3>3. Up(k) \in Seq(UpFrames(N)) /\ \A i \in 1..Len(Up(k)) : Born(Up(k)[i].session)
      BY <1>2, UpType DEF BornSockets, BornSocket, Up
    <3>4. \A i \in 1..Len(x.up) : Born(x.up[i].session)
      <4>1. \A i \in 1..Len(x.up) : x.up[i] = f \/ (i \in 1..Len(Up(k)) /\ x.up[i] = Up(k)[i])
        BY <3>2, <3>3
      <4>2. QED
        BY <3>1, <3>3, <4>1
    <3>5. QED
      BY <1>2, <3>2, <3>4 DEF BornSockets, BornSocket
  <2> HIDE DEF x
  <2>4. BornSockets'
    BY <1>2, <2>2, <2>3, SocketAged, SocketsAged DEF PanelInv
  <2>5. BornView'
    <3>1. UNCHANGED <<sessions, activeId, asked>>
      BY <1>6 DEF Send
    <3>2. active' # None => active # None /\ active'.id = active.id
      <4>1. active # None => active \in Bodies(N)
        BY DEF PanelInv, ViewOK
      <4>2. QED
        BY <1>6, <4>1 DEF Send, Bodies
    <3>3. QED
      BY <1>2, <3>1, <3>2 DEF BornView, Ages
  <2>6. BornNet'
    BY <1>2, <1>6, Aged DEF BornNet, Send
  <2>7. QED
    BY <2>4, <2>5, <2>6 DEF BornInv
<1>7. CASE ToggleSearch
  <2>1. BornNet'
    BY <1>2, <1>7, Aged DEF BornNet, ToggleSearch
  <2>2. QED
    BY <1>2, <1>7, <2>1, ViewAged, SocketsAged
    DEF ToggleSearch, history, shownHistory, BornInv
<1>8. ASSUME NEW q \in Queries, Type(q) PROVE BornInv'
  <2>1. BornRequest(List(q))
    BY DEF BornRequest, List, Request
  <2>2. BornNet'
    BY <1>2, <1>3, <1>8, <2>1, PutNet DEF Type, Added, NetBag
  <2>3. BornSockets'
    <3>1. ASSUME NEW l \in 1..Ws' PROVE \E y : y = sockets'[l] /\ BornSocket(y)
      <4>1. CASE sockets'[l] = NewSocket
        <5>1. BornSocket(NewSocket)
          BY DEF BornSocket, NewSocket
        <5>2. QED
          BY <4>1, <5>1
      <4>2. CASE l \in 1..Ws /\ sockets'[l] = sockets[l]
        BY <1>2, <4>2 DEF BornSockets
      <4>3. CASE /\ l \in 1..Ws /\ sockets'[l].down = <<>> /\ sockets'[l].up = sockets[l].up
                 /\ sockets'[l].serving = sockets[l].serving
        BY <1>2, <4>3 DEF BornSockets, BornSocket
      <4>4. QED
        BY <1>8, <3>1, <4>1, <4>2, <4>3, TypedSockets
    <3>2. QED
      <4>1. ASSUME NEW l \in 1..Ws' PROVE BornSocket(sockets[l])'
        <5>1. PICK y : y = sockets'[l] /\ BornSocket(y)
          BY <3>1
        <5>2. BornSocket(y)'
          BY <1>2, <5>1, Aged
        <5>3. QED
          BY <5>1, <5>2
      <4>2. QED
        BY <4>1 DEF BornSockets
  <2>4. QED
    BY <1>2, <1>8, <2>2, <2>3, ViewAged DEF Type, Abandon, BornInv
<1>9. QED
  <2>1. ASSUME NEW id, PinSession(id) \/ ArchiveSession(id) \/ DeleteSession(id) PROVE BornInv'
    BY <1>4, <2>1 DEF PinSession, ArchiveSession, DeleteSession
  <2>2. ASSUME NEW m, SetSessionModel(m) PROVE BornInv'
    BY <1>2, <1>4, <2>2 DEF SetSessionModel, BornView
  <2>3. CASE NewSession
    BY <1>4, <2>3 DEF NewSession
  <2>4. QED
    BY <1>5, <1>6, <1>7, <1>8, <2>1, <2>2, <2>3 DEF UserActs

(* The server creates and deletes sessions.                                *)
LEMMA ServerBorn == ASSUME PanelInv, ListInv, BornInv, ServerAnswers PROVE BornInv'
<1>1. PICK r \in BagToSet(net) :
        /\ r.got = Pending
        /\ AnswerList(r) \/ AnswerLoad(r) \/ AnswerCreate(r) \/ AnswerPatch(r) \/ AnswerDelete(r)
        /\ UNCHANGED <<view, sockets, asked>>
  BY DEF ServerAnswers
<1>2. PanelInv /\ NetBag /\ BornView /\ BornNet /\ BornSockets /\ BornRequest(r)
  BY DEF ListInv, BornInv, BornNet
<1>3. status \in [Sessions -> {"unborn", "listed", "archived", "deleted"}]
  BY DEF PanelInv, ServerOK
<1>4. Ages
  <2>1. CASE AnswerCreate(r)
    <3>1. PICK id \in Sessions :
            status[id] = "unborn" /\ status' = [status EXCEPT ![id] = "listed"]
      BY <2>1 DEF AnswerCreate
    <3>2. QED
      BY <1>3, <3>1 DEF Ages, Born, Gone
  <2>2. CASE AnswerDelete(r)
    <3>1. CASE ~Exists(r.id)
      BY <2>2, <3>1, SameAge DEF AnswerDelete
    <3>2. CASE Exists(r.id)
      <4>1. PICK s \in {"deleted", "archived"} : status' = [status EXCEPT ![r.id] = s]
        BY <2>2, <3>2 DEF AnswerDelete
      <4>2. QED
        BY <1>3, <3>2, <4>1 DEF Ages, Born, Gone, Exists
    <3>3. QED
      BY <3>1, <3>2
  <2>3. QED
    BY <1>1, <2>1, <2>2, SameAge DEF AnswerList, AnswerLoad, AnswerPatch, server
<1>5. ASSUME NEW got, Reply(r, got),
             r.op = "list" => \A id \in DOMAIN got.list : Born(id),
             r.op = "create" => Born(got.id)',
             r.op = "load" /\ got = Missing => Gone(r.id),
             r.op = "load" /\ got \notin {Pending, Missing} => got.body.id = r.id
      PROVE  BornInv'
  <2> DEFINE reply == [r EXCEPT !.got = got]
  <2>1. reply.op = r.op /\ reply.id = r.id /\ reply.got = got
    BY <1>2 DEF PanelInv, NetOK, RequestOK, IsRequest
  <2>2. net' = Instead(r, reply)
    BY <1>5 DEF Reply
  <2> HIDE DEF reply
  <2>3. BagToSet(net') \subseteq BagToSet(net) \cup {reply}
    BY <1>2, <2>2, InsteadNet
  <2>4. BornRequest(reply)'
    BY <1>2, <1>4, <1>5, <2>1 DEF BornRequest, Ages
  <2>5. BornNet'
    BY <1>2, <1>4, <2>3, <2>4, NetAged
  <2>6. QED
    BY <1>1, <1>2, <1>4, <2>5, ViewAged, SocketsAged DEF view, BornInv
<1>6. Pending # Missing
  BY DEF Pending, Missing
<1>7. CASE AnswerList(r)
  <2>1. \A id \in DOMAIN Listing(r.query) : Born(id)
    BY DEF Listing, Born
  <2>2. Listed(Listing(r.query)).list = Listing(r.query)
    BY DEF Listed
  <2>3. QED
    BY <1>5, <1>7, <2>1, <2>2 DEF AnswerList
<1>8. CASE AnswerLoad(r)
  <2>1. CASE Exists(r.id)
    <3>1. Loaded(Body(r.id)) # Missing /\ Loaded(Body(r.id)).body.id = r.id
      BY DEF Loaded, Missing, Body
    <3>2. QED
      BY <1>5, <1>8, <2>1, <3>1 DEF AnswerLoad
  <2>2. CASE ~Exists(r.id)
    <3>1. Gone(r.id)
      <4>1. r.id \in Sessions /\ status[r.id] # "unborn"
        BY <1>2, <1>8 DEF AnswerLoad, BornRequest, Born
      <4>2. QED
        BY <1>3, <2>2, <4>1 DEF Gone, Exists
    <3>2. QED
      BY <1>5, <1>8, <2>2, <3>1 DEF AnswerLoad
  <2>3. QED
    BY <2>1, <2>2
<1>9. CASE AnswerCreate(r)
  <2>1. PICK id \in Sessions :
          status' = [status EXCEPT ![id] = "listed"] /\ Reply(r, Created(id)) /\ r.op = "create"
    BY <1>9 DEF AnswerCreate
  <2>2. Born(id)'
    BY <1>3, <2>1 DEF Born
  <2>3. Created(id).id = id
    BY DEF Created
  <2>4. QED
    BY <1>5, <2>1, <2>2, <2>3
<1>10. CASE AnswerPatch(r) \/ AnswerDelete(r)
  <2>1. r.op \notin {"list", "create", "load"} /\ \E got : Reply(r, got)
    BY <1>10 DEF AnswerPatch, AnswerDelete
  <2>2. QED
    BY <1>5, <2>1
<1>11. QED
  BY <1>1, <1>7, <1>8, <1>9, <1>10

LEMMA TakeBorn == ASSUME PanelInv, ListInv, BornInv, TakeAnswer PROVE BornInv'
<1>1. PICK r \in BagToSet(net) :
        /\ r.got # Pending
        /\ TakeList(r) \/ TakeLoad(r) \/ TakeCreated(r) \/ TakePatched(r) \/ TakeDeleted(r)
        /\ UNCHANGED <<sockets, server>>
  BY DEF TakeAnswer
<1>2. PanelInv /\ NetBag /\ BornView /\ BornNet /\ BornSockets /\ BornRequest(r) /\ RequestOK(r, N)
  BY DEF ListInv, BornInv, BornNet, PanelInv, NetOK
<1>3. Ages /\ BornSockets'
  BY <1>1, <1>2, SameAge, SocketsAged DEF server
<1>4. \A id : Born(id)' <=> Born(id)
  BY <1>1 DEF Born, server
<1>5. \A query : BornRequest(List(query))'
  BY DEF BornRequest, List, Request, Pending
<1>6. ASSUME NEW id, Born(id) PROVE BornRequest(Load(id))'
  BY <1>4, <1>6 DEF BornRequest, Load, Request, Pending, Missing
<1>7. CASE TakeList(r) \/ TakeLoad(r)
  <2>1. BagToSet(net') \subseteq BagToSet(net)
    BY <1>2, <1>7, TakeNet DEF TakeList, TakeLoad
  <2>2. BornNet'
    BY <1>2, <1>3, <2>1, Aged DEF BornNet
  <2>3. CASE TakeList(r)
    <3>1. UNCHANGED <<activeId, active, asked>> /\ sessions' = r.got.list
      BY <2>3 DEF TakeList
    <3>2. \A id \in DOMAIN sessions' : Born(id)
      BY <1>1, <1>2, <2>3, <3>1 DEF TakeList, BornRequest
    <3>3. BornView'
      BY <1>2, <1>4, <3>1, <3>2 DEF BornView
    <3>4. QED
      BY <1>3, <2>2, <3>3 DEF BornInv
  <2>4. CASE TakeLoad(r)
    <3>1. UNCHANGED <<activeId, sessions, asked>> /\ r.op = "load"
      BY <2>4 DEF TakeLoad
    <3>2. active' = active \/ (r.got # Missing /\ active' = r.got.body)
      BY <2>4 DEF TakeLoad, Show
    <3>3. r.got # Missing => Born(r.got.body.id)
      BY <1>1, <1>2, <3>1 DEF BornRequest
    <3>4. active' # None => Born(active'.id)
      BY <1>2, <3>2, <3>3 DEF BornView
    <3>5. BornView'
      BY <1>2, <1>4, <3>1, <3>4 DEF BornView
    <3>6. QED
      BY <1>3, <2>2, <3>5 DEF BornInv
  <2>5. QED
    BY <1>7, <2>3, <2>4
<1>8. ASSUME NEW id, id = None \/ Born(id), Select(id, Instead(r, List(r.query))), UNCHANGED sessions
      PROVE  BornInv'
  <2>1. BagToSet(net') \subseteq BagToSet(net) \cup {List(r.query)} \cup {Load(id)}
    BY <1>2, <1>8, InsteadNet, SelectNet
  <2>2. BornNet'
    <3> SUFFICES ASSUME NEW q \in BagToSet(net') PROVE BornRequest(q)'
      BY DEF BornNet
    <3>1. CASE q \in BagToSet(net)
      BY <1>2, <1>3, <3>1, Aged DEF BornNet
    <3>2. CASE q = List(r.query)
      BY <1>5, <3>2
    <3>3. CASE q = Load(id) /\ Born(id)
      BY <1>6, <3>3
    <3>4. CASE id = None
      <4>1. BagToSet(net') = BagToSet(Instead(r, List(r.query)))
        BY <1>8, <3>4, BagPutNone DEF Select
      <4>2. BagToSet(net') \subseteq BagToSet(net) \cup {List(r.query)}
        BY <1>2, <4>1, InsteadNet
      <4>3. QED
        BY <3>1, <3>2, <4>2
    <3>5. QED
      BY <1>8, <2>1, <3>1, <3>2, <3>3, <3>4
  <2>3. BornView'
    <3>1. activeId' = id /\ active' \in {active, None} /\ asked' \in {asked, id}
      BY <1>8 DEF Select, Show
    <3>2. QED
      BY <1>2, <1>4, <1>8, <3>1 DEF BornView
  <2>4. QED
    BY <1>3, <2>2, <2>3 DEF BornInv
<1>9. CASE TakeCreated(r)
  <2>1. Born(r.got.id)
    BY <1>1, <1>2, <1>9 DEF TakeCreated, BornRequest
  <2>2. QED
    BY <1>8, <1>9, <2>1 DEF TakeCreated
<1>10. CASE TakeDeleted(r)
  <2>1. PICK id \in {None, activeId} : Select(id, Instead(r, List(r.query)))
    BY <1>10 DEF TakeDeleted
  <2>2. id = None \/ Born(id)
    BY <1>2, <2>1 DEF BornView
  <2>3. QED
    BY <1>8, <1>10, <2>1, <2>2 DEF TakeDeleted
<1>11. CASE TakePatched(r)
  <2>1. PICK next : net' = Instead(r, next) /\ BornRequest(next)'
    <3>1. CASE r.op = "pin" /\ net' = Instead(r, List(r.query))
      BY <1>5, <3>1
    <3>2. CASE r.op = "model" /\ net' = Instead(r, Load(r.id))
      <4>1. Born(r.id)
        BY <1>2, <3>2 DEF BornRequest
      <4>2. QED
        BY <1>6, <3>2, <4>1
    <3>3. QED
      BY <1>11, <3>1, <3>2 DEF TakePatched
  <2>2. BagToSet(net') \subseteq BagToSet(net) \cup {next}
    BY <1>2, <2>1, InsteadNet
  <2>3. BornNet'
    BY <1>2, <1>3, <2>1, <2>2, NetAged
  <2>4. asked' = asked \/ Born(asked')
    BY <1>2, <1>11 DEF TakePatched, BornRequest
  <2>5. QED
    BY <1>2, <1>3, <1>11, <2>3, <2>4, ViewAged DEF TakePatched, BornInv
<1>12. QED
  BY <1>1, <1>7, <1>9, <1>10, <1>11 DEF TakeList, TakeLoad

LEMMA PageBorn ==
    ASSUME PanelInv, ListInv, BornInv, FetchFails \/ SocketOpens \/ SocketLost \/ CopyStreaming
    PROVE  BornInv'
<1>1. BornView /\ BornNet /\ BornSockets /\ NetBag /\ SocketsOK
  BY DEF BornInv, ListInv, PanelInv
<1>2. UNCHANGED <<sessions, activeId, active, asked, status>>
  BY DEF FetchFails, SocketOpens, SocketLost, Abandon, CopyStreaming, view, server, history,
         shownHistory
<1>3. Ages /\ BornView'
  BY <1>1, <1>2, SameAge, ViewAged
<1>4. BagToSet(net') \subseteq BagToSet(net)
  BY <1>1, TakeNet DEF FetchFails, SocketOpens, SocketLost, CopyStreaming
<1>5. BornNet'
  BY <1>1, <1>3, <1>4, Aged DEF BornNet
<1>6. BornSockets'
  <2>1. PICK k \in 1..Ws : k = Ws /\ k \in 1..Len(sockets) /\ sockets[k] \in SocketStates(N)
    BY LastOne
  <2>2. CASE UNCHANGED sockets
    BY <1>1, <1>3, <2>2, SocketsAged
  <2>3. CASE SocketOpens
    <3> DEFINE x == [sockets[k] EXCEPT !.state = "open"]
    <3>1. sockets' = [sockets EXCEPT ![k] = x]
      BY <1>1, <2>1, <2>3 DEF SocketOpens, SocketsOK
    <3>2. x.up = sockets[k].up /\ x.down = sockets[k].down /\ x.serving = sockets[k].serving
      BY <2>1 DEF SocketStates
    <3> HIDE DEF x
    <3>3. BornSocket(x)
      BY <1>1, <3>2 DEF BornSockets, BornSocket
    <3>4. QED
      BY <1>1, <1>3, <3>1, <3>3, SocketAged
  <2>4. CASE SocketLost
    <3> DEFINE x == [sockets[k] EXCEPT !.state = "closed", !.down = <<>>]
    <3>1. /\ x.down = <<>> /\ sockets' = [sockets EXCEPT ![k] = x]
          /\ x.up = sockets[k].up /\ x.serving = sockets[k].serving
      BY <1>1, <2>1, <2>4, ClosedSocket DEF SocketLost
    <3> HIDE DEF x
    <3>2. BornSocket(x)
      BY <1>1, <3>1 DEF BornSockets, BornSocket
    <3>3. QED
      BY <1>1, <1>3, <3>1, <3>2, SocketAged
  <2>5. QED
    BY <2>2, <2>3, <2>4 DEF FetchFails, CopyStreaming
<1>7. QED
  BY <1>3, <1>5, <1>6 DEF BornInv

(* The page takes a frame: the socket has one less, and the rest is        *)
(* unchanged.                                                              *)
LEMMA FrameEffect ==
    ASSUME PanelInv, TakeFrame
    PROVE  \E k \in 1..Ws : \E x :
              /\ k = Ws /\ sockets[k].state = "open" /\ sockets' = [sockets EXCEPT ![k] = x]
              /\ x.up = sockets[k].up /\ x.serving = sockets[k].serving /\ x.state = "open"
              /\ Len(Down(k)) \in Nat /\ 1 \in 1..Len(Down(k)) /\ Frame = Down(k)[1]
              /\ Len(x.down) = Len(Down(k)) - 1
              /\ \A i \in 1..Len(x.down) : x.down[i] = Down(k)[i + 1] /\ i + 1 \in 1..Len(Down(k))
<1>1. PICK k \in 1..Ws : k = Ws /\ k \in 1..Len(sockets) /\ sockets[k] \in SocketStates(N)
  BY LastOne
<1> DEFINE x == [sockets[k] EXCEPT !.down = Tail(sockets[k].down)]
<1>2. sockets' = [sockets EXCEPT ![k] = x] /\ sockets[k].state = "open"
  BY <1>1 DEF TakeFrame, PanelInv, SocketsOK
<1>3. /\ x.up = sockets[k].up /\ x.serving = sockets[k].serving /\ x.state = sockets[k].state
      /\ x.down = Tail(Down(k))
  BY <1>1 DEF SocketStates, Down
<1> HIDE DEF x
<1>4. /\ Down(k) # <<>> /\ Down(k) \in Seq(DownFrames(N)) /\ Len(Down(k)) \in Nat
      /\ Frame = Head(Down(k))
  BY <1>1, DownType DEF TakeFrame, Down, Frame
<1>5. /\ 1 \in 1..Len(Down(k)) /\ Frame = Down(k)[1] /\ Len(x.down) = Len(Down(k)) - 1
      /\ \A i \in 1..Len(x.down) : x.down[i] = Down(k)[i + 1] /\ i + 1 \in 1..Len(Down(k))
  BY <1>3, <1>4
<1>6. QED
  BY <1>1, <1>2, <1>3, <1>4, <1>5

LEMMA FrameBorn == ASSUME PanelInv, ListInv, BornInv, TakeFrame PROVE BornInv'
<1> PICK k \in 1..Ws : \E x :
      /\ k = Ws /\ sockets' = [sockets EXCEPT ![k] = x]
      /\ x.up = sockets[k].up /\ x.serving = sockets[k].serving
      /\ 1 \in 1..Len(Down(k)) /\ Frame = Down(k)[1]
      /\ \A i \in 1..Len(x.down) : x.down[i] = Down(k)[i + 1] /\ i + 1 \in 1..Len(Down(k))
  BY FrameEffect
<1>1. PICK x :
        /\ k = Ws /\ sockets' = [sockets EXCEPT ![k] = x]
        /\ x.up = sockets[k].up /\ x.serving = sockets[k].serving
        /\ 1 \in 1..Len(Down(k)) /\ Frame = Down(k)[1]
        /\ \A i \in 1..Len(x.down) : x.down[i] = Down(k)[i + 1] /\ i + 1 \in 1..Len(Down(k))
  OBVIOUS
<1>2. BornView /\ BornNet /\ BornSockets /\ NetBag /\ SocketsOK /\ BornSocket(sockets[k])
  BY DEF BornInv, ListInv, PanelInv, BornSockets
<1>3. UNCHANGED <<sessions, activeId, status>>
  BY DEF TakeFrame, server
<1>4. Ages
  BY <1>3, SameAge
<1>5. BornSocket(x) /\ Born(Frame.session)
  BY <1>1, <1>2 DEF BornSocket, Down
<1>6. BornSockets'
  BY <1>1, <1>2, <1>4, <1>5, SocketAged
<1>7. BornView'
  <2>1. active' # None => active # None /\ active'.id = active.id
    <3>1. ASSUME NEW message, ShowMore(message)
          PROVE  active' # None => active # None /\ active'.id = active.id
      <4>1. active # None => active \in Bodies(N)
        BY DEF PanelInv, ViewOK
      <4>2. QED
        BY <3>1, <4>1 DEF ShowMore, Bodies
    <3>2. QED
      BY <3>1 DEF TakeFrame, TakeDelta, TakeToolCall, TakeDone, TakeError
  <2>2. asked' = asked \/ asked' = Frame.session
    BY DEF TakeFrame, TakeDelta, TakeToolCall, TakeDone, TakeError
  <2>3. QED
    BY <1>2, <1>3, <1>4, <1>5, <2>1, <2>2 DEF BornView, Ages
<1>8. BornNet'
  <2>1. CASE UNCHANGED net
    BY <1>2, <1>4, <2>1, Aged DEF BornNet
  <2>2. CASE TakeDone
    <3> DEFINE more == net (+) SetToBag({List(searchQuery)})
    <3>1. IsABag(more) /\ BagToSet(more) = BagToSet(net) \cup {List(searchQuery)}
      BY <1>2, PutNet DEF NetBag
    <3>2. net' = more (+) SetToBag({Load(Frame.session)})
      BY <2>2 DEF TakeDone
    <3> HIDE DEF more
    <3>3. BagToSet(net') = BagToSet(net) \cup {List(searchQuery), Load(Frame.session)}
      BY <3>1, <3>2, PutNet
    <3>4. BornRequest(List(searchQuery)) /\ BornRequest(Load(Frame.session))
      BY <1>5 DEF BornRequest, List, Load, Request, Pending, Missing
    <3>5. \A q \in BagToSet(net') : BornRequest(q)
      BY <1>2, <3>3, <3>4 DEF BornNet
    <3>6. QED
      BY <1>4, <3>5, Aged DEF BornNet
  <2>3. QED
    BY <2>1, <2>2 DEF TakeFrame, TakeDelta, TakeToolCall, TakeError
<1>9. QED
  BY <1>6, <1>7, <1>8 DEF BornInv
-----------------------------------------------------------------------------
(* The transcript.  What is shown is caught up with the server: it is what *)
(* the server stored, and behind it the messages of the session that the   *)
(* last socket still carries, in their order; f gives their places.        *)
Places(up, id) == {i \in 1..Len(up) : up[i].session = id}
Follows(messages, store, up, id, f) ==
    /\ f \in Seq(Nat)
    /\ \A j \in 1..Len(f) : f[j] \in Places(up, id)
    /\ \A i \in Places(up, id) : \E j \in 1..Len(f) : f[j] = i
    /\ \A i, j \in 1..Len(f) : i < j => f[i] < f[j]
    /\ Len(messages) = Len(store) + Len(f)
    /\ \A j \in 1..Len(store) : messages[j] = store[j]
    /\ \A j \in 1..Len(f) : messages[Len(store) + j] = UserMessage(up[f[j]].turn)
CaughtUp(messages, store, up, id) == \E f : Follows(messages, store, up, id, f)

NoneFor(up, id) == \A i \in 1..Len(up) : up[i].session # id

LEMMA OneBefore ==
    ASSUME NEW n \in Nat, NEW i \in 2..n
    PROVE  i \in Nat /\ i - 1 \in 1..(n - 1) /\ i - 1 \in Nat /\ (i - 1) + 1 = i
  OBVIOUS

LEMMA NothingOnTheWay ==
    ASSUME NEW S, NEW store \in Seq(S), NEW up, NEW id, NoneFor(up, id)
    PROVE  CaughtUp(store, store, up, id)
<1>1. Follows(store, store, up, id, <<>>)
  BY DEF Follows, Places, NoneFor
<1>2. QED
  BY <1>1 DEF CaughtUp

LEMMA AllStored ==
    ASSUME NEW S, NEW store \in Seq(S), NEW messages \in Seq(S), NEW id,
           CaughtUp(messages, store, <<>>, id)
    PROVE  messages = store
<1>1. PICK f : Follows(messages, store, <<>>, id, f)
  BY DEF CaughtUp
<1>2. Len(f) = 0
  <2>1. Places(<<>>, id) = {} /\ Len(f) \in Nat
    BY <1>1 DEF Places, Follows
  <2>2. QED
    BY <1>1, <2>1 DEF Follows
<1>3. Len(messages) = Len(store) /\ \A j \in 1..Len(store) : messages[j] = store[j]
  BY <1>1, <1>2 DEF Follows
<1>4. QED
  BY <1>3

LEMMA OneMoreTyped ==
    ASSUME NEW S, NEW T, NEW store \in Seq(S), NEW messages \in Seq(S), NEW up \in Seq(T), NEW id,
           NEW n, NEW next, next.session = id, next.turn = n,
           CaughtUp(messages, store, up, id)
    PROVE  CaughtUp(Append(messages, UserMessage(n)), store, Append(up, next), id)
<1>1. PICK f : Follows(messages, store, up, id, f)
  BY DEF CaughtUp
<1> DEFINE g == Append(f, Len(up) + 1)
           m == Append(messages, UserMessage(n))
           u == Append(up, next)
<1>2. f \in Seq(Nat) /\ Len(f) \in Nat /\ Len(up) \in Nat /\ Len(store) \in Nat
  BY <1>1 DEF Follows
<1>3. /\ g \in Seq(Nat) /\ Len(g) = Len(f) + 1 /\ g[Len(f) + 1] = Len(up) + 1
      /\ \A j \in 1..Len(f) : g[j] = f[j]
  BY <1>2
<1>4. /\ Len(u) = Len(up) + 1 /\ u[Len(up) + 1] = next
      /\ \A i \in 1..Len(up) : u[i] = up[i]
  BY <1>2
<1>5. /\ Len(m) = Len(messages) + 1 /\ m[Len(messages) + 1] = UserMessage(n)
      /\ \A j \in 1..Len(messages) : m[j] = messages[j]
  OBVIOUS
<1>6. /\ Len(messages) = Len(store) + Len(f)
      /\ \A j \in 1..Len(f) : f[j] \in 1..Len(up) /\ up[f[j]].session = id
  BY <1>1 DEF Follows, Places
<1> HIDE DEF g, m, u
<1>7. \A j \in 1..Len(g) : j \in 1..Len(f) \/ j = Len(f) + 1
  BY <1>2, <1>3
<1>8. \A j \in 1..Len(g) : g[j] \in Places(u, id)
  <2> SUFFICES ASSUME NEW j \in 1..Len(g) PROVE g[j] \in Places(u, id)
    OBVIOUS
  <2>1. CASE j = Len(f) + 1
    BY <1>2, <1>3, <1>4, <2>1 DEF Places
  <2>2. CASE j \in 1..Len(f)
    <3>1. g[j] \in 1..Len(up) /\ up[g[j]].session = id
      BY <1>3, <1>6, <2>2
    <3>2. u[g[j]] = up[g[j]] /\ g[j] \in 1..Len(u)
      BY <1>2, <1>4, <3>1
    <3>3. QED
      BY <3>1, <3>2 DEF Places
  <2>3. QED
    BY <1>7, <2>1, <2>2
<1>9. \A i \in Places(u, id) : \E j \in 1..Len(g) : g[j] = i
  <2> SUFFICES ASSUME NEW i \in Places(u, id) PROVE \E j \in 1..Len(g) : g[j] = i
    OBVIOUS
  <2>1. CASE i = Len(up) + 1
    BY <1>2, <1>3, <2>1
  <2>2. CASE i \in 1..Len(up)
    <3>1. i \in Places(up, id)
      BY <1>4, <2>2 DEF Places
    <3>2. PICK j \in 1..Len(f) : f[j] = i
      BY <1>1, <3>1 DEF Follows
    <3>3. j \in 1..Len(g) /\ g[j] = f[j]
      BY <1>2, <1>3
    <3>4. QED
      BY <3>2, <3>3
  <2>3. QED
    BY <1>2, <1>4, <2>1, <2>2 DEF Places
<1>10. \A i, j \in 1..Len(g) : i < j => g[i] < g[j]
  <2> SUFFICES ASSUME NEW i \in 1..Len(g), NEW j \in 1..Len(g), i < j PROVE g[i] < g[j]
    OBVIOUS
  <2>1. i \in 1..Len(f) /\ g[i] = f[i] /\ f[i] \in 1..Len(up)
    <3>1. i \in 1..Len(f)
      <4>1. i \in 1..(Len(f) + 1) /\ j \in 1..(Len(f) + 1)
        BY <1>3
      <4>2. QED
        BY <1>2, <4>1
    <3>2. QED
      BY <1>3, <1>6, <3>1
  <2>2. CASE j = Len(f) + 1
    <3>1. g[j] = Len(up) + 1
      BY <1>3, <2>2
    <3>2. QED
      BY <1>2, <2>1, <3>1
  <2>3. CASE j \in 1..Len(f)
    BY <1>1, <1>3, <2>1, <2>3 DEF Follows
  <2>4. QED
    BY <1>7, <2>2, <2>3
<1>11. \A j \in 1..Len(store) : m[j] = store[j]
  BY <1>1, <1>2, <1>5, <1>6 DEF Follows
<1>12. \A j \in 1..Len(g) : m[Len(store) + j] = UserMessage(u[g[j]].turn)
  <2> SUFFICES ASSUME NEW j \in 1..Len(g) PROVE m[Len(store) + j] = UserMessage(u[g[j]].turn)
    OBVIOUS
  <2>1. CASE j = Len(f) + 1
    <3>1. Len(store) + j = Len(messages) + 1
      BY <1>2, <1>6, <2>1
    <3>2. u[g[j]] = next
      BY <1>3, <1>4, <2>1
    <3>3. QED
      BY <1>5, <3>1, <3>2
  <2>2. CASE j \in 1..Len(f)
    <3>1. Len(store) + j \in 1..Len(messages)
      BY <1>2, <1>6, <2>2
    <3>2. m[Len(store) + j] = messages[Len(store) + j]
      BY <1>5, <3>1
    <3>3. messages[Len(store) + j] = UserMessage(up[f[j]].turn)
      BY <1>1, <2>2 DEF Follows
    <3>4. u[g[j]] = up[f[j]]
      BY <1>3, <1>4, <1>6, <2>2
    <3>5. QED
      BY <3>2, <3>3, <3>4
  <2>3. QED
    BY <1>2, <1>3, <2>1, <2>2
<1>13. Len(m) = Len(store) + Len(g)
  BY <1>2, <1>3, <1>5, <1>6
<1>14. Follows(m, store, u, id, g)
  BY <1>3, <1>8, <1>9, <1>10, <1>11, <1>12, <1>13 DEF Follows
<1>15. QED
  BY <1>14 DEF CaughtUp, m, u

(* The socket's first frame is taken.                                      *)
LEMMA FirstPlace ==
    ASSUME NEW messages, NEW store, NEW up, NEW id, NEW f, Follows(messages, store, up, id, f),
           1 \in Places(up, id)
    PROVE  Len(f) >= 1 /\ f[1] = 1
<1>1. PICK j \in 1..Len(f) : f[j] = 1
  BY DEF Follows
<1>2. Len(f) \in Nat /\ 1 \in 1..Len(f)
  BY <1>1 DEF Follows
<1>3. f[1] \in 1..Len(up)
  BY <1>2 DEF Follows, Places
<1>4. 1 < j => f[1] < f[j]
  BY <1>1, <1>2 DEF Follows
<1>5. QED
  BY <1>1, <1>2, <1>3, <1>4

LEMMA TakenForIt ==
    ASSUME NEW S, NEW T, NEW store \in Seq(S), NEW messages, NEW up \in Seq(T), NEW id,
           NEW rest, Len(up) >= 1, Len(rest) = Len(up) - 1,
           \A i \in 1..Len(rest) : rest[i] = up[i + 1],
           up[1].session = id, CaughtUp(messages, store, up, id)
    PROVE  CaughtUp(messages, Append(store, UserMessage(up[1].turn)), rest, id)
<1>1. PICK f : Follows(messages, store, up, id, f)
  BY DEF CaughtUp
<1> DEFINE s == Append(store, UserMessage(up[1].turn))
           g == [j \in 1..(Len(f) - 1) |-> f[j + 1] - 1]
<1>2. f \in Seq(Nat) /\ Len(f) \in Nat /\ Len(up) \in Nat /\ Len(store) \in Nat
  BY <1>1 DEF Follows
<1>3. 1 \in Places(up, id)
  BY <1>2 DEF Places
<1>4. Len(f) >= 1 /\ f[1] = 1
  BY <1>1, <1>3, FirstPlace
<1>5. \A j \in 1..(Len(f) - 1) :
        j + 1 \in 1..Len(f) /\ f[j + 1] \in 2..Len(up) /\ up[f[j + 1]].session = id
  <2> SUFFICES ASSUME NEW j \in 1..(Len(f) - 1)
               PROVE  j + 1 \in 1..Len(f) /\ f[j + 1] \in 2..Len(up) /\ up[f[j + 1]].session = id
    OBVIOUS
  <2>1. j + 1 \in 1..Len(f) /\ 1 \in 1..Len(f) /\ 1 < j + 1
    BY <1>2
  <2>2. f[1] < f[j + 1] /\ f[j + 1] \in Places(up, id)
    BY <1>1, <2>1 DEF Follows
  <2>3. f[j + 1] \in 1..Len(up) /\ up[f[j + 1]].session = id
    BY <2>2 DEF Places
  <2>4. \A k \in 1..Len(up) : 1 < k => k \in 2..Len(up)
    BY <1>2
  <2>5. f[j + 1] \in 2..Len(up)
    BY <1>4, <2>2, <2>3, <2>4
  <2>6. QED
    BY <2>1, <2>3, <2>5
<1>6. g \in Seq(Nat) /\ Len(g) = Len(f) - 1 /\ \A j \in 1..Len(g) : g[j] = f[j + 1] - 1
  <2>1. ASSUME NEW j \in 1..(Len(f) - 1) PROVE f[j + 1] - 1 \in Nat
    <3>1. f[j + 1] \in 2..Len(up)
      BY <1>5
    <3>2. \A k \in 2..Len(up) : k - 1 \in Nat
      OBVIOUS
    <3>3. QED
      BY <3>1, <3>2
  <2>2. Len(f) - 1 \in Nat
    BY <1>2, <1>4
  <2>3. QED
    BY <2>1, <2>2
<1>7. /\ Len(s) = Len(store) + 1 /\ s[Len(store) + 1] = UserMessage(up[1].turn)
      /\ \A j \in 1..Len(store) : s[j] = store[j]
  OBVIOUS
<1> HIDE DEF s, g
<1>8. \A j \in 1..Len(g) : g[j] \in 1..Len(rest) /\ rest[g[j]] = up[f[j + 1]]
  <2> SUFFICES ASSUME NEW j \in 1..Len(g) PROVE g[j] \in 1..Len(rest) /\ rest[g[j]] = up[f[j + 1]]
    OBVIOUS
  <2>1. f[j + 1] \in 2..Len(up) /\ g[j] = f[j + 1] - 1
    BY <1>5, <1>6
  <2>2. g[j] \in 1..Len(rest) /\ g[j] + 1 = f[j + 1]
    BY <1>2, <2>1, OneBefore
  <2>3. QED
    BY <2>2
<1>9. \A j \in 1..Len(g) : g[j] \in Places(rest, id)
  <2> SUFFICES ASSUME NEW j \in 1..Len(g) PROVE g[j] \in Places(rest, id)
    OBVIOUS
  <2>1. j \in 1..(Len(f) - 1)
    BY <1>6
  <2>2. up[f[j + 1]].session = id
    BY <1>5, <2>1
  <2>3. g[j] \in 1..Len(rest) /\ rest[g[j]].session = id
    BY <1>8, <2>2
  <2>4. QED
    BY <2>3 DEF Places
<1>10. \A i \in Places(rest, id) : \E j \in 1..Len(g) : g[j] = i
  <2> SUFFICES ASSUME NEW i \in Places(rest, id) PROVE \E j \in 1..Len(g) : g[j] = i
    OBVIOUS
  <2>1. i \in 1..Len(rest) /\ rest[i].session = id
    BY DEF Places
  <2>2. i + 1 \in Places(up, id) /\ i \in Nat /\ i >= 1
    BY <1>2, <2>1 DEF Places
  <2>3. PICK j \in 1..Len(f) : f[j] = i + 1
    BY <1>1, <2>2 DEF Follows
  <2>4. j \in 2..Len(f)
    BY <1>2, <1>4, <2>2, <2>3
  <2>5. j - 1 \in 1..Len(g) /\ (j - 1) + 1 = j
    BY <1>2, <1>6, <2>4, OneBefore
  <2>6. g[j - 1] = f[j] - 1
    BY <1>6, <2>5
  <2>7. QED
    BY <2>2, <2>3, <2>5, <2>6
<1>11. \A i, j \in 1..Len(g) : i < j => g[i] < g[j]
  <2> SUFFICES ASSUME NEW i \in 1..Len(g), NEW j \in 1..Len(g), i < j PROVE g[i] < g[j]
    OBVIOUS
  <2>1. i + 1 \in 1..Len(f) /\ j + 1 \in 1..Len(f) /\ i + 1 < j + 1
    BY <1>2, <1>6
  <2>2. f[i + 1] < f[j + 1]
    BY <1>1, <2>1 DEF Follows
  <2>3. g[i] = f[i + 1] - 1 /\ g[j] = f[j + 1] - 1
    BY <1>6
  <2>4. \A k \in 1..Len(f) : f[k] \in Nat
    BY <1>2
  <2>5. f[i + 1] \in Nat /\ f[j + 1] \in Nat
    BY <2>1, <2>4
  <2>6. QED
    BY <2>2, <2>3, <2>5
<1>12. Len(messages) = Len(s) + Len(g)
  <2>1. Len(messages) = Len(store) + Len(f)
    BY <1>1 DEF Follows
  <2>2. QED
    BY <1>2, <1>6, <1>7, <2>1
<1>13. \A j \in 1..Len(s) : messages[j] = s[j]
  <2>1. 1 \in 1..Len(f) /\ \A j \in 1..Len(f) : messages[Len(store) + j] = UserMessage(up[f[j]].turn)
    BY <1>1, <1>2, <1>4 DEF Follows
  <2>2. messages[Len(store) + 1] = UserMessage(up[1].turn)
    BY <1>4, <2>1
  <2>3. \A j \in 1..Len(store) : messages[j] = store[j]
    BY <1>1 DEF Follows
  <2>4. \A j \in 1..Len(s) : j \in 1..Len(store) \/ j = Len(store) + 1
    BY <1>2, <1>7
  <2>5. QED
    BY <1>7, <2>2, <2>3, <2>4
<1>14. \A j \in 1..Len(g) : messages[Len(s) + j] = UserMessage(rest[g[j]].turn)
  <2> SUFFICES ASSUME NEW j \in 1..Len(g)
               PROVE  messages[Len(s) + j] = UserMessage(rest[g[j]].turn)
    OBVIOUS
  <2>1. j + 1 \in 1..Len(f)
    BY <1>5, <1>6
  <2>2. messages[Len(store) + (j + 1)] = UserMessage(up[f[j + 1]].turn)
    BY <1>1, <2>1 DEF Follows
  <2>3. Len(store) + (j + 1) = Len(s) + j
    BY <1>2, <1>7
  <2>4. QED
    BY <1>8, <2>2, <2>3
<1>15. Follows(messages, s, rest, id, g)
  BY <1>6, <1>9, <1>10, <1>11, <1>12, <1>13, <1>14 DEF Follows
<1>16. QED
  BY <1>15 DEF CaughtUp, s

LEMMA TakenForAnother ==
    ASSUME NEW S, NEW T, NEW store \in Seq(S), NEW messages, NEW up \in Seq(T), NEW id,
           NEW rest, Len(up) >= 1, Len(rest) = Len(up) - 1,
           \A i \in 1..Len(rest) : rest[i] = up[i + 1],
           up[1].session # id, CaughtUp(messages, store, up, id)
    PROVE  CaughtUp(messages, store, rest, id)
<1>1. PICK f : Follows(messages, store, up, id, f)
  BY DEF CaughtUp
<1> DEFINE g == [j \in 1..Len(f) |-> f[j] - 1]
<1>2. f \in Seq(Nat) /\ Len(f) \in Nat /\ Len(up) \in Nat
  BY <1>1 DEF Follows
<1>3. \A j \in 1..Len(f) : f[j] \in 2..Len(up) /\ up[f[j]].session = id
  <2>1. \A j \in 1..Len(f) : f[j] \in 1..Len(up) /\ up[f[j]].session = id
    BY <1>1 DEF Follows, Places
  <2>2. QED
    BY <1>2, <2>1
<1>4. g \in Seq(Nat) /\ Len(g) = Len(f) /\ \A j \in 1..Len(g) : g[j] = f[j] - 1
  <2>1. \A j \in 1..Len(f) : f[j] - 1 \in Nat
    BY <1>2, <1>3, OneBefore
  <2>2. QED
    BY <1>2, <2>1
<1> HIDE DEF g
<1>5. \A j \in 1..Len(g) : g[j] \in 1..Len(rest) /\ rest[g[j]] = up[f[j]]
  <2> SUFFICES ASSUME NEW j \in 1..Len(g) PROVE g[j] \in 1..Len(rest) /\ rest[g[j]] = up[f[j]]
    OBVIOUS
  <2>1. f[j] \in 2..Len(up) /\ g[j] = f[j] - 1
    BY <1>3, <1>4
  <2>2. g[j] \in 1..Len(rest) /\ g[j] + 1 = f[j]
    BY <1>2, <2>1, OneBefore
  <2>3. QED
    BY <2>2
<1>6. \A j \in 1..Len(g) : g[j] \in Places(rest, id)
  BY <1>3, <1>4, <1>5 DEF Places
<1>7. \A i \in Places(rest, id) : \E j \in 1..Len(g) : g[j] = i
  <2> SUFFICES ASSUME NEW i \in Places(rest, id) PROVE \E j \in 1..Len(g) : g[j] = i
    OBVIOUS
  <2>1. i \in 1..Len(rest) /\ rest[i].session = id
    BY DEF Places
  <2>2. i + 1 \in Places(up, id) /\ i \in Nat
    BY <1>2, <2>1 DEF Places
  <2>3. PICK j \in 1..Len(f) : f[j] = i + 1
    BY <1>1, <2>2 DEF Follows
  <2>4. QED
    BY <1>4, <2>2, <2>3
<1>8. \A i, j \in 1..Len(g) : i < j => g[i] < g[j]
  <2> SUFFICES ASSUME NEW i \in 1..Len(g), NEW j \in 1..Len(g), i < j PROVE g[i] < g[j]
    OBVIOUS
  <2>1. f[i] < f[j]
    BY <1>1, <1>4 DEF Follows
  <2>2. f[i] \in Nat /\ f[j] \in Nat /\ g[i] = f[i] - 1 /\ g[j] = f[j] - 1
    BY <1>2, <1>3, <1>4, OneBefore
  <2>3. QED
    BY <2>1, <2>2
<1>9. \A j \in 1..Len(g) : messages[Len(store) + j] = UserMessage(rest[g[j]].turn)
  BY <1>1, <1>4, <1>5 DEF Follows
<1>10. Follows(messages, store, rest, id, g)
  BY <1>1, <1>4, <1>6, <1>7, <1>8, <1>9 DEF Follows
<1>11. QED
  BY <1>10 DEF CaughtUp
-----------------------------------------------------------------------------
(* The invariant: unless something excuses it, the session that was asked  *)
(* for last is about to be loaded, or what is shown is exact.              *)
Loads(r) == r.op \in {"load", "model"} /\ r.id = asked
DoneFor(frame) == frame.type = "chat.done" /\ frame.session = asked
LoadComes ==
    \/ \E r \in BagToSet(net) : Loads(r)
    \/ \E k \in 1..Ws : \E i \in 1..Len(Down(k)) : DoneFor(Down(k)[i])
Exact ==
    /\ active # None /\ active.id = asked /\ active.model = model[asked]
    /\ \A k \in 1..Ws :
          IF k = Ws THEN CaughtUp(active.messages, stored[asked], Up(k), asked)
          ELSE NoneFor(Up(k), asked)
    /\ sockets[Ws].state # "open" => NoneFor(Up(Ws), asked)
ViewInv ==
    ~blurred =>
        /\ asked = None => active = None
        /\ asked # None /\ Exists(asked) => LoadComes \/ Exact

LEMMA BodyIsNotNull == ASSUME NEW n \in Nat, NEW b \in Bodies(n) PROVE b # None
<1> DEFINE Plain == [role : {"user", "tool", "assistant"}, turn : Nat, text : Seq(Nat \X Nat)]
<1>1. Deltas(n) \subseteq Nat \X Nat
  <2>1. 1..n \subseteq Nat /\ 1..Parts \subseteq Nat
    BY SomeParts
  <2>2. QED
    BY <2>1 DEF Deltas
<1>2. Seq(Deltas(n)) \subseteq Seq(Nat \X Nat)
  BY <1>1, SeqGrows
<1>3. MessagesTo(n) \subseteq Plain
  <2>1. 1..n \subseteq Nat
    OBVIOUS
  <2>2. QED
    BY <1>2, <2>1 DEF MessagesTo
<1>4. None \notin [id : Sessions, model : Models \cup {None}, messages : Seq(Plain)]
  BY ChatPanelAssumption
<1> HIDE DEF Plain
<1>5. Seq(MessagesTo(n)) \subseteq Seq(Plain)
  BY <1>3, SeqGrows
<1>6. QED
  BY <1>4, <1>5 DEF Bodies

(* What C1 gave of a session is all it has, or the session will be loaded  *)
(* again.                                                                  *)
Given(id) == givenBody[id] = Body(id) /\ ~Unheard(id)
Gives(r, id) == r.id = id /\ ((r.op = "load" /\ r.got = Pending) \/ r.op = "model")
GivenComes(id) ==
    \/ \E r \in BagToSet(net) : Gives(r, id)
    \/ \E k \in 1..Ws : \E i \in 1..Len(Down(k)) :
           Down(k)[i].type = "chat.done" /\ Down(k)[i].session = id
Seen(id) == Gone(id) \/ Given(id) \/ GivenComes(id)
SeenInv == \A id \in Sessions \ unseen : Seen(id)

LEMMA ViewSuffices == PanelInv /\ ViewInv => ViewTruthful
<1> SUFFICES ASSUME PanelInv, ViewInv, AtRest, asked # None, Exists(asked), ~blurred
             PROVE  active = Body(asked)
  BY DEF ViewTruthful, ViewInv
<1>1. ASSUME NEW k \in 1..Ws PROVE Up(k) = <<>> /\ Down(k) = <<>>
  BY DEF AtRest, Busy, Up, Down
<1>2. ~LoadComes
  <2>1. BagToSet(net) = {}
    BY EmptyIsBag DEF AtRest
  <2>2. QED
    BY <1>1, <2>1 DEF LoadComes
<1>3. Exact
  BY <1>2 DEF ViewInv
<1>4. PICK k \in 1..Ws : k = Ws
  BY LastOne
<1>5. CaughtUp(active.messages, stored[asked], <<>>, asked)
  BY <1>1, <1>3, <1>4 DEF Exact
<1>6. active \in Bodies(N) /\ asked \in Sessions
  BY <1>3 DEF PanelInv, ViewOK, Exact, Bodies
<1>7. active.messages \in Seq(MessagesTo(N)) /\ stored[asked] \in Seq(MessagesTo(N))
  BY <1>6, StoredType DEF Bodies
<1>8. active.messages = stored[asked]
  BY <1>5, <1>7, AllStored
<1>9. active = [id |-> active.id, model |-> active.model, messages |-> active.messages]
  BY <1>6 DEF Bodies
<1>10. QED
  BY <1>3, <1>8, <1>9 DEF Body, Exact

LEMMA ViewInit == ChatInit => ViewInv
  BY DEF ChatInit, ViewInv

(* What a step leaves as it was.                                           *)
LoadsStay ==
    \A r \in BagToSet(net) : Loads(r) =>
        \E q \in BagToSet(net') : q.op \in {"load", "model"} /\ q.id = r.id
DonesStay ==
    /\ Ws' = Ws
    /\ \A k \in 1..Ws : \A i \in 1..Len(Down(k)) : Down(k)[i].type = "chat.done" =>
          \E j \in 1..Len(Down(k)') : Down(k)'[j] = Down(k)[i]
UpsStay ==
    /\ Ws' = Ws /\ \A k \in 1..Ws : Up(k)' = Up(k)
    /\ sockets[Ws].state = "open" => sockets'[Ws].state = "open" \/ Up(Ws) = <<>>

LEMMA LoadStillComes ==
    ASSUME LoadComes, LoadsStay, DonesStay, UNCHANGED asked
    PROVE  LoadComes'
<1>1. ASSUME NEW r \in BagToSet(net), Loads(r) PROVE LoadComes'
  <2>1. PICK q \in BagToSet(net') : q.op \in {"load", "model"} /\ q.id = r.id
    BY <1>1 DEF LoadsStay, Loads
  <2>2. q.op \in {"load", "model"} /\ q.id = asked'
    BY <1>1, <2>1 DEF Loads
  <2>3. QED
    BY <2>2 DEF LoadComes, Loads
<1>2. ASSUME NEW k \in 1..Ws, NEW i \in 1..Len(Down(k)), DoneFor(Down(k)[i]) PROVE LoadComes'
  <2>1. PICK j \in 1..Len(Down(k)') : Down(k)'[j] = Down(k)[i]
    BY <1>2 DEF DonesStay, DoneFor
  <2>2. k \in 1..Ws' /\ DoneFor(Down(k)[j])'
    BY <1>2, <2>1 DEF DonesStay, DoneFor
  <2>3. QED
    BY <2>2 DEF LoadComes
<1>3. QED
  BY <1>1, <1>2 DEF LoadComes

LEMMA StillExact ==
    ASSUME PanelInv, Exact, UpsStay, UNCHANGED <<asked, active>>,
           model'[asked] = model[asked], stored'[asked] = stored[asked]
    PROVE  Exact'
<1>1. \A k \in 1..Ws : Up(k)' = Up(k)
  BY DEF UpsStay
<1>2. Ws' = Ws
  BY DEF UpsStay
<1>3. \A k \in 1..Ws' : (IF k = Ws' THEN CaughtUp(active'.messages, stored'[asked'], Up(k)', asked')
                         ELSE NoneFor(Up(k)', asked'))
  BY <1>1, <1>2 DEF Exact
<1>4. sockets'[Ws'].state # "open" => NoneFor(Up(Ws)', asked')
  <2> SUFFICES ASSUME sockets'[Ws].state # "open" PROVE NoneFor(Up(Ws)', asked)
    BY <1>2
  <2>1. PICK k \in 1..Ws : k = Ws
    BY LastOne
  <2>2. Up(Ws)' = Up(Ws)
    BY <1>1, <1>2, <2>1 DEF Up
  <2>3. NoneFor(Up(Ws), asked)
    <3>1. CASE sockets[Ws].state # "open"
      BY <3>1 DEF Exact
    <3>2. CASE Up(Ws) = <<>>
      BY <3>2 DEF NoneFor
    <3>3. QED
      BY <3>1, <3>2 DEF UpsStay
  <2>4. QED
    BY <2>2, <2>3
<1>5. QED
  BY <1>3, <1>4 DEF Exact

LEMMA ViewSame ==
    ASSUME PanelInv, ViewInv, LoadsStay, DonesStay, UpsStay, UNCHANGED <<asked, active>>,
           ~blurred' => ~blurred,
           asked # None /\ Exists(asked)' =>
               /\ Exists(asked) /\ stored'[asked] = stored[asked]
               /\ model'[asked] = model[asked] \/ LoadComes'
    PROVE  ViewInv'
<1> SUFFICES ASSUME ~blurred', asked' # None, Exists(asked)' PROVE LoadComes' \/ Exact'
  BY DEF ViewInv
<1>1. LoadComes \/ Exact
  BY DEF ViewInv
<1>2. QED
  BY <1>1, LoadStillComes, StillExact

LEMMA SocketsStay == UNCHANGED sockets => DonesStay /\ UpsStay
  BY DEF DonesStay, UpsStay, Down, Up, Ws

LEMMA MoreLoads == BagToSet(net) \subseteq BagToSet(net') => LoadsStay
  BY DEF LoadsStay, Loads

LEMMA LoadsBut ==
    ASSUME NEW r, ~Loads(r),
           \A q \in BagToSet(net) : q # r => q \in BagToSet(net')
    PROVE  LoadsStay
  BY DEF LoadsStay, Loads

(* A session is selected: another one is loaded.                           *)
LEMMA SelectView ==
    ASSUME PanelInv, ViewInv, NEW id, NEW others, IsABag(others), Select(id, others),
           \A q \in BagToSet(net) : Loads(q) => q \in BagToSet(others),
           UNCHANGED <<blurred, status, stored, model, sockets>>
    PROVE  ViewInv'
<1>1. CASE id = activeId
  <2>1. UNCHANGED <<asked, active>>
    BY <1>1 DEF Select
  <2>2. LoadsStay
    BY SelectNet DEF LoadsStay, Loads
  <2>3. QED
    BY <2>1, <2>2, SocketsStay, ViewSame DEF Exists
<1>2. CASE id # activeId /\ id = None
  BY <1>2 DEF Select, Show, ViewInv
<1>3. CASE id \notin {activeId, None}
  <2>1. Load(id) \in BagToSet(net') /\ asked' = id
    BY <1>3, SelectNet DEF Select
  <2>2. Loads(Load(id))'
    BY <2>1 DEF Loads, Load, Request
  <2>3. LoadComes'
    BY <2>1, <2>2 DEF LoadComes
  <2>4. QED
    BY <1>3, <2>1, <2>3 DEF ViewInv
<1>4. QED
  BY <1>1, <1>2, <1>3

LEMMA SendView == ASSUME PanelInv, ListInv, ViewInv, Send PROVE ViewInv'
<1> DEFINE n == Len(typed) + 1
<1>1. PICK k \in 1..Ws : k = Ws /\ k \in 1..Len(sockets) /\ sockets[k] \in SocketStates(N)
  BY LastOne
<1> DEFINE next == [session |-> activeId, turn |-> n]
           x == [sockets[k] EXCEPT !.up = Append(@, next)]
<1>2. /\ UNCHANGED <<asked, net, status, model, stored>> /\ (~blurred' => ~blurred)
      /\ active = None => active' = None
  BY DEF Send, server
<1>3. CASE sockets[k].state # "open"
  BY <1>1, <1>3 DEF Send, ViewInv
<1>4. CASE sockets[k].state = "open"
  <2>1. sockets' = [sockets EXCEPT ![k] = x]
    BY <1>1, <1>4 DEF Send, PanelInv, SocketsOK
  <2>2. next.session = activeId /\ next.turn = n
    OBVIOUS
  <2> HIDE DEF next
  <2>3. x.up = Append(Up(k), next) /\ x.down = Down(k)
    BY <1>1 DEF SocketStates, Up, Down
  <2> HIDE DEF x
  <2>4. /\ Ws' = Ws /\ Ws' = k /\ sockets'[k] = x
        /\ \A l \in 1..Ws : l # k => sockets'[l] = sockets[l]
    BY <1>1, <2>1, OneSocket DEF PanelInv
  <2>5. Up(k)' = Append(Up(k), next) /\ \A l \in 1..Ws : Down(l)' = Down(l)
    BY <2>3, <2>4 DEF Up, Down
  <2>6. \A l \in 1..Ws : l # k => Up(l)' = Up(l)
    BY <2>4 DEF Up
  <2>7. DonesStay /\ LoadsStay
    BY <1>2, <2>4, <2>5, MoreLoads DEF DonesStay
  <2>8. ASSUME Exact, asked # None, ~blurred' PROVE Exact'
    <3>1. /\ active # None /\ active \in Bodies(N) /\ asked \in Sessions
          /\ active.id = asked /\ activeId = asked
      BY <2>8 DEF Exact, PanelInv, ViewOK, Bodies, Send
    <3>2. active' = [active EXCEPT !.messages = Append(@, UserMessage(n))]
      BY <3>1 DEF Send
    <3> HIDE DEF n
    <3>3. /\ active'.id = active.id /\ active'.model = active.model
          /\ active'.messages = Append(active.messages, UserMessage(n))
      BY <3>1, <3>2 DEF Bodies
    <3>4. active' # None
      <4>1. N \in Nat /\ n = N + 1 /\ n \in 1..n /\ <<>> \in Seq(Deltas(n))
        BY UpType DEF N, n
      <4>2. UserMessage(n) \in MessagesTo(n) /\ active \in Bodies(n)
        BY <3>1, <4>1, TypedMore DEF UserMessage, MessagesTo
      <4>3. Append(active.messages, UserMessage(n)) \in Seq(MessagesTo(n))
        BY <4>2 DEF Bodies
      <4>4. active' \in Bodies(n)
        BY <3>2, <4>2, <4>3 DEF Bodies
      <4>5. QED
        BY <4>1, <4>4, BodyIsNotNull
    <3>5. CaughtUp(active.messages, stored[asked], Up(k), asked)
      BY <1>1, <2>8 DEF Exact
    <3>6. /\ active.messages \in Seq(MessagesTo(N)) /\ stored[asked] \in Seq(MessagesTo(N))
          /\ Up(k) \in Seq(UpFrames(N))
      BY <3>1, StoredType, UpType DEF Bodies
    <3>7. CaughtUp(active'.messages, stored[asked], Append(Up(k), next), asked)
      BY <2>2, <3>1, <3>3, <3>5, <3>6, OneMoreTyped
    <3>8. \A l \in 1..Ws : l # k => NoneFor(Up(l)', asked)
      BY <1>1, <2>6, <2>8 DEF Exact
    <3>9. sockets'[Ws'].state = "open"
      BY <1>1, <1>4, <2>4 DEF x, SocketStates
    <3>10. QED
      BY <1>2, <2>4, <2>5, <2>8, <3>3, <3>4, <3>7, <3>8, <3>9 DEF Exact
  <2>9. QED
    BY <1>2, <2>7, <2>8, LoadStillComes DEF ViewInv, Exists
<1>5. QED
  BY <1>3, <1>4

(* The socket that is closed had nothing under way, or that is the excuse. *)
LEMMA TypeView == ASSUME PanelInv, ListInv, ViewInv, NEW q \in Queries, Type(q) PROVE ViewInv'
<1>1. PICK k \in 1..Ws : k = Ws
  BY LastOne
<1>2. UNCHANGED <<asked, active, status, model, stored>> /\ (~blurred' => ~blurred /\ ~Busy(k))
  BY <1>1 DEF Type, Abandon, server
<1>3. SUFFICES ASSUME ~blurred' PROVE asked # None /\ Exists(asked) => LoadComes' \/ Exact'
  BY <1>2 DEF ViewInv, Exists
<1>4. Up(k) = <<>> /\ Down(k) = <<>>
  BY <1>2, <1>3 DEF Busy, Up, Down
<1>5. /\ Ws' = Ws + 1 /\ Ws \in Nat
      /\ \A l \in 1..Ws' :
            \/ l = Ws + 1 /\ sockets'[l] = NewSocket
            \/ l \in 1..Ws /\ l < Ws /\ sockets'[l] = sockets[l]
            \/ /\ l \in 1..Ws /\ l = Ws
               /\ sockets'[l].down = <<>> /\ sockets'[l].up = sockets[l].up
               /\ sockets'[l].state = "closed" /\ sockets'[l].serving = sockets[l].serving
  BY TypedSockets
<1>6. \A l \in 1..Ws' : l # Ws' => l \in 1..Ws /\ Up(l)' = Up(l) /\ Down(l)' = Down(l)
  <2> SUFFICES ASSUME NEW l \in 1..Ws', l # Ws'
               PROVE  l \in 1..Ws /\ Up(l)' = Up(l) /\ Down(l)' = Down(l)
    OBVIOUS
  <2>1. CASE l \in 1..Ws /\ sockets'[l] = sockets[l]
    BY <2>1 DEF Up, Down
  <2>2. CASE l \in 1..Ws /\ l = Ws /\ sockets'[l].down = <<>> /\ sockets'[l].up = sockets[l].up
    BY <1>1, <1>4, <2>2 DEF Up, Down
  <2>3. QED
    BY <1>5, <2>1, <2>2
<1>7. ASSUME NEW l \in 1..Ws', l = Ws' PROVE Up(l)' = <<>>
  BY <1>5, <1>7 DEF Up, NewSocket
<1>8. ASSUME LoadComes PROVE LoadComes'
  <2>1. ASSUME NEW r \in BagToSet(net), Loads(r) PROVE LoadComes'
    <3>1. r \in BagToSet(net') /\ Loads(r)'
      BY <1>2, <2>1, PutNet DEF Type, Added, ListInv, NetBag, Loads
    <3>2. QED
      BY <3>1 DEF LoadComes
  <2>2. ASSUME NEW l \in 1..Ws, NEW i \in 1..Len(Down(l)), DoneFor(Down(l)[i]) PROVE LoadComes'
    <3>1. l \in 1..Ws' /\ l # Ws'
      BY <1>5
    <3>2. Down(l)' = Down(l)
      BY <1>6, <3>1
    <3>3. DoneFor(Down(l)[i])'
      BY <1>2, <2>2, <3>2 DEF DoneFor
    <3>4. QED
      BY <3>1, <3>2, <3>3 DEF LoadComes
  <2>3. QED
    BY <1>8, <2>1, <2>2 DEF LoadComes
<1>9. ASSUME Exact PROVE Exact'
  <2>1. CaughtUp(active.messages, stored[asked], <<>>, asked)
    BY <1>1, <1>4, <1>9 DEF Exact
  <2>2. \A l \in 1..Ws' : IF l = Ws' THEN CaughtUp(active.messages, stored[asked], Up(l)', asked)
                          ELSE NoneFor(Up(l)', asked)
    <3> SUFFICES ASSUME NEW l \in 1..Ws'
                 PROVE  IF l = Ws' THEN CaughtUp(active.messages, stored[asked], Up(l)', asked)
                        ELSE NoneFor(Up(l)', asked)
      OBVIOUS
    <3>1. CASE l = Ws'
      BY <1>7, <2>1, <3>1
    <3>2. CASE l # Ws'
      <4>1. l \in 1..Ws /\ Up(l)' = Up(l)
        BY <1>6, <3>2
      <4>2. NoneFor(Up(l), asked)
        <5>1. CASE l = k
          BY <1>4, <5>1 DEF NoneFor
        <5>2. CASE l # k
          BY <1>1, <1>9, <4>1, <5>2 DEF Exact
        <5>3. QED
          BY <5>1, <5>2
      <4>3. QED
        BY <3>2, <4>1, <4>2
    <3>3. QED
      BY <3>1, <3>2
  <2>3. QED
    <3>1. sockets'[Ws'].state # "open" => NoneFor(Up(Ws)', asked)
      <4>1. PICK l \in 1..Ws' : l = Ws'
        BY <1>5
      <4>2. Up(Ws)' = <<>>
        BY <1>7, <4>1
      <4>3. QED
        BY <4>2 DEF NoneFor
    <3>2. QED
      BY <1>2, <1>9, <2>2, <3>1 DEF Exact
<1>10. QED
  BY <1>2, <1>3, <1>8, <1>9 DEF ViewInv

LEMMA UserView == ASSUME PanelInv, ListInv, ViewInv, UserActs PROVE ViewInv'
<1>1. NetBag /\ ViewInv
  BY DEF ListInv
<1>2. ASSUME NEW op, NEW id, NEW arg, Ask(op, id, arg) PROVE ViewInv'
  <2>1. BagToSet(net) \subseteq BagToSet(net')
    BY <1>1, <1>2, PutNet DEF Ask, Added, NetBag
  <2>2. UNCHANGED <<asked, active, blurred, status, model, stored, sockets>>
    BY <1>2 DEF Ask, view, server, history, shownHistory
  <2>3. QED
    BY <1>1, <2>1, <2>2, MoreLoads, SocketsStay, ViewSame DEF Exists
<1>3. ASSUME NEW id, SelectSession(id) PROVE ViewInv'
  <2>1. Select(id, net) /\ UNCHANGED <<blurred, status, stored, model, sockets>>
    BY <1>3 DEF SelectSession, server
  <2>2. QED
    BY <1>1, <2>1, SelectView DEF NetBag
<1>4. CASE ToggleSearch
  <2>1. UNCHANGED <<asked, active, blurred, status, model, stored, net, sockets>>
    BY <1>4 DEF ToggleSearch, server, history, shownHistory
  <2>2. QED
    BY <1>1, <2>1, MoreLoads, SocketsStay, ViewSame DEF Exists
<1>5. QED
  BY <1>2, <1>3, <1>4, SendView, TypeView
  DEF UserActs, PinSession, ArchiveSession, DeleteSession, SetSessionModel, NewSession

(* The server answers: the answer stands for the request.                  *)
LEMMA ServerView == ASSUME PanelInv, ListInv, BornInv, ViewInv, ServerAnswers PROVE ViewInv'
<1>1. PICK r \in BagToSet(net) :
        /\ r.got = Pending
        /\ AnswerList(r) \/ AnswerLoad(r) \/ AnswerCreate(r) \/ AnswerPatch(r) \/ AnswerDelete(r)
        /\ UNCHANGED <<view, sockets, asked, blurred>>
  BY DEF ServerAnswers
<1>2. PICK got : net' = Instead(r, [r EXCEPT !.got = got])
  BY <1>1 DEF AnswerList, AnswerLoad, AnswerCreate, AnswerPatch, AnswerDelete, Reply
<1> DEFINE reply == [r EXCEPT !.got = got]
<1>3. reply.op = r.op /\ reply.id = r.id
  BY DEF PanelInv, NetOK, RequestOK, IsRequest
<1> HIDE DEF reply
<1>4. reply \in BagToSet(net') /\ \A q \in BagToSet(net) : q # r => q \in BagToSet(net')
  BY <1>2, InsteadNet DEF reply, ListInv
<1>5. LoadsStay
  <2> SUFFICES ASSUME NEW q \in BagToSet(net), q.op \in {"load", "model"}
               PROVE  \E p \in BagToSet(net') : p.op \in {"load", "model"} /\ p.id = q.id
    BY DEF LoadsStay, Loads
  <2>1. CASE q = r
    BY <1>3, <1>4, <2>1
  <2>2. CASE q # r
    BY <1>4, <2>2
  <2>3. QED
    BY <2>1, <2>2
<1>6. UNCHANGED <<asked, active, blurred, sockets, stored>>
  BY <1>1 DEF view, AnswerList, AnswerLoad, AnswerCreate, AnswerPatch, AnswerDelete, server
<1>7. ASSUME asked # None, Exists(asked)' PROVE Exists(asked)
  <2>1. asked \in Sessions /\ status[asked] # "unborn"
    BY <1>7 DEF BornInv, BornView, Born
  <2>2. status \in [Sessions -> {"unborn", "listed", "archived", "deleted"}]
    BY DEF PanelInv, ServerOK
  <2>3. CASE AnswerCreate(r)
    <3>1. PICK id \in Sessions :
            status[id] = "unborn" /\ status' = [status EXCEPT ![id] = "listed"]
      BY <2>3 DEF AnswerCreate
    <3>2. QED
      BY <1>6, <1>7, <2>1, <2>2, <3>1 DEF Exists
  <2>4. CASE AnswerDelete(r)
    <3>1. CASE ~Exists(r.id)
      BY <1>6, <1>7, <2>4, <3>1 DEF AnswerDelete, Exists
    <3>2. CASE Exists(r.id)
      <4>1. PICK s : status' = [status EXCEPT ![r.id] = s]
        BY <2>4, <3>2 DEF AnswerDelete
      <4>2. QED
        BY <1>6, <1>7, <2>1, <2>2, <3>2, <4>1 DEF Exists
    <3>3. QED
      BY <3>1, <3>2
  <2>5. QED
    BY <1>1, <1>6, <1>7, <2>3, <2>4
    DEF AnswerList, AnswerLoad, AnswerPatch, server, Exists
<1>8. ASSUME asked # None PROVE model'[asked] = model[asked] \/ LoadComes'
  <2>1. CASE AnswerPatch(r) /\ r.op = "model" /\ r.id = asked
    <3>1. Loads(reply)'
      BY <1>3, <1>6, <2>1 DEF Loads
    <3>2. QED
      BY <1>4, <3>1 DEF LoadComes
  <2>2. CASE AnswerPatch(r) /\ ~(r.op = "model" /\ r.id = asked)
    <3>1. model \in [Sessions -> Models \cup {None}] /\ asked \in Sessions
      BY <1>8 DEF PanelInv, ServerOK, BornInv, BornView, Born
    <3>2. model' = model \/ (r.id # asked /\ model' = [model EXCEPT ![r.id] = r.arg])
      BY <2>2 DEF AnswerPatch
    <3>3. QED
      BY <3>1, <3>2
  <2>3. CASE UNCHANGED model
    BY <2>3
  <2>4. QED
    BY <1>1, <2>1, <2>2, <2>3 DEF AnswerList, AnswerLoad, AnswerCreate, AnswerDelete, server
<1>9. QED
  BY <1>5, <1>6, <1>7, <1>8, SocketsStay, ViewSame

(* The page takes an answer: a load of the session asked for last makes    *)
(* what is shown exact, or C1 has more and it is loaded again, or it was   *)
(* overtaken, which is the excuse.                                         *)
LEMMA TakeLoadView ==
    ASSUME PanelInv, GivenOK, ListInv, BornInv, SeenInv, ViewInv,
           NEW r \in BagToSet(net), r.got # Pending, TakeLoad(r),
           UNCHANGED <<sockets, server>>
    PROVE  ViewInv'
<1>1. r.op = "load" /\ BornRequest(r) /\ UNCHANGED asked
  BY DEF TakeLoad, BornInv, BornNet
<1>2. CASE r.got = Missing
  <2>1. Gone(r.id) /\ UNCHANGED <<active, blurred>>
    BY <1>1, <1>2 DEF BornRequest, TakeLoad
  <2>2. CASE r.id = asked
    BY <1>1, <2>1, <2>2 DEF ViewInv, Exists, Gone, server
  <2>3. CASE r.id # asked
    <3>1. LoadsStay
      BY <2>3, TakeNet, LoadsBut DEF TakeLoad, ListInv, Loads
    <3>2. QED
      BY <1>1, <2>1, <3>1, SocketsStay, ViewSame DEF Exists, server
  <2>4. QED
    BY <2>2, <2>3
<1>3. CASE r.got # Missing
  <2>1. blurred' = (Overtaken(r) \/ r.id \in unseen) /\ active' = r.got.body
    BY <1>3 DEF TakeLoad, Show
  <2>2. r.id \in Sessions
    BY <1>1 DEF BornRequest, Born
  <2> SUFFICES ASSUME ~blurred'
               PROVE  asked # None /\ (Exists(asked) => LoadComes' \/ Exact')
    BY <1>1 DEF ViewInv, Exists, server
  <2>3. r.id = asked /\ active' = givenBody[asked] /\ asked \in Sessions /\ asked # None
    BY <2>1, <2>2, ChatTypesAssumption DEF Overtaken
  <2>4. Seen(asked) /\ (Exists(asked) => ~Gone(asked))
    BY <2>1, <2>3 DEF SeenInv, Exists, Gone
  <2>5. ASSUME GivenComes(asked) PROVE LoadComes'
    <3>1. ASSUME NEW q \in BagToSet(net), Gives(q, asked) PROVE LoadComes'
      <4>1. q # r
        BY <1>1, <3>1 DEF Gives
      <4>2. q \in BagToSet(net')
        BY <4>1, TakeNet DEF TakeLoad, ListInv
      <4>3. Loads(q)'
        BY <1>1, <3>1 DEF Gives, Loads
      <4>4. QED
        BY <4>2, <4>3 DEF LoadComes
    <3>2. QED
      BY <1>1, <2>5, <3>1 DEF GivenComes, LoadComes, DoneFor, Down, Ws
  <2>6. ASSUME Given(asked) PROVE Exact'
    <3>1. active' = Body(asked)
      BY <2>3, <2>6 DEF Given
    <3>2. stored[asked] \in Seq(MessagesTo(N)) /\ N \in Nat
      BY <2>3, StoredType, UpType, LastOne
    <3>3. Body(asked) \in Bodies(N)
      BY <2>3, <3>2 DEF Body, Bodies, PanelInv, ServerOK
    <3>4. active' # None
      BY <3>1, <3>2, <3>3, BodyIsNotNull
    <3>5. \A k \in 1..Ws : NoneFor(Up(k), asked)
      BY <2>6 DEF Given, Unheard, NoneFor, Up
    <3>6. \A k \in 1..Ws : CaughtUp(stored[asked], stored[asked], Up(k), asked)
      BY <3>2, <3>5, NothingOnTheWay
    <3>7. /\ active'.id = asked /\ active'.model = model[asked]
          /\ active'.messages = stored[asked]
      BY <3>1 DEF Body
    <3>8. Ws' = Ws /\ (\A k \in 1..Ws : Up(k)' = Up(k)) /\ model' = model /\ stored' = stored
      BY DEF Ws, Up, server
    <3>9. PICK l \in 1..Ws : l = Ws
      BY LastOne
    <3>10. NoneFor(Up(Ws)', asked)
      BY <3>5, <3>8, <3>9
    <3>11. QED
      BY <1>1, <3>4, <3>5, <3>6, <3>7, <3>8, <3>10 DEF Exact
  <2>7. QED
    BY <2>3, <2>4, <2>5, <2>6 DEF Seen
<1>4. QED
  BY <1>2, <1>3

LEMMA TakeView ==
    ASSUME PanelInv, GivenOK, ListInv, BornInv, SeenInv, ViewInv, TakeAnswer
    PROVE  ViewInv'
<1>1. PICK r \in BagToSet(net) :
        /\ r.got # Pending
        /\ TakeList(r) \/ TakeLoad(r) \/ TakeCreated(r) \/ TakePatched(r) \/ TakeDeleted(r)
        /\ UNCHANGED <<sockets, server>>
  BY DEF TakeAnswer
<1>2. NetBag /\ UNCHANGED <<status, model, stored>>
  BY <1>1 DEF ListInv, server
<1>3. CASE TakeList(r)
  <2>1. UNCHANGED <<asked, active, blurred>> /\ r.op = "list"
    BY <1>3 DEF TakeList
  <2>2. LoadsStay
    BY <1>2, <1>3, <2>1, TakeNet, LoadsBut DEF TakeList, Loads
  <2>3. QED
    BY <1>1, <1>2, <2>1, <2>2, SocketsStay, ViewSame DEF Exists
<1>4. CASE TakeLoad(r)
  BY <1>1, <1>4, TakeLoadView
<1>5. CASE TakeCreated(r) \/ TakeDeleted(r)
  <2>1. PICK id : Select(id, Instead(r, List(r.query)))
    BY <1>5 DEF TakeCreated, TakeDeleted
  <2>2. r.op \notin {"load", "model"} /\ UNCHANGED blurred
    BY <1>5 DEF TakeCreated, TakeDeleted
  <2>3. /\ IsABag(Instead(r, List(r.query)))
        /\ \A q \in BagToSet(net) :
              Loads(q) => q \in BagToSet(Instead(r, List(r.query)))
    BY <1>2, <2>2, InsteadNet DEF Loads
  <2>4. QED
    BY <1>1, <1>2, <2>1, <2>2, <2>3, SelectView
<1>6. CASE TakePatched(r)
  <2>1. UNCHANGED <<active, blurred>>
    BY <1>6 DEF TakePatched
  <2>2. CASE r.op = "pin" /\ net' = Instead(r, List(r.query)) /\ UNCHANGED asked
    <3>1. LoadsStay
      BY <1>2, <2>2, InsteadNet, LoadsBut DEF Loads
    <3>2. QED
      BY <1>1, <1>2, <2>1, <2>2, <3>1, SocketsStay, ViewSame DEF Exists
  <2>3. CASE r.op = "model" /\ net' = Instead(r, Load(r.id)) /\ asked' = r.id
    <3>1. Load(r.id) \in BagToSet(net')
      BY <1>2, <2>3, InsteadNet
    <3>2. Loads(Load(r.id))'
      BY <2>3 DEF Loads, Load, Request
    <3>3. LoadComes' /\ asked' # None
      <4>1. r.id \in Sessions
        BY <2>3 DEF PanelInv, NetOK, RequestOK, IsRequest
      <4>2. QED
        BY <2>3, <3>1, <3>2, <4>1, ChatTypesAssumption DEF LoadComes
    <3>4. QED
      BY <3>3 DEF ViewInv
  <2>4. QED
    BY <1>6, <2>2, <2>3 DEF TakePatched
<1>7. QED
  BY <1>1, <1>3, <1>4, <1>5, <1>6

LEMMA FailView == ASSUME PanelInv, ListInv, ViewInv, FetchFails PROVE ViewInv'
<1>1. PICK r \in BagToSet(net) :
        /\ net' = Without(r)
        /\ blurred' = (blurred \/ (r.op \in {"load", "model"} /\ r.id = asked))
        /\ UNCHANGED <<view, sockets, server, asked>>
  BY DEF FetchFails
<1>2. UNCHANGED <<asked, active, status, model, stored>>
  BY <1>1 DEF view, server
<1>3. CASE Loads(r)
  BY <1>1, <1>3 DEF ViewInv, Loads
<1>4. CASE ~Loads(r)
  <2>1. LoadsStay
    BY <1>1, <1>4, TakeNet, LoadsBut DEF ListInv
  <2>2. QED
    BY <1>1, <1>2, <1>4, <2>1, SocketsStay, ViewSame DEF Exists, Loads
<1>5. QED
  BY <1>3, <1>4

(* One socket changes.                                                     *)
LEMMA UpsOfOne ==
    ASSUME SocketsOK, NEW k \in 1..Ws, NEW x, sockets' = [sockets EXCEPT ![k] = x], x.up = Up(k),
           sockets[k].state = "open" => x.state = "open" \/ Up(k) = <<>>
    PROVE  UpsStay
<1>1. Ws' = Ws /\ sockets'[k] = x /\ \A l \in 1..Ws : l # k => sockets'[l] = sockets[l]
  BY OneSocket
<1>2. Ws \in 1..Ws
  BY DEF SocketsOK, Ws
<1>3. \A m \in 1..Ws : Up(m)' = Up(m)
  BY <1>1 DEF Up
<1>4. sockets[Ws].state = "open" => sockets'[Ws].state = "open" \/ Up(Ws) = <<>>
  <2>1. CASE Ws = k
    BY <1>1, <2>1
  <2>2. CASE Ws # k
    BY <1>1, <1>2, <2>2
  <2>3. QED
    BY <2>1, <2>2
<1>5. QED
  BY <1>1, <1>3, <1>4 DEF UpsStay

LEMMA DonesOfOne ==
    ASSUME SocketsOK, NEW k \in 1..Ws, NEW x, sockets' = [sockets EXCEPT ![k] = x],
           \A i \in 1..Len(Down(k)) : Down(k)[i].type = "chat.done" =>
               \E j \in 1..Len(x.down) : x.down[j] = Down(k)[i]
    PROVE  DonesStay
<1>1. Ws' = Ws /\ sockets'[k] = x /\ \A l \in 1..Ws : l # k => sockets'[l] = sockets[l]
  BY OneSocket
<1> SUFFICES ASSUME NEW l \in 1..Ws, NEW i \in 1..Len(Down(l)), Down(l)[i].type = "chat.done"
             PROVE  \E j \in 1..Len(Down(l)') : Down(l)'[j] = Down(l)[i]
  BY <1>1 DEF DonesStay
<1>2. CASE l = k
  BY <1>1, <1>2 DEF Down
<1>3. CASE l # k
  BY <1>1, <1>3 DEF Down
<1>4. QED
  BY <1>2, <1>3

LEMMA SocketView ==
    ASSUME PanelInv, ViewInv, SocketOpens \/ SocketLost \/ CopyStreaming
    PROVE  ViewInv'
<1>1. UNCHANGED <<asked, active, net, status, model, stored>> /\ (~blurred' => ~blurred)
  <2>1. CASE SocketOpens \/ CopyStreaming
    BY <2>1 DEF SocketOpens, CopyStreaming, view, server, history, shownHistory
  <2>2. CASE SocketLost
    BY <2>2 DEF SocketLost, view, server, Abandon
  <2>3. QED
    BY <2>1, <2>2
<1>2. PICK k \in 1..Ws : k = Ws /\ k \in 1..Len(sockets) /\ sockets[k] \in SocketStates(N)
  BY LastOne
<1>3. ASSUME DonesStay, UpsStay PROVE ViewInv'
  BY <1>1, <1>3, MoreLoads, ViewSame DEF Exists
<1>4. CASE SocketOpens
  <2> DEFINE x == [sockets[k] EXCEPT !.state = "open"]
  <2>1. sockets' = [sockets EXCEPT ![k] = x]
    BY <1>2, <1>4 DEF SocketOpens, PanelInv, SocketsOK
  <2>2. x.up = Up(k) /\ x.down = Down(k) /\ x.state = "open"
    BY <1>2 DEF SocketStates, Up, Down
  <2> HIDE DEF x
  <2>3. DonesStay /\ UpsStay
    BY <2>1, <2>2, UpsOfOne, DonesOfOne DEF PanelInv
  <2>4. QED
    BY <1>3, <2>3
<1>5. CASE SocketLost
  <2> DEFINE x == [sockets[k] EXCEPT !.state = "closed", !.down = <<>>]
  <2>1. sockets' = [sockets EXCEPT ![k] = x] /\ x.up = Up(k)
    BY <1>2, <1>5, ClosedSocket DEF SocketLost, PanelInv, Up
  <2> HIDE DEF x
  <2>2. CASE blurred'
    BY <2>2 DEF ViewInv
  <2>3. CASE ~blurred'
    <3>1. Down(k) = <<>> /\ Up(k) = <<>>
      BY <1>2, <1>5, <2>3 DEF SocketLost, Abandon, Busy, Down, Up
    <3>2. \A i \in 1..Len(Down(k)) : FALSE
      BY <3>1
    <3>3. DonesStay
      BY <2>1, <3>2, DonesOfOne DEF PanelInv
    <3>4. UpsStay
      BY <2>1, <3>1, UpsOfOne DEF PanelInv
    <3>5. QED
      BY <1>3, <3>3, <3>4
  <2>4. QED
    BY <2>2, <2>3
<1>6. CASE CopyStreaming
  BY <1>3, <1>6, SocketsStay DEF CopyStreaming
<1>7. QED
  BY <1>4, <1>5, <1>6

(* The page takes a frame.  A turn that is done has its session loaded.    *)
LEMMA FrameView == ASSUME PanelInv, ListInv, ViewInv, TakeFrame PROVE ViewInv'
<1> PICK k \in 1..Ws : \E x :
      /\ sockets' = [sockets EXCEPT ![k] = x] /\ x.up = sockets[k].up /\ x.state = "open"
      /\ Len(Down(k)) \in Nat /\ 1 \in 1..Len(Down(k)) /\ Frame = Down(k)[1]
      /\ Len(x.down) = Len(Down(k)) - 1
      /\ \A i \in 1..Len(x.down) : x.down[i] = Down(k)[i + 1] /\ i + 1 \in 1..Len(Down(k))
  BY FrameEffect
<1>1. PICK x :
      /\ sockets' = [sockets EXCEPT ![k] = x] /\ x.up = sockets[k].up /\ x.state = "open"
      /\ Len(Down(k)) \in Nat /\ 1 \in 1..Len(Down(k)) /\ Frame = Down(k)[1]
      /\ Len(x.down) = Len(Down(k)) - 1
      /\ \A i \in 1..Len(x.down) : x.down[i] = Down(k)[i + 1] /\ i + 1 \in 1..Len(Down(k))
  OBVIOUS
<1>2. UNCHANGED <<status, model, stored>>
  BY DEF TakeFrame, server
<1>3. CASE TakeDelta \/ TakeError
  <2>1. UNCHANGED <<asked, active, net, blurred>> /\ Frame.type # "chat.done"
    BY <1>3 DEF TakeDelta, TakeError
  <2>2. \A i \in 1..Len(Down(k)) : Down(k)[i].type = "chat.done" =>
           \E j \in 1..Len(x.down) : x.down[j] = Down(k)[i]
    <3> SUFFICES ASSUME NEW i \in 1..Len(Down(k)), Down(k)[i].type = "chat.done"
                 PROVE  \E j \in 1..Len(x.down) : x.down[j] = Down(k)[i]
      OBVIOUS
    <3>1. i # 1
      BY <1>1, <2>1
    <3>2. i - 1 \in 1..Len(x.down) /\ (i - 1) + 1 = i
      BY <1>1, <3>1
    <3>3. QED
      BY <1>1, <3>2
  <2>3. DonesStay /\ UpsStay
    BY <1>1, <2>2, UpsOfOne, DonesOfOne DEF PanelInv, Up
  <2>4. QED
    BY <1>2, <2>1, <2>3, MoreLoads, ViewSame DEF Exists
<1>4. CASE TakeToolCall
  BY <1>4 DEF TakeToolCall, ViewInv
<1>5. CASE TakeDone
  <2> DEFINE more == net (+) SetToBag({List(searchQuery)})
  <2>1. IsABag(more)
    BY PutNet DEF ListInv, NetBag
  <2>2. PICK id : id = Frame.session
    OBVIOUS
  <2>3. net' = more (+) SetToBag({Load(id)}) /\ asked' = id
    BY <1>5, <2>2 DEF TakeDone
  <2> HIDE DEF more
  <2>4. Load(id) \in BagToSet(net')
    BY <2>1, <2>3, PutNet
  <2>5. Loads(Load(id))'
    BY <2>3 DEF Loads, Load, Request
  <2>6. id \in Sessions
    <3>1. Down(k) \in Seq(DownFrames(N))
      BY DownType
    <3>2. Frame \in DownFrames(N)
      BY <1>1, <3>1
    <3>3. QED
      BY <2>2, <3>2 DEF DownFrames
  <2>7. LoadComes' /\ asked' # None
    BY <2>3, <2>4, <2>5, <2>6, ChatTypesAssumption DEF LoadComes
  <2>8. QED
    BY <2>7 DEF ViewInv
<1>6. QED
  BY <1>3, <1>4, <1>5 DEF TakeFrame

(* What the handler of a socket does when it takes a message.              *)
LEMMA TakesEffect ==
    ASSUME PanelInv, NEW k \in 1..Ws, HandlerTakes(k)
    PROVE  \E x :
              /\ sockets' = [sockets EXCEPT ![k] = x] /\ x.state = sockets[k].state
              /\ Len(Up(k)) \in Nat /\ 1 \in 1..Len(Up(k))
              /\ Len(x.up) = Len(Up(k)) - 1
              /\ \A i \in 1..Len(x.up) : x.up[i] = Up(k)[i + 1] /\ i + 1 \in 1..Len(Up(k))
              /\ \/ x.down = Down(k)
                 \/ \E frame : frame.session = Up(k)[1].session /\ x.down = Append(Down(k), frame)
              /\ \/ x.serving = sockets[k].serving
                 \/ x.serving.session = Up(k)[1].session
              /\ \/ /\ Exists(Up(k)[1].session)
                    /\ stored' = [stored EXCEPT ![Up(k)[1].session] = Append(@, UserMessage(Up(k)[1].turn))]
                 \/ ~Exists(Up(k)[1].session) /\ stored' = stored
<1> DEFINE f == Up(k)[1]
           refusal == [type |-> "chat.error", session |-> f.session, turn |-> f.turn, part |-> 0]
           serving == [session |-> f.session, turn |-> f.turn, sent |-> 0]
           taken == [sockets[k] EXCEPT !.up = Tail(@), !.serving = serving]
           refused == [sockets[k] EXCEPT !.up = Tail(@), !.down = Heard(k, refusal)]
<1>1. k \in 1..Len(sockets) /\ sockets[k] \in SocketStates(N) /\ SocketsOK
  BY DownType DEF PanelInv
<1>2. Up(k) \in Seq(UpFrames(N)) /\ Up(k) # <<>> /\ Head(sockets[k].up) = f
  <2>1. Up(k) \in Seq(UpFrames(N))
    BY UpType
  <2>2. Up(k) # <<>> /\ sockets[k].up = Up(k)
    BY DEF HandlerTakes, Up
  <2>3. Head(Up(k)) = f
    BY <2>1, <2>2
  <2>4. QED
    BY <2>1, <2>2, <2>3
<1>3. /\ Len(Up(k)) \in Nat /\ 1 \in 1..Len(Up(k)) /\ Len(Tail(Up(k))) = Len(Up(k)) - 1
      /\ \A i \in 1..Len(Tail(Up(k))) : Tail(Up(k))[i] = Up(k)[i + 1] /\ i + 1 \in 1..Len(Up(k))
  BY <1>2
<1>4. refusal.session = f.session /\ serving.session = f.session
  OBVIOUS
<1>5. CASE Exists(f.session)
  <2>1. /\ sockets' = [sockets EXCEPT ![k] = taken]
        /\ stored' = [stored EXCEPT ![f.session] = Append(@, UserMessage(f.turn))]
    BY <1>1, <1>2, <1>5 DEF HandlerTakes, SocketsOK
  <2> HIDE DEF serving, f
  <2>2. /\ taken.up = Tail(Up(k)) /\ taken.down = Down(k) /\ taken.serving = serving
        /\ taken.state = sockets[k].state
    BY <1>1 DEF SocketStates, Up, Down
  <2> HIDE DEF taken
  <2>3. QED
    BY <1>3, <1>4, <1>5, <2>1, <2>2 DEF f
<1>6. CASE ~Exists(f.session)
  <2>1. sockets' = [sockets EXCEPT ![k] = refused] /\ stored' = stored
    BY <1>1, <1>2, <1>6 DEF HandlerTakes, SocketsOK
  <2> HIDE DEF refusal, f
  <2>2. /\ refused.up = Tail(Up(k)) /\ refused.down = Heard(k, refusal)
        /\ refused.serving = sockets[k].serving /\ refused.state = sockets[k].state
    BY <1>1 DEF SocketStates, Up
  <2>3. Heard(k, refusal) \in {Down(k), Append(Down(k), refusal)}
    BY DEF Heard, Down
  <2> HIDE DEF refused
  <2>4. QED
    BY <1>3, <1>4, <1>6, <2>1, <2>2, <2>3 DEF f
<1>7. QED
  BY <1>5, <1>6

(* And while it serves one: it sends a frame for the session it serves, to *)
(* whoever hears it.                                                       *)
LEMMA ServesEffect ==
    ASSUME PanelInv, NEW k \in 1..Ws, NEW type, NEW serving, Served(k, FrameOf(k, type), serving)
    PROVE  \E x :
              /\ sockets' = [sockets EXCEPT ![k] = x] /\ x.state = sockets[k].state
              /\ x.up = Up(k) /\ x.serving = serving /\ x.down = Heard(k, FrameOf(k, type))
<1>1. k \in 1..Len(sockets) /\ sockets[k] \in SocketStates(N) /\ SocketsOK
  BY DownType DEF PanelInv
<1> DEFINE x == [sockets[k] EXCEPT !.down = Heard(k, FrameOf(k, type)), !.serving = serving]
<1>2. sockets' = [sockets EXCEPT ![k] = x]
  BY <1>1 DEF Served, SocketsOK
<1>3. /\ x.up = Up(k) /\ x.serving = serving /\ x.down = Heard(k, FrameOf(k, type))
      /\ x.state = sockets[k].state
  BY <1>1 DEF SocketStates, Up
<1> HIDE DEF x
<1>4. QED
  BY <1>2, <1>3

LEMMA HeardFrame ==
    ASSUME PanelInv, NEW k \in 1..Ws, NEW frame
    PROVE  /\ \A i \in 1..Len(Down(k)) :
                 i \in 1..Len(Heard(k, frame)) /\ Heard(k, frame)[i] = Down(k)[i]
           /\ \A i \in 1..Len(Heard(k, frame)) :
                 Heard(k, frame)[i] = frame \/ (i \in 1..Len(Down(k)) /\ Heard(k, frame)[i] = Down(k)[i])
           /\ sockets[k].state = "open" =>
                 \E i \in 1..Len(Heard(k, frame)) : Heard(k, frame)[i] = frame
<1>1. Down(k) \in Seq(DownFrames(N)) /\ Len(Down(k)) \in Nat
  BY DownType
<1>2. CASE sockets[k].state = "open"
  <2>1. Heard(k, frame) = Append(Down(k), frame)
    BY <1>2 DEF Heard, Down
  <2>2. Len(Append(Down(k), frame)) = Len(Down(k)) + 1 /\ Append(Down(k), frame)[Len(Down(k)) + 1] = frame
        /\ \A i \in 1..Len(Down(k)) : Append(Down(k), frame)[i] = Down(k)[i]
    BY <1>1
  <2>3. QED
    BY <1>1, <2>1, <2>2
<1>3. CASE sockets[k].state # "open"
  BY <1>3 DEF Heard, Down
<1>4. QED
  BY <1>2, <1>3

LEMMA HandlerBorn == ASSUME PanelInv, BornInv, NEW k \in 1..Ws, Handler(k) PROVE BornInv'
<1>1. BornView /\ BornNet /\ BornSockets /\ SocketsOK /\ BornSocket(sockets[k])
  BY DEF BornInv, PanelInv, BornSockets
<1>2. UNCHANGED <<sessions, activeId, asked, active, net, status>>
  BY DEF Handler, view
<1>3. Ages /\ BornView' /\ BornNet'
  BY <1>1, <1>2, SameAge, ViewAged, Aged DEF BornNet
<1>4. ASSUME NEW x, sockets' = [sockets EXCEPT ![k] = x], BornSocket(x) PROVE BornInv'
  BY <1>1, <1>3, <1>4, SocketAged DEF BornInv
<1>5. Down(k) \in Seq(DownFrames(N)) /\ sockets[k] \in SocketStates(N) /\ k \in 1..Len(sockets)
  BY DownType
<1>6. CASE HandlerTakes(k)
  <2>1. PICK x :
          /\ sockets' = [sockets EXCEPT ![k] = x] /\ 1 \in 1..Len(Up(k))
          /\ \A i \in 1..Len(x.up) : x.up[i] = Up(k)[i + 1] /\ i + 1 \in 1..Len(Up(k))
          /\ \/ x.down = Down(k)
             \/ \E frame : frame.session = Up(k)[1].session /\ x.down = Append(Down(k), frame)
          /\ x.serving = sockets[k].serving \/ x.serving.session = Up(k)[1].session
    BY <1>6, TakesEffect
  <2>2. Born(Up(k)[1].session) /\ \A i \in 1..Len(x.up) : Born(x.up[i].session)
    BY <1>1, <2>1 DEF BornSocket, Up
  <2>3. \A i \in 1..Len(x.down) : Born(x.down[i].session)
    <3>1. \A i \in 1..Len(Down(k)) : Born(Down(k)[i].session)
      BY <1>1 DEF BornSocket, Down
    <3>2. ASSUME NEW frame, frame.session = Up(k)[1].session, x.down = Append(Down(k), frame)
          PROVE  \A i \in 1..Len(x.down) : Born(x.down[i].session)
      <4>1. \A i \in 1..Len(x.down) :
              x.down[i] = frame \/ (i \in 1..Len(Down(k)) /\ x.down[i] = Down(k)[i])
        BY <1>5, <3>2
      <4>2. QED
        BY <2>2, <3>1, <3>2, <4>1
    <3>3. QED
      BY <2>1, <3>1, <3>2
  <2>4. x.serving # Idle => Born(x.serving.session)
    BY <1>1, <2>1, <2>2 DEF BornSocket
  <2>5. QED
    BY <1>4, <2>1, <2>2, <2>3, <2>4 DEF BornSocket
<1>7. ASSUME NEW type, NEW serving, sockets[k].serving # Idle,
             Served(k, FrameOf(k, type), serving),
             serving = Idle \/ serving.session = sockets[k].serving.session
      PROVE  BornInv'
  <2>1. PICK x :
          /\ sockets' = [sockets EXCEPT ![k] = x]
          /\ x.up = Up(k) /\ x.serving = serving /\ x.down = Heard(k, FrameOf(k, type))
    BY <1>7, ServesEffect
  <2>2. FrameOf(k, type).session = sockets[k].serving.session
    BY DEF FrameOf
  <2>3. Born(sockets[k].serving.session)
    BY <1>1, <1>7 DEF BornSocket
  <2>4. \A i \in 1..Len(x.down) :
          x.down[i] = FrameOf(k, type) \/ (i \in 1..Len(Down(k)) /\ x.down[i] = Down(k)[i])
    BY <2>1, HeardFrame
  <2>5. \A i \in 1..Len(x.down) : Born(x.down[i].session)
    BY <1>1, <2>2, <2>3, <2>4 DEF BornSocket, Down
  <2>6. QED
    BY <1>1, <1>4, <1>7, <2>1, <2>3, <2>5 DEF BornSocket, Up
<1>8. CASE HandlerStreams(k)
  <2>1. sockets[k].serving \in Servings(N)
    BY <1>5 DEF SocketStates
  <2>2. [sockets[k].serving EXCEPT !.sent = @ + 1].session = sockets[k].serving.session
    BY <2>1 DEF Servings, Idle
  <2>3. QED
    BY <1>7, <1>8, <2>2 DEF HandlerStreams
<1>9. CASE HandlerCallsTool(k) \/ HandlerFinishes(k) \/ HandlerFails(k)
  BY <1>7, <1>9 DEF HandlerCallsTool, HandlerFinishes, HandlerFails
<1>10. CASE HandlerEnds(k)
  <2> DEFINE x == [sockets[k] EXCEPT !.up = <<>>, !.serving = Idle]
  <2>1. sockets' = [sockets EXCEPT ![k] = x]
    BY <1>1, <1>5, <1>10 DEF HandlerEnds, SocketsOK
  <2>2. x.up = <<>> /\ x.serving = Idle /\ x.down = sockets[k].down
    BY <1>5 DEF SocketStates
  <2> HIDE DEF x
  <2>3. BornSocket(x)
    BY <1>1, <2>2 DEF BornSocket
  <2>4. QED
    BY <1>4, <2>1, <2>3
<1>11. QED
  BY <1>6, <1>8, <1>9, <1>10 DEF Handler

LEMMA ChatBorn == ASSUME PanelInv, ListInv, BornInv, ChatNext PROVE BornInv'
  BY UserBorn, ServerBorn, TakeBorn, PageBorn, FrameBorn, HandlerBorn DEF ChatNext

(* A handler takes a message: it leaves the socket and is stored at once.  *)
LEMMA TakesView ==
    ASSUME PanelInv, BornInv, ViewInv, NEW k \in 1..Ws, HandlerTakes(k),
           UNCHANGED <<asked, active, net, status, model>>
    PROVE  ViewInv'
<1> DEFINE f == Up(k)[1]
<1>1. PICK x :
        /\ sockets' = [sockets EXCEPT ![k] = x] /\ x.state = sockets[k].state
        /\ Len(Up(k)) \in Nat /\ 1 \in 1..Len(Up(k)) /\ Len(x.up) = Len(Up(k)) - 1
        /\ \A i \in 1..Len(x.up) : x.up[i] = Up(k)[i + 1] /\ i + 1 \in 1..Len(Up(k))
        /\ x.down = Down(k) \/ \E frame : x.down = Append(Down(k), frame)
        /\ \/ /\ Exists(f.session)
              /\ stored' = [stored EXCEPT ![f.session] = Append(@, UserMessage(f.turn))]
           \/ ~Exists(f.session) /\ stored' = stored
  BY TakesEffect
<1>2. /\ Ws' = Ws /\ sockets'[k] = x /\ \A l \in 1..Ws : l # k => sockets'[l] = sockets[l]
  BY <1>1, OneSocket DEF PanelInv
<1>3. UNCHANGED blurred
  BY DEF HandlerTakes
<1>4. DonesStay
  <2>1. Down(k) \in Seq(DownFrames(N)) /\ Len(Down(k)) \in Nat
    BY DownType
  <2>2. \A i \in 1..Len(Down(k)) : i \in 1..Len(x.down) /\ x.down[i] = Down(k)[i]
    <3>1. CASE x.down = Down(k)
      BY <3>1
    <3>2. ASSUME NEW frame, x.down = Append(Down(k), frame)
          PROVE  \A i \in 1..Len(Down(k)) : i \in 1..Len(x.down) /\ x.down[i] = Down(k)[i]
      BY <2>1, <3>2
    <3>3. QED
      BY <1>1, <3>1, <3>2
  <2>3. \A i \in 1..Len(Down(k)) : Down(k)[i].type = "chat.done" =>
           \E j \in 1..Len(x.down) : x.down[j] = Down(k)[i]
    BY <2>2
  <2>4. QED
    BY <1>1, <2>3, DonesOfOne DEF PanelInv
<1>5. LoadComes => LoadComes'
  BY <1>4, MoreLoads, LoadStillComes
<1>6. \A l \in 1..Ws : Up(l)' = IF l = k THEN x.up ELSE Up(l)
  BY <1>2 DEF Up
<1>7. ASSUME Exact, asked # None, Exists(asked) PROVE Exact'
  <2>1. /\ asked \in Sessions /\ stored[asked] \in Seq(MessagesTo(N))
        /\ Up(k) \in Seq(UpFrames(N)) /\ f.session \in Sessions
    BY <1>1, <1>7, StoredType, UpType DEF BornInv, BornView, Born
  <2>2. stored \in [Sessions -> Seq(MessagesTo(N))]
    BY DEF PanelInv, ServerOK
  <2>3. \A l \in 1..Ws : IF l = Ws THEN CaughtUp(active.messages, stored'[asked], Up(l)', asked)
                         ELSE NoneFor(Up(l)', asked)
    <3> SUFFICES ASSUME NEW l \in 1..Ws
                 PROVE  IF l = Ws THEN CaughtUp(active.messages, stored'[asked], Up(l)', asked)
                        ELSE NoneFor(Up(l)', asked)
      OBVIOUS
    <3>1. CASE k = Ws /\ f.session = asked
      <4>1. CaughtUp(active.messages, stored[asked], Up(k), asked)
        BY <1>7, <3>1 DEF Exact
      <4>2. CaughtUp(active.messages, Append(stored[asked], UserMessage(f.turn)), x.up, asked)
        <5>1. Len(Up(k)) >= 1
          BY <1>1
        <5> HIDE DEF f
        <5>2. f = Up(k)[1]
          BY DEF f
        <5>3. QED
          BY <1>1, <2>1, <3>1, <4>1, <5>1, <5>2, TakenForIt
      <4>3. stored'[asked] = Append(stored[asked], UserMessage(f.turn))
        BY <1>1, <1>7, <2>1, <2>2, <3>1
      <4>4. CASE l = k
        BY <1>6, <3>1, <4>2, <4>3, <4>4
      <4>5. CASE l # k
        BY <1>6, <1>7, <3>1, <4>5 DEF Exact
      <4>6. QED
        BY <4>4, <4>5
    <3>2. CASE f.session # asked
      <4>1. stored'[asked] = stored[asked]
        BY <1>1, <2>1, <2>2, <3>2
      <4>2. CASE l # k
        BY <1>6, <1>7, <4>1, <4>2 DEF Exact
      <4>3. CASE l = k /\ l # Ws
        <5>1. NoneFor(Up(k), asked)
          BY <1>7, <4>3 DEF Exact
        <5>2. NoneFor(x.up, asked)
          BY <1>1, <5>1 DEF NoneFor
        <5>3. QED
          BY <1>6, <4>3, <5>2
      <4>4. CASE l = k /\ l = Ws
        <5>1. CaughtUp(active.messages, stored[asked], Up(k), asked)
          BY <1>7, <4>4 DEF Exact
        <5>2. CaughtUp(active.messages, stored[asked], x.up, asked)
          <6>1. Len(Up(k)) >= 1
            BY <1>1
          <6> HIDE DEF f
          <6>2. f = Up(k)[1]
            BY DEF f
          <6>3. QED
            BY <1>1, <2>1, <3>2, <5>1, <6>1, <6>2, TakenForAnother
        <5>3. QED
          BY <1>6, <4>1, <4>4, <5>2
      <4>5. QED
        BY <4>2, <4>3, <4>4
    <3>3. CASE k # Ws /\ f.session = asked
      <4>1. NoneFor(Up(k), asked)
        BY <1>7, <3>3 DEF Exact
      <4>2. QED
        BY <1>1, <3>3, <4>1 DEF NoneFor
    <3>4. QED
      BY <3>1, <3>2, <3>3
  <2>4. ASSUME sockets'[Ws].state # "open" PROVE NoneFor(sockets'[Ws].up, asked)
    <3>1. sockets[Ws].state # "open"
      BY <1>1, <1>2, <2>4
    <3>2. NoneFor(Up(Ws), asked)
      BY <1>7, <3>1 DEF Exact
    <3>3. CASE Ws = k
      BY <1>1, <1>2, <3>2, <3>3 DEF NoneFor
    <3>4. CASE Ws # k
      <4>1. Ws \in 1..Ws
        BY LastOne
      <4>2. QED
        BY <1>2, <3>2, <3>4, <4>1 DEF Up
    <3>5. QED
      BY <3>3, <3>4
  <2>5. QED
    BY <1>2, <1>7, <2>3, <2>4 DEF Exact, Up
<1>8. QED
  BY <1>3, <1>5, <1>7 DEF ViewInv, Exists

(* A handler that finishes the turn of the session says so to whoever      *)
(* hears it, and the session is loaded again.                              *)
LEMMA FinishesView ==
    ASSUME PanelInv, StreamInv, BornInv, ViewInv, NEW k \in 1..Ws, HandlerFinishes(k),
           UNCHANGED <<asked, active, net, status, model>>
    PROVE  ViewInv'
<1> DEFINE id == sockets[k].serving.session
           frame == FrameOf(k, "chat.done")
<1>1. PICK x :
        /\ sockets' = [sockets EXCEPT ![k] = x] /\ x.state = sockets[k].state
        /\ x.up = Up(k) /\ x.down = Heard(k, frame)
  BY ServesEffect DEF HandlerFinishes
<1>2. frame.type = "chat.done" /\ frame.session = id
  BY DEF FrameOf
<1> HIDE DEF frame
<1>3. UpsStay
  BY <1>1, UpsOfOne DEF PanelInv
<1>4. DonesStay
  <2>1. \A i \in 1..Len(Down(k)) : i \in 1..Len(x.down) /\ x.down[i] = Down(k)[i]
    BY <1>1, HeardFrame
  <2>2. \A i \in 1..Len(Down(k)) : Down(k)[i].type = "chat.done" =>
           \E j \in 1..Len(x.down) : x.down[j] = Down(k)[i]
    BY <2>1
  <2>3. QED
    BY <1>1, <2>2, DonesOfOne DEF PanelInv
<1>5. ~blurred' => ~blurred /\ (sockets[k].state = "closed" => asked # id)
  BY DEF HandlerFinishes
<1>6. CASE id # asked
  <2>1. asked # None => stored'[asked] = stored[asked]
    <3>1. stored \in [Sessions -> Seq(MessagesTo(N))] /\ (asked # None => asked \in Sessions)
      BY DEF PanelInv, ServerOK, BornInv, BornView, Born
    <3>2. stored' = stored \/ \E m : stored' = [stored EXCEPT ![id] = m]
      BY DEF HandlerFinishes
    <3>3. QED
      BY <1>6, <3>1, <3>2
  <2>2. QED
    BY <1>3, <1>4, <1>5, <2>1, MoreLoads, ViewSame DEF Exists
<1>7. CASE id = asked
  <2>1. CASE sockets[k].state = "closed"
    BY <1>5, <1>7, <2>1 DEF ViewInv
  <2>2. CASE sockets[k].state = "open"
    <3>1. PICK i \in 1..Len(x.down) : x.down[i] = frame
      BY <1>1, <2>2, HeardFrame
    <3>2. Ws' = Ws /\ Down(k)' = x.down
      BY <1>1, OneSocket DEF PanelInv, Down
    <3>3. DoneFor(Down(k)[i])'
      BY <1>2, <1>7, <3>1, <3>2 DEF DoneFor
    <3>4. LoadComes'
      BY <3>1, <3>2, <3>3 DEF LoadComes
    <3>5. id # None
      <4>1. sockets[k].serving # Idle /\ BornSocket(sockets[k])
        BY DEF HandlerFinishes, BornInv, BornSockets
      <4>2. QED
        BY <4>1, ChatTypesAssumption DEF BornSocket, Born
    <3>6. QED
      BY <1>7, <3>4, <3>5 DEF ViewInv
  <2>3. CASE sockets[k].state = "connecting"
    BY <2>3 DEF StreamInv, OpensIdle, Busy, HandlerFinishes
  <2>4. QED
    <3>1. sockets[k] \in SocketStates(N)
      BY DownType
    <3>2. QED
      BY <2>1, <2>2, <2>3, <3>1 DEF SocketStates
<1>8. QED
  BY <1>6, <1>7

(* A handler that ends forgets messages, but none of the session.          *)
LEMMA NoneLeft ==
    ASSUME NEW messages, NEW store, NEW up, NEW id, NEW rest,
           CaughtUp(messages, store, up, id), NoneFor(up, id), NoneFor(rest, id)
    PROVE  CaughtUp(messages, store, rest, id)
<1>1. PICK f : Follows(messages, store, up, id, f)
  BY DEF CaughtUp
<1>2. Places(up, id) = {} /\ Places(rest, id) = {}
  BY DEF Places, NoneFor
<1>3. Len(f) \in Nat /\ \A j \in 1..Len(f) : FALSE
  BY <1>1, <1>2 DEF Follows
<1>4. Follows(messages, store, rest, id, f)
  BY <1>1, <1>2, <1>3 DEF Follows
<1>5. QED
  BY <1>4 DEF CaughtUp

LEMMA EndsView ==
    ASSUME PanelInv, ViewInv, NEW k \in 1..Ws, HandlerEnds(k),
           UNCHANGED <<asked, active, net, status, model>>
    PROVE  ViewInv'
<1> DEFINE x == [sockets[k] EXCEPT !.up = <<>>, !.serving = Idle]
<1>1. k \in 1..Len(sockets) /\ sockets[k] \in SocketStates(N) /\ sockets[k].state = "closed"
  BY DownType DEF HandlerEnds
<1>2. sockets' = [sockets EXCEPT ![k] = x]
  BY <1>1 DEF HandlerEnds, PanelInv, SocketsOK
<1>3. x.up = <<>> /\ x.down = Down(k)
  BY <1>1 DEF SocketStates, Down
<1> HIDE DEF x
<1>4. Ws' = Ws /\ sockets'[k] = x /\ \A l \in 1..Ws : l # k => sockets'[l] = sockets[l]
  BY <1>2, OneSocket DEF PanelInv
<1>5. UNCHANGED <<stored, blurred>>
  BY DEF HandlerEnds
<1>6. LoadComes => LoadComes'
  <2>1. DonesStay
    BY <1>2, <1>3, DonesOfOne DEF PanelInv
  <2>2. QED
    BY <2>1, MoreLoads, LoadStillComes
<1>7. ASSUME Exact PROVE Exact'
  <2>1. NoneFor(Up(k), asked)
    <3>1. CASE k = Ws
      BY <1>1, <1>7, <3>1 DEF Exact
    <3>2. CASE k # Ws
      BY <1>7, <3>2 DEF Exact
    <3>3. QED
      BY <3>1, <3>2
  <2>2. NoneFor(<<>>, asked)
    BY DEF NoneFor
  <2>3. \A l \in 1..Ws : Up(l)' = IF l = k THEN <<>> ELSE Up(l)
    BY <1>3, <1>4 DEF Up
  <2>4. \A l \in 1..Ws : IF l = Ws THEN CaughtUp(active.messages, stored[asked], Up(l)', asked)
                         ELSE NoneFor(Up(l)', asked)
    BY <1>7, <2>1, <2>2, <2>3, NoneLeft DEF Exact
  <2>5. ASSUME sockets'[Ws].state # "open" PROVE NoneFor(sockets'[Ws].up, asked)
    <3>1. CASE Ws = k
      BY <1>3, <1>4, <2>2, <3>1
    <3>2. CASE Ws # k
      <4>1. Ws \in 1..Ws
        BY LastOne
      <4>2. sockets'[Ws] = sockets[Ws]
        BY <1>4, <3>2, <4>1
      <4>3. QED
        BY <1>7, <2>5, <4>2 DEF Exact, Up
    <3>3. QED
      BY <3>1, <3>2
  <2>6. QED
    BY <1>4, <1>5, <1>7, <2>4, <2>5 DEF Exact, Up
<1>8. QED
  BY <1>5, <1>6, <1>7 DEF ViewInv, Exists

LEMMA HandlerView ==
    ASSUME PanelInv, StreamInv, BornInv, ViewInv, NEW k \in 1..Ws, Handler(k)
    PROVE  ViewInv'
<1>1. UNCHANGED <<asked, active, net, status, model>>
  BY DEF Handler, view
<1>2. CASE HandlerTakes(k)
  BY <1>1, <1>2, TakesView
<1>3. CASE HandlerFinishes(k)
  BY <1>1, <1>3, FinishesView
<1>4. CASE HandlerEnds(k)
  BY <1>1, <1>4, EndsView
<1>5. CASE HandlerStreams(k) \/ HandlerCallsTool(k) \/ HandlerFails(k)
  <2>1. UNCHANGED <<stored, blurred>>
    BY <1>5 DEF HandlerStreams, HandlerCallsTool, HandlerFails
  <2>2. \E type : \E serving : Served(k, FrameOf(k, type), serving)
    BY <1>5 DEF HandlerStreams, HandlerCallsTool, HandlerFails
  <2>3. PICK type : \E serving : Served(k, FrameOf(k, type), serving)
    BY <2>2
  <2>4. PICK x :
          /\ sockets' = [sockets EXCEPT ![k] = x] /\ x.up = Up(k)
          /\ x.state = sockets[k].state /\ x.down = Heard(k, FrameOf(k, type))
    BY <2>3, ServesEffect
  <2>5. \A i \in 1..Len(Down(k)) : i \in 1..Len(x.down) /\ x.down[i] = Down(k)[i]
    BY <2>4, HeardFrame
  <2>6. \A i \in 1..Len(Down(k)) : Down(k)[i].type = "chat.done" =>
           \E j \in 1..Len(x.down) : x.down[j] = Down(k)[i]
    BY <2>5
  <2>7. DonesStay
    BY <2>4, <2>6, DonesOfOne DEF PanelInv
  <2>8. UpsStay
    BY <2>4, UpsOfOne DEF PanelInv
  <2>9. QED
    BY <1>1, <2>1, <2>7, <2>8, MoreLoads, ViewSame DEF Exists
<1>6. QED
  BY <1>2, <1>3, <1>4, <1>5 DEF Handler

LEMMA ChatView ==
    ASSUME PanelInv, GivenOK, StreamInv, ListInv, BornInv, SeenInv, ViewInv, ChatNext
    PROVE  ViewInv'
  BY UserView, ServerView, TakeView, FailView, SocketView, FrameView, HandlerView DEF ChatNext
-----------------------------------------------------------------------------
(* What C1 gave.  A session of which it may hold more is loaded again, or  *)
(* is in unseen.                                                           *)
LEMMA SeenInit == ChatInit => SeenInv
<1> SUFFICES ASSUME ChatInit, NEW id \in Sessions PROVE Given(id)
  BY DEF SeenInv, Seen
<1>1. givenBody[id] = Body(id)
  BY DEF ChatInit
<1>2. sockets = <<NewSocket>> /\ Len(NewSocket.up) = 0
  BY DEF ChatInit, NewSocket
<1>3. ~Unheard(id)
  BY <1>2 DEF Unheard, Ws
<1>4. QED
  BY <1>1, <1>3 DEF Given

LEMMA SeenStays ==
    ASSUME NEW id \in Sessions, Seen(id), Gone(id) => Gone(id)',
           givenBody'[id] = givenBody[id], model'[id] = model[id], stored'[id] = stored[id],
           Unheard(id)' => Unheard(id), GivenComes(id) => GivenComes(id)'
    PROVE  Seen(id)'
<1>1. Given(id) => Given(id)'
  BY DEF Given, Body
<1>2. QED
  BY <1>1 DEF Seen

(* What is under way for a session goes on, if its requests and its frames *)
(* do.                                                                     *)
GivesStay(id) ==
    \A r \in BagToSet(net) : Gives(r, id) => \E q \in BagToSet(net') : Gives(q, id)

LEMMA ComesOn ==
    ASSUME NEW id, GivesStay(id), DonesStay, GivenComes(id)
    PROVE  GivenComes(id)'
<1>1. ASSUME NEW r \in BagToSet(net), Gives(r, id) PROVE GivenComes(id)'
  BY <1>1 DEF GivesStay, GivenComes, Gives
<1>2. ASSUME NEW k \in 1..Ws, NEW i \in 1..Len(Down(k)),
             Down(k)[i].type = "chat.done", Down(k)[i].session = id
      PROVE  GivenComes(id)'
  <2>1. PICK j \in 1..Len(Down(k)') : Down(k)'[j] = Down(k)[i]
    BY <1>2 DEF DonesStay
  <2>2. k \in 1..Ws'
    BY DEF DonesStay
  <2>3. QED
    BY <1>2, <2>1, <2>2 DEF GivenComes
<1>3. QED
  BY <1>1, <1>2 DEF GivenComes

(* The sockets stay, and requests are only added.                          *)
LEMMA SeenSame ==
    ASSUME SeenInv, BagToSet(net) \subseteq BagToSet(net'),
           UNCHANGED <<sockets, server, givenBody, unseen>>
    PROVE  SeenInv'
<1> SUFFICES ASSUME NEW id \in Sessions \ unseen PROVE Seen(id)'
  BY DEF SeenInv
<1>1. GivesStay(id) /\ DonesStay
  BY SocketsStay DEF GivesStay
<1>2. Unheard(id)' = Unheard(id) /\ (Gone(id) => Gone(id)') /\ Seen(id)
  BY DEF Unheard, Ws, Gone, server, SeenInv
<1>3. QED
  BY <1>1, <1>2, ComesOn, SeenStays DEF server

(* One socket changes: what is done and was not told is in unseen.         *)
LEMMA SeenSocket ==
    ASSUME SocketsOK, SeenInv, NEW k \in 1..Ws, NEW x, sockets' = [sockets EXCEPT ![k] = x],
           UNCHANGED <<net, status, model, givenBody>>, unseen \subseteq unseen',
           \A id \in Sessions \ unseen' : GivenComes(id)' \/ stored'[id] = stored[id],
           \A i \in 1..Len(x.up) : x.up[i].session \in unseen' \/ Unheard(x.up[i].session),
           \A i \in 1..Len(Down(k)) :
               \/ Down(k)[i].type # "chat.done" \/ Down(k)[i].session \in unseen'
               \/ \E j \in 1..Len(x.down) : x.down[j] = Down(k)[i]
    PROVE  SeenInv'
<1>1. Ws' = Ws /\ sockets'[k] = x /\ \A l \in 1..Ws : l # k => sockets'[l] = sockets[l]
  BY OneSocket
<1> SUFFICES ASSUME NEW id \in Sessions \ unseen', ~GivenComes(id)' PROVE Seen(id)'
  BY DEF SeenInv, Seen
<1>2. Seen(id) /\ (Gone(id) => Gone(id)')
  BY DEF SeenInv, Gone
<1>3. Unheard(id)' => Unheard(id)
  <2> SUFFICES ASSUME NEW l \in 1..Ws, NEW i \in 1..Len(sockets'[l].up),
                      sockets'[l].up[i].session = id
               PROVE  Unheard(id)
    BY <1>1 DEF Unheard
  <2>1. CASE l = k
    BY <1>1, <2>1
  <2>2. CASE l # k
    BY <1>1, <2>2 DEF Unheard
  <2>3. QED
    BY <2>1, <2>2
<1>4. GivenComes(id) => GivenComes(id)'
  <2>1. ASSUME NEW r \in BagToSet(net), Gives(r, id) PROVE GivenComes(id)'
    BY <2>1 DEF GivenComes, Gives
  <2>2. ASSUME NEW l \in 1..Ws, NEW i \in 1..Len(Down(l)),
               Down(l)[i].type = "chat.done", Down(l)[i].session = id
        PROVE  GivenComes(id)'
    <3>1. PICK j \in 1..Len(sockets'[l].down) : sockets'[l].down[j] = Down(l)[i]
      <4>1. CASE l = k
        BY <1>1, <2>2, <4>1
      <4>2. CASE l # k
        BY <1>1, <2>2, <4>2 DEF Down
      <4>3. QED
        BY <4>1, <4>2
    <3>2. QED
      BY <1>1, <2>2, <3>1 DEF GivenComes, Down
  <2>3. QED
    BY <2>1, <2>2 DEF GivenComes
<1>5. QED
  BY <1>2, <1>3, <1>4, SeenStays

LEMMA SendSeen == ASSUME PanelInv, SeenInv, Send PROVE SeenInv'
<1>1. UNCHANGED <<net, server, givenBody>>
  BY DEF Send
<1>2. PICK k \in 1..Ws : k = Ws /\ k \in 1..Len(sockets) /\ sockets[k] \in SocketStates(N)
  BY LastOne
<1>3. CASE sockets[k].state # "open"
  BY <1>1, <1>2, <1>3, SeenSame DEF Send
<1>4. CASE sockets[k].state = "open"
  <2> DEFINE next == [session |-> activeId, turn |-> Len(typed) + 1]
             x == [sockets[k] EXCEPT !.up = Append(@, next)]
  <2>1. sockets' = [sockets EXCEPT ![k] = x] /\ unseen' = unseen \cup {activeId}
    BY <1>2, <1>4 DEF Send, PanelInv, SocketsOK
  <2>2. next.session = activeId
    OBVIOUS
  <2> HIDE DEF next
  <2>3. x.up = Append(Up(k), next) /\ x.down = Down(k)
    BY <1>2 DEF SocketStates, Up, Down
  <2> HIDE DEF x
  <2>4. ASSUME NEW i \in 1..Len(x.up)
        PROVE  x.up[i].session \in unseen' \/ Unheard(x.up[i].session)
    <3>1. Up(k) \in Seq(UpFrames(N))
      BY UpType
    <3>2. x.up[i] = next \/ (i \in 1..Len(Up(k)) /\ x.up[i] = Up(k)[i])
      BY <2>3, <3>1
    <3>3. QED
      BY <2>1, <2>2, <3>2 DEF Unheard, Up
  <2>5. \A i \in 1..Len(Down(k)) : \E j \in 1..Len(x.down) : x.down[j] = Down(k)[i]
    BY <2>3
  <2>6. QED
    BY <1>1, <2>1, <2>4, <2>5, SeenSocket DEF PanelInv, server
<1>5. QED
  BY <1>3, <1>4

(* A socket is closed: the turns it had not told of are in unseen.         *)
LEMMA TypeSeen == ASSUME PanelInv, ListInv, SeenInv, NEW q \in Queries, Type(q) PROVE SeenInv'
<1>1. UNCHANGED <<server, givenBody>> /\ unseen' = unseen \cup Untold
  BY DEF Type, Abandon
<1>2. BagToSet(net) \subseteq BagToSet(net')
  BY PutNet DEF Type, Added, ListInv, NetBag
<1>3. /\ Ws' = Ws + 1 /\ Ws \in Nat
      /\ \A l \in 1..Ws' :
            \/ l = Ws + 1 /\ sockets'[l] = NewSocket
            \/ l \in 1..Ws /\ l < Ws /\ sockets'[l] = sockets[l]
            \/ /\ l \in 1..Ws /\ l = Ws
               /\ sockets'[l].down = <<>> /\ sockets'[l].up = sockets[l].up
               /\ sockets'[l].state = "closed" /\ sockets'[l].serving = sockets[l].serving
  BY TypedSockets
<1> SUFFICES ASSUME NEW id \in Sessions \ unseen' PROVE Seen(id)'
  BY DEF SeenInv
<1>4. Seen(id) /\ id \notin Untold /\ (Gone(id) => Gone(id)')
  BY <1>1 DEF SeenInv, Gone, server
<1>5. Unheard(id)' => Unheard(id)
  <2> SUFFICES ASSUME NEW l \in 1..Ws', NEW i \in 1..Len(sockets'[l].up),
                      sockets'[l].up[i].session = id
               PROVE  Unheard(id)
    BY DEF Unheard
  <2>1. l \in 1..Ws /\ sockets'[l].up = sockets[l].up
    BY <1>3 DEF NewSocket
  <2>2. QED
    BY <2>1 DEF Unheard
<1>6. GivenComes(id) => GivenComes(id)'
  <2>1. ASSUME NEW r \in BagToSet(net), Gives(r, id) PROVE GivenComes(id)'
    BY <1>2, <2>1 DEF GivenComes, Gives
  <2>2. ASSUME NEW l \in 1..Ws, NEW i \in 1..Len(Down(l)),
               Down(l)[i].type = "chat.done", Down(l)[i].session = id
        PROVE  GivenComes(id)'
    <3>1. l # Ws
      BY <1>4, <2>2 DEF Untold, Down
    <3>2. l \in 1..Ws' /\ sockets'[l] = sockets[l]
      BY <1>3, <3>1
    <3>3. QED
      BY <2>2, <3>2 DEF GivenComes, Down
  <2>3. QED
    BY <2>1, <2>2 DEF GivenComes
<1>7. QED
  BY <1>1, <1>4, <1>5, <1>6, SeenStays DEF server

LEMMA UserSeen == ASSUME PanelInv, ListInv, SeenInv, UserActs PROVE SeenInv'
<1>1. NetBag
  BY DEF ListInv
<1>2. ASSUME NEW op, NEW id, NEW arg, Ask(op, id, arg) PROVE SeenInv'
  <2>1. BagToSet(net) \subseteq BagToSet(net')
    BY <1>1, <1>2, PutNet DEF Ask, Added, NetBag
  <2>2. QED
    BY <1>2, <2>1, SeenSame DEF Ask, history, shownHistory
<1>3. ASSUME NEW id, SelectSession(id) PROVE SeenInv'
  <2>1. BagToSet(net) \subseteq BagToSet(net')
    BY <1>1, <1>3, SelectNet DEF SelectSession, NetBag
  <2>2. QED
    BY <1>3, <2>1, SeenSame DEF SelectSession
<1>4. CASE ToggleSearch
  BY <1>4, SeenSame DEF ToggleSearch, history, shownHistory
<1>5. QED
  BY <1>2, <1>3, <1>4, SendSeen, TypeSeen
  DEF UserActs, PinSession, ArchiveSession, DeleteSession, SetSessionModel, NewSession

(* C1 answers: it gives all it has, or a message has not come to it yet.   *)
LEMMA ServerSeen ==
    ASSUME PanelInv, GivenOK, ListInv, BornInv, SeenInv, ServerAnswers
    PROVE  SeenInv'
<1>1. PICK r \in BagToSet(net) :
        /\ r.got = Pending
        /\ AnswerList(r) \/ AnswerLoad(r) \/ AnswerCreate(r) \/ AnswerPatch(r) \/ AnswerDelete(r)
        /\ UNCHANGED sockets
  BY DEF ServerAnswers
<1>2. PICK got : net' = Instead(r, [r EXCEPT !.got = got])
  BY <1>1 DEF AnswerList, AnswerLoad, AnswerCreate, AnswerPatch, AnswerDelete, Reply
<1> DEFINE reply == [r EXCEPT !.got = got]
<1>3. reply.op = r.op /\ reply.id = r.id
  BY DEF PanelInv, NetOK, RequestOK, IsRequest
<1> HIDE DEF reply
<1>4. reply \in BagToSet(net') /\ \A q \in BagToSet(net) : q # r => q \in BagToSet(net')
  BY <1>2, InsteadNet DEF reply, ListInv
<1>5. DonesStay /\ \A id : Unheard(id)' => Unheard(id)
  BY <1>1, SocketsStay DEF Unheard, Ws
<1>6. ASSUME NEW id \in Sessions, Seen(id), Gone(id) => Gone(id)', r.op # "load" \/ r.id # id,
             givenBody'[id] = givenBody[id], model'[id] = model[id], stored'[id] = stored[id]
      PROVE  Seen(id)'
  <2>1. ASSUME NEW q \in BagToSet(net), Gives(q, id)
        PROVE  \E p \in BagToSet(net') : Gives(p, id)
    <3>1. CASE q = r
      BY <1>3, <1>4, <1>6, <2>1, <3>1 DEF Gives
    <3>2. CASE q # r
      BY <1>4, <2>1, <3>2
    <3>3. QED
      BY <3>1, <3>2
  <2>2. QED
    BY <1>5, <1>6, <2>1, ComesOn, SeenStays DEF GivesStay
<1>7. ASSUME NEW id \in Sessions, Gone(id) PROVE Gone(id)'
  <2>1. status[id] = "deleted" /\ status \in [Sessions -> {"unborn", "listed", "archived", "deleted"}]
    BY <1>7 DEF Gone, PanelInv, ServerOK
  <2>2. CASE AnswerCreate(r)
    BY <2>1, <2>2 DEF AnswerCreate, Gone
  <2>3. CASE AnswerDelete(r)
    <3>1. UNCHANGED status \/ \E s : Exists(r.id) /\ status' = [status EXCEPT ![r.id] = s]
      BY <2>3 DEF AnswerDelete
    <3>2. QED
      BY <2>1, <3>1 DEF Gone, Exists
  <2>4. CASE UNCHANGED status
    BY <2>1, <2>4 DEF Gone
  <2>5. QED
    BY <1>1, <2>2, <2>3, <2>4 DEF AnswerList, AnswerLoad, AnswerPatch, server
<1>8. CASE AnswerLoad(r)
  <2>1. r.op = "load" /\ UNCHANGED server /\ Born(r.id)
    BY <1>8 DEF AnswerLoad, BornInv, BornNet, BornRequest
  <2>2. ASSUME NEW id \in Sessions \ unseen', id # r.id PROVE Seen(id)'
    <3>1. givenBody'[id] = givenBody[id] /\ id \notin unseen
      BY <1>8, <2>2 DEF AnswerLoad, GivenOK
    <3>2. QED
      BY <1>6, <1>7, <2>1, <2>2, <3>1 DEF SeenInv, server
  <2>3. ASSUME r.id \in Sessions \ unseen' PROVE Seen(r.id)'
    <3>1. CASE Exists(r.id)
      <4>1. givenBody'[r.id] = Body(r.id) /\ ~Unheard(r.id)
        BY <1>8, <2>1, <2>3, <3>1 DEF AnswerLoad, GivenOK
      <4>2. QED
        BY <1>5, <2>1, <4>1 DEF Seen, Given, Body, server
    <3>2. CASE ~Exists(r.id)
      BY <2>1, <3>2 DEF Seen, Gone, Exists, Born, PanelInv, ServerOK, server
    <3>3. QED
      BY <3>1, <3>2
  <2>4. QED
    BY <2>2, <2>3 DEF SeenInv
<1>9. CASE AnswerPatch(r)
  <2>1. UNCHANGED <<stored, givenBody, unseen>> /\ r.op \in {"pin", "model"}
    BY <1>9 DEF AnswerPatch
  <2>2. ASSUME NEW id \in Sessions \ unseen PROVE Seen(id)'
    <3>1. CASE r.op = "model" /\ r.id = id
      BY <1>3, <1>4, <3>1 DEF Seen, GivenComes, Gives
    <3>2. CASE ~(r.op = "model" /\ r.id = id)
      <4>1. model'[id] = model[id]
        BY <1>9, <3>2 DEF AnswerPatch, PanelInv, ServerOK
      <4>2. QED
        BY <1>6, <1>7, <2>1, <2>2, <4>1 DEF SeenInv
    <3>3. QED
      BY <3>1, <3>2
  <2>3. QED
    BY <2>1, <2>2 DEF SeenInv
<1>10. CASE AnswerList(r) \/ AnswerCreate(r) \/ AnswerDelete(r)
  <2>1. UNCHANGED <<model, stored, givenBody, unseen>> /\ r.op # "load"
    BY <1>10 DEF AnswerList, AnswerCreate, AnswerDelete, server
  <2>2. QED
    BY <1>6, <1>7, <2>1 DEF SeenInv
<1>11. QED
  BY <1>1, <1>8, <1>9, <1>10

(* What the page takes is no request that waits; a model that was set has  *)
(* its session loaded.                                                     *)
LEMMA TakeSeen == ASSUME PanelInv, ListInv, SeenInv, TakeAnswer PROVE SeenInv'
<1>1. PICK r \in BagToSet(net) :
        /\ r.got # Pending
        /\ TakeList(r) \/ TakeLoad(r) \/ TakeCreated(r) \/ TakePatched(r) \/ TakeDeleted(r)
        /\ UNCHANGED <<sockets, server, givenBody, unseen>>
  BY DEF TakeAnswer
<1>2. NetBag
  BY DEF ListInv
<1>3. \A q \in BagToSet(net) : q # r => q \in BagToSet(net')
  <2>1. CASE TakeList(r) \/ TakeLoad(r)
    BY <1>2, <2>1, TakeNet DEF TakeList, TakeLoad
  <2>2. CASE TakeCreated(r) \/ TakeDeleted(r)
    <3>1. PICK id : Select(id, Instead(r, List(r.query)))
      BY <2>2 DEF TakeCreated, TakeDeleted
    <3>2. QED
      BY <1>2, <3>1, InsteadNet, SelectNet
  <2>3. CASE TakePatched(r)
    BY <1>2, <2>3, InsteadNet DEF TakePatched
  <2>4. QED
    BY <1>1, <2>1, <2>2, <2>3
<1>4. ASSUME r.op = "model" PROVE Load(r.id) \in BagToSet(net')
  BY <1>1, <1>2, <1>4, InsteadNet DEF TakeList, TakeLoad, TakeCreated, TakePatched, TakeDeleted
<1> SUFFICES ASSUME NEW id \in Sessions \ unseen PROVE Seen(id)'
  BY <1>1 DEF SeenInv
<1>5. GivesStay(id)
  <2> SUFFICES ASSUME NEW q \in BagToSet(net), Gives(q, id)
               PROVE  \E p \in BagToSet(net') : Gives(p, id)
    BY DEF GivesStay
  <2>1. CASE q = r
    <3>1. r.op = "model" /\ r.id = id
      BY <1>1, <2>1 DEF Gives
    <3>2. Gives(Load(r.id), id)
      BY <3>1 DEF Gives, Load, Request
    <3>3. QED
      BY <1>4, <3>1, <3>2
  <2>2. CASE q # r
    BY <1>3, <2>2
  <2>3. QED
    BY <2>1, <2>2
<1>6. DonesStay /\ (Unheard(id)' => Unheard(id)) /\ (Gone(id) => Gone(id)') /\ Seen(id)
  BY <1>1, SocketsStay DEF Unheard, Ws, Gone, server, SeenInv
<1>7. QED
  BY <1>1, <1>5, <1>6, ComesOn, SeenStays DEF server

LEMMA FailSeen == ASSUME ListInv, SeenInv, FetchFails PROVE SeenInv'
<1>1. PICK r \in BagToSet(net) :
        /\ net' = Without(r)
        /\ unseen' = IF r.op \in {"load", "model"} THEN unseen \cup {r.id} ELSE unseen
        /\ UNCHANGED <<sockets, server, givenBody>>
  BY DEF FetchFails
<1> SUFFICES ASSUME NEW id \in Sessions \ unseen' PROVE Seen(id)'
  BY DEF SeenInv
<1>2. GivesStay(id)
  <2>1. ~Gives(r, id)
    BY <1>1 DEF Gives
  <2>2. QED
    BY <1>1, <2>1, TakeNet DEF ListInv, GivesStay
<1>3. DonesStay /\ (Unheard(id)' => Unheard(id)) /\ (Gone(id) => Gone(id)') /\ Seen(id)
  BY <1>1, SocketsStay DEF Unheard, Ws, Gone, server, SeenInv
<1>4. QED
  BY <1>1, <1>2, <1>3, ComesOn, SeenStays DEF server

LEMMA SocketSeen ==
    ASSUME PanelInv, SeenInv, SocketOpens \/ SocketLost \/ CopyStreaming
    PROVE  SeenInv'
<1>1. PICK k \in 1..Ws : k = Ws /\ k \in 1..Len(sockets) /\ sockets[k] \in SocketStates(N)
  BY LastOne
<1>2. \A i \in 1..Len(Up(k)) : Unheard(Up(k)[i].session)
  BY DEF Unheard, Up
<1>3. CASE SocketOpens
  <2> DEFINE x == [sockets[k] EXCEPT !.state = "open"]
  <2>1. sockets' = [sockets EXCEPT ![k] = x] /\ UNCHANGED <<net, server, givenBody, unseen>>
    BY <1>1, <1>3 DEF SocketOpens, PanelInv, SocketsOK, history, shownHistory
  <2>2. x.up = Up(k) /\ x.down = Down(k)
    BY <1>1 DEF SocketStates, Up, Down
  <2> HIDE DEF x
  <2>3. \A i \in 1..Len(x.up) : Unheard(x.up[i].session)
    BY <1>2, <2>2
  <2>4. \A i \in 1..Len(Down(k)) : \E j \in 1..Len(x.down) : x.down[j] = Down(k)[i]
    BY <2>2
  <2>5. QED
    BY <2>1, <2>3, <2>4, SeenSocket DEF PanelInv, server
<1>4. CASE SocketLost
  <2> DEFINE x == [sockets[k] EXCEPT !.state = "closed", !.down = <<>>]
  <2>1. sockets' = [sockets EXCEPT ![k] = x] /\ x.up = Up(k)
    BY <1>1, <1>4, ClosedSocket DEF SocketLost, PanelInv, Up
  <2> HIDE DEF x
  <2>2. UNCHANGED <<net, server, givenBody>> /\ unseen' = unseen \cup Untold
    BY <1>4 DEF SocketLost, Abandon
  <2>3. ASSUME NEW i \in 1..Len(Down(k))
        PROVE  Down(k)[i].type # "chat.done" \/ Down(k)[i].session \in unseen'
    BY <1>1, <2>2 DEF Untold, Down
  <2>4. \A i \in 1..Len(x.up) : Unheard(x.up[i].session)
    BY <1>2, <2>1
  <2>5. QED
    BY <2>1, <2>2, <2>3, <2>4, SeenSocket DEF PanelInv, server
<1>5. CASE CopyStreaming
  BY <1>5, SeenSame DEF CopyStreaming, history, shownHistory
<1>6. QED
  BY <1>3, <1>4, <1>5

LEMMA FrameSeen == ASSUME PanelInv, ListInv, SeenInv, TakeFrame PROVE SeenInv'
<1> PICK k \in 1..Ws : \E x :
      /\ sockets' = [sockets EXCEPT ![k] = x] /\ x.up = sockets[k].up
      /\ Len(Down(k)) \in Nat /\ 1 \in 1..Len(Down(k)) /\ Frame = Down(k)[1]
      /\ Len(x.down) = Len(Down(k)) - 1
      /\ \A i \in 1..Len(x.down) : x.down[i] = Down(k)[i + 1] /\ i + 1 \in 1..Len(Down(k))
  BY FrameEffect
<1>1. PICK x :
      /\ sockets' = [sockets EXCEPT ![k] = x] /\ x.up = sockets[k].up
      /\ Len(Down(k)) \in Nat /\ 1 \in 1..Len(Down(k)) /\ Frame = Down(k)[1]
      /\ Len(x.down) = Len(Down(k)) - 1
      /\ \A i \in 1..Len(x.down) : x.down[i] = Down(k)[i + 1] /\ i + 1 \in 1..Len(Down(k))
  OBVIOUS
<1>2. UNCHANGED <<server, givenBody, unseen>>
  BY DEF TakeFrame
<1>3. /\ Ws' = Ws /\ sockets'[k] = x /\ \A l \in 1..Ws : l # k => sockets'[l] = sockets[l]
  BY <1>1, OneSocket DEF PanelInv
<1>4. ASSUME NEW id, Unheard(id)' PROVE Unheard(id)
  BY <1>1, <1>3, <1>4 DEF Unheard
<1>5. ASSUME NEW i \in 1..Len(Down(k)), Down(k)[i].type = "chat.done", i # 1
      PROVE  \E j \in 1..Len(x.down) : x.down[j] = Down(k)[i]
  <2>1. i \in 2..Len(Down(k))
    BY <1>1, <1>5
  <2>2. i - 1 \in 1..Len(x.down) /\ (i - 1) + 1 = i
    BY <1>1, <2>1, OneBefore
  <2>3. QED
    BY <1>1, <2>2
<1>6. BagToSet(net) \subseteq BagToSet(net') /\ (TakeDone => Load(Frame.session) \in BagToSet(net'))
  <2>1. CASE UNCHANGED net /\ ~TakeDone
    BY <2>1
  <2>2. CASE TakeDone
    <3> DEFINE more == net (+) SetToBag({List(searchQuery)})
    <3>1. IsABag(more) /\ BagToSet(net) \subseteq BagToSet(more)
      BY PutNet DEF ListInv, NetBag
    <3>2. net' = more (+) SetToBag({Load(Frame.session)})
      BY <2>2 DEF TakeDone
    <3> HIDE DEF more
    <3>3. QED
      BY <3>1, <3>2, PutNet
  <2>3. QED
    BY <2>1, <2>2 DEF TakeFrame, TakeDelta, TakeToolCall, TakeError, TakeDone
<1> SUFFICES ASSUME NEW id \in Sessions \ unseen PROVE Seen(id)'
  BY <1>2 DEF SeenInv
<1>7. GivenComes(id) => GivenComes(id)'
  <2>1. ASSUME NEW r \in BagToSet(net), Gives(r, id) PROVE GivenComes(id)'
    BY <1>6, <2>1 DEF GivenComes, Gives
  <2>2. ASSUME NEW l \in 1..Ws, NEW i \in 1..Len(Down(l)),
               Down(l)[i].type = "chat.done", Down(l)[i].session = id
        PROVE  GivenComes(id)'
    <3>1. CASE l # k
      <4>1. sockets'[l] = sockets[l]
        BY <1>3, <3>1
      <4>2. QED
        BY <1>3, <2>2, <4>1 DEF GivenComes, Down
    <3>2. CASE l = k /\ i # 1
      <4>1. PICK j \in 1..Len(x.down) : x.down[j] = Down(k)[i]
        BY <1>5, <2>2, <3>2
      <4>2. QED
        BY <1>3, <2>2, <3>2, <4>1 DEF GivenComes, Down
    <3>3. CASE l = k /\ i = 1
      <4>1. Frame.type = "chat.done" /\ Frame.session = id
        BY <1>1, <2>2, <3>3
      <4>2. TakeDone
        BY <4>1 DEF TakeFrame, TakeDelta, TakeToolCall, TakeError
      <4>3. Load(id) \in BagToSet(net')
        BY <1>6, <4>1, <4>2
      <4>4. Gives(Load(id), id)'
        BY DEF Gives, Load, Request
      <4>5. QED
        BY <4>3, <4>4 DEF GivenComes
    <3>4. QED
      BY <3>1, <3>2, <3>3
  <2>3. QED
    BY <2>1, <2>2 DEF GivenComes
<1>8. (Gone(id) => Gone(id)') /\ Seen(id)
  BY <1>2 DEF Gone, server, SeenInv
<1>9. QED
  BY <1>2, <1>4, <1>7, <1>8, SeenStays DEF server

(* A handler stores nothing of a session but a message it was sent, or an  *)
(* answer whose end it tells.                                              *)
LEMMA HandlerSeen ==
    ASSUME PanelInv, StreamInv, SeenInv, NEW k \in 1..Ws, Handler(k)
    PROVE  SeenInv'
<1>1. UNCHANGED <<net, status, model, givenBody>>
  BY DEF Handler
<1>2. k \in 1..Len(sockets) /\ sockets[k] \in SocketStates(N) /\ SocketsOK
  BY DownType DEF PanelInv
<1>3. stored \in [Sessions -> Seq(MessagesTo(N))]
  BY DEF PanelInv, ServerOK
<1>4. \A i \in 1..Len(Up(k)) : Unheard(Up(k)[i].session)
  BY DEF Unheard, Up
<1>5. CASE HandlerTakes(k)
  <2> DEFINE f == Up(k)[1]
  <2>1. PICK x :
          /\ sockets' = [sockets EXCEPT ![k] = x]
          /\ Len(Up(k)) \in Nat /\ 1 \in 1..Len(Up(k))
          /\ \A i \in 1..Len(x.up) : x.up[i] = Up(k)[i + 1] /\ i + 1 \in 1..Len(Up(k))
          /\ x.down = Down(k) \/ \E frame : x.down = Append(Down(k), frame)
          /\ \/ stored' = [stored EXCEPT ![f.session] = Append(@, UserMessage(f.turn))]
             \/ stored' = stored
    BY <1>5, TakesEffect
  <2>2. \A i \in 1..Len(Down(k)) : i \in 1..Len(x.down) /\ x.down[i] = Down(k)[i]
    <3>1. Down(k) \in Seq(DownFrames(N)) /\ Len(Down(k)) \in Nat
      BY DownType
    <3>2. ASSUME NEW frame, x.down = Append(Down(k), frame)
          PROVE  \A i \in 1..Len(Down(k)) : i \in 1..Len(x.down) /\ x.down[i] = Down(k)[i]
      BY <3>1, <3>2
    <3>3. QED
      BY <2>1, <3>2
  <2>3. ASSUME NEW id, Unheard(id)' PROVE Unheard(id)
    <3>1. Ws' = Ws /\ sockets'[k] = x /\ \A l \in 1..Ws : l # k => sockets'[l] = sockets[l]
      BY <1>2, <2>1, OneSocket
    <3>2. PICK l \in 1..Ws : \E i \in 1..Len(sockets'[l].up) : sockets'[l].up[i].session = id
      BY <2>3, <3>1 DEF Unheard
    <3>3. CASE l = k
      <4>1. PICK i \in 1..Len(x.up) : x.up[i].session = id
        BY <3>1, <3>2, <3>3
      <4>2. QED
        BY <1>4, <2>1, <4>1
    <3>4. CASE l # k
      BY <3>1, <3>2, <3>4 DEF Unheard
    <3>5. QED
      BY <3>3, <3>4
  <2>4. Unheard(f.session) /\ f.session \in Sessions /\ unseen' = unseen
    <3>1. Up(k) \in Seq(UpFrames(N))
      BY UpType
    <3>2. f \in UpFrames(N)
      BY <2>1, <3>1
    <3>3. QED
      BY <1>4, <1>5, <2>1, <3>2 DEF UpFrames, HandlerTakes
  <2> HIDE DEF f
  <2>5. ASSUME NEW id \in Sessions \ unseen PROVE Seen(id)'
    <3>1. Seen(id) /\ (Gone(id) => Gone(id)')
      BY <1>1, <2>5 DEF SeenInv, Gone
    <3>2. GivesStay(id) /\ DonesStay
      <4>1. \A i \in 1..Len(Down(k)) : Down(k)[i].type = "chat.done" =>
              \E j \in 1..Len(x.down) : x.down[j] = Down(k)[i]
        BY <2>2
      <4>2. QED
        BY <1>1, <1>2, <2>1, <4>1, DonesOfOne DEF GivesStay
    <3>3. CASE id = f.session
      <4>1. Gone(id) \/ GivenComes(id)
        BY <2>4, <3>1, <3>3 DEF Seen, Given
      <4>2. QED
        BY <3>1, <3>2, <4>1, ComesOn DEF Seen
    <3>4. CASE id # f.session
      <4>1. stored'[id] = stored[id]
        BY <1>3, <2>1, <2>4, <3>4
      <4>2. QED
        BY <1>1, <2>3, <2>5, <3>1, <3>2, <4>1, ComesOn, SeenStays
    <3>5. QED
      BY <3>3, <3>4
  <2>6. QED
    BY <2>4, <2>5 DEF SeenInv
<1>6. ASSUME NEW type, NEW serving, Served(k, FrameOf(k, type), serving)
      PROVE  \E x :
                /\ sockets' = [sockets EXCEPT ![k] = x] /\ x.up = Up(k)
                /\ x.down = Heard(k, FrameOf(k, type))
                /\ \A i \in 1..Len(Down(k)) : i \in 1..Len(x.down) /\ x.down[i] = Down(k)[i]
  BY <1>6, ServesEffect, HeardFrame
<1>7. CASE HandlerStreams(k) \/ HandlerCallsTool(k) \/ HandlerFails(k)
  <2>1. PICK type : \E serving : Served(k, FrameOf(k, type), serving)
    BY <1>7 DEF HandlerStreams, HandlerCallsTool, HandlerFails
  <2>2. PICK x :
          /\ sockets' = [sockets EXCEPT ![k] = x] /\ x.up = Up(k)
          /\ \A i \in 1..Len(Down(k)) : i \in 1..Len(x.down) /\ x.down[i] = Down(k)[i]
    BY <1>6, <2>1
  <2>3. UNCHANGED <<stored, unseen>>
    BY <1>7 DEF HandlerStreams, HandlerCallsTool, HandlerFails
  <2>4. \A i \in 1..Len(x.up) : Unheard(x.up[i].session)
    BY <1>4, <2>2
  <2>5. \A i \in 1..Len(Down(k)) : \E j \in 1..Len(x.down) : x.down[j] = Down(k)[i]
    BY <2>2
  <2>6. QED
    BY <1>1, <1>2, <2>2, <2>3, <2>4, <2>5, SeenSocket
<1>8. CASE HandlerFinishes(k)
  <2> DEFINE t == sockets[k].serving
             frame == FrameOf(k, "chat.done")
  <2>1. PICK x :
          /\ sockets' = [sockets EXCEPT ![k] = x] /\ x.up = Up(k) /\ x.down = Heard(k, frame)
          /\ \A i \in 1..Len(Down(k)) : i \in 1..Len(x.down) /\ x.down[i] = Down(k)[i]
    BY <1>6, <1>8 DEF HandlerFinishes
  <2>2. frame.type = "chat.done" /\ frame.session = t.session
    BY DEF FrameOf
  <2> HIDE DEF frame
  <2>3. unseen' = unseen \cup (IF sockets[k].state = "closed" THEN {t.session} ELSE {})
    BY <1>8 DEF HandlerFinishes
  <2>4. ASSUME NEW id \in Sessions \ unseen', id = t.session PROVE GivenComes(id)'
    <3>1. sockets[k].state = "open"
      BY <1>2, <1>8, <2>3, <2>4 DEF SocketStates, StreamInv, OpensIdle, Busy, HandlerFinishes
    <3>2. PICK i \in 1..Len(x.down) : x.down[i] = frame
      BY <2>1, <3>1, HeardFrame
    <3>3. Ws' = Ws /\ sockets'[k] = x
      BY <1>2, <2>1, OneSocket
    <3>4. QED
      BY <2>2, <2>4, <3>2, <3>3 DEF GivenComes, Down
  <2>5. ASSUME NEW id \in Sessions, id # t.session PROVE stored'[id] = stored[id]
    <3>1. stored' = stored \/ \E m : stored' = [stored EXCEPT ![t.session] = m]
      BY <1>8 DEF HandlerFinishes
    <3>2. QED
      BY <1>3, <2>5, <3>1
  <2>6. \A id \in Sessions \ unseen' : GivenComes(id)' \/ stored'[id] = stored[id]
    BY <2>4, <2>5
  <2>7. \A i \in 1..Len(x.up) : Unheard(x.up[i].session)
    BY <1>4, <2>1
  <2>8. \A i \in 1..Len(Down(k)) : \E j \in 1..Len(x.down) : x.down[j] = Down(k)[i]
    BY <2>1
  <2>9. unseen \subseteq unseen'
    BY <2>3
  <2>10. QED
    BY <1>1, <1>2, <2>1, <2>6, <2>7, <2>8, <2>9, SeenSocket
<1>9. CASE HandlerEnds(k)
  <2> DEFINE x == [sockets[k] EXCEPT !.up = <<>>, !.serving = Idle]
  <2>1. sockets' = [sockets EXCEPT ![k] = x] /\ UNCHANGED <<stored, unseen>>
    BY <1>2, <1>9 DEF HandlerEnds, SocketsOK
  <2>2. x.up = <<>> /\ x.down = Down(k)
    BY <1>2 DEF SocketStates, Down
  <2> HIDE DEF x
  <2>3. \A i \in 1..Len(x.up) : FALSE
    BY <2>2
  <2>4. \A i \in 1..Len(Down(k)) : \E j \in 1..Len(x.down) : x.down[j] = Down(k)[i]
    BY <2>2
  <2>5. QED
    BY <1>1, <1>2, <2>1, <2>3, <2>4, SeenSocket
<1>10. QED
  BY <1>5, <1>7, <1>8, <1>9 DEF Handler

LEMMA ChatSeen ==
    ASSUME PanelInv, GivenOK, StreamInv, ListInv, BornInv, SeenInv, ChatNext
    PROVE  SeenInv'
  BY UserSeen, ServerSeen, TakeSeen, FailSeen, SocketSeen, FrameSeen, HandlerSeen DEF ChatNext

-----------------------------------------------------------------------------
(* The dialog for the API keys.                                            *)
KeyMoves ==
    \/ OpenSettings \/ CloseSettings \/ ModelsArrive
    \/ \E p \in Providers : TypeKey(p) \/ SaveKey(p) \/ DeleteKey(p)
    \/ KeyServerAnswers \/ KeyTakesAnswer \/ KeyFetchFails

KeyRequests ==
    [op : {"list", "save", "delete"}, provider : Providers \cup {"all"}, row : Rows,
     stage : {"sent", "ok", "error"}, names : SUBSET Names]
IsKeyRequest(r) == r \in KeyRequests /\ (r.op # "list" => r.provider \in Providers)
KeyNetOK == IsABag(keyNet) /\ \A r \in BagToSet(keyNet) : IsKeyRequest(r)
RowsOK == DOMAIN rows \subseteq Providers /\ \A p \in DOMAIN rows : rows[p] \in Rows
KeyInv ==
    /\ settingsOpen \in BOOLEAN /\ models \in BOOLEAN /\ crossed \in BOOLEAN
    /\ RowsOK /\ KeyNetOK /\ secrets \subseteq Names

LEMMA KeyTypes == KeyInv => KeyTypeOK
  BY DEF KeyInv, KeyTypeOK, RowsOK, KeyNetOK, IsKeyRequest, KeyRequests

LEMMA RowType == ASSUME RowsOK, NEW p PROVE RowOf(p) \in Rows
  BY DEF RowsOK, RowOf, EmptyRow, Row, Rows

LEMMA RowSet ==
    ASSUME RowsOK, NEW p \in Providers, NEW row \in Rows, SetRow(p, row)
    PROVE  /\ RowsOK' /\ DOMAIN rows' = DOMAIN rows \cup {p} /\ rows'[p] = row
           /\ \A q \in DOMAIN rows : q # p => rows'[q] = rows[q]
  BY DEF RowsOK, SetRow

LEMMA KeyRequestType ==
    ASSUME NEW op \in {"save", "delete"}, NEW p \in Providers, NEW row \in Rows
    PROVE  IsKeyRequest(KeyRequest(op, p, row))
  BY DEF KeyRequest, IsKeyRequest, KeyRequests

LEMMA DiscoverType == IsKeyRequest(Discover)
  BY DEF Discover, KeyRequest, IsKeyRequest, KeyRequests, EmptyRow, Row, Rows

LEMMA ChangesBag ==
    ASSUME IsABag(keyNet)
    PROVE  IsABag(ChangesOnly) /\ BagToSet(ChangesOnly) = Changes
<1>1. \A r \in Changes : keyNet[r] \in Nat /\ keyNet[r] > 0
  BY BagCopies DEF Changes, BagToSet
<1>2. ChangesOnly \in [Changes -> {n \in Nat : n > 0}]
  BY <1>1 DEF ChangesOnly
<1>3. QED
  BY <1>2 DEF IsABag, BagToSet

LEMMA Discovers ==
    ASSUME KeyNetOK, RunDiscovery
    PROVE  KeyNetOK' /\ BagToSet(keyNet') = Changes \cup {Discover}
<1>1. IsABag(ChangesOnly) /\ BagToSet(ChangesOnly) = Changes
  BY ChangesBag DEF KeyNetOK
<1>2. IsABag(keyNet') /\ BagToSet(keyNet') = Changes \cup {Discover}
  BY <1>1, PutNet DEF RunDiscovery
<1>3. QED
  BY <1>2, DiscoverType DEF KeyNetOK, Changes

(* What is answered, and what is taken.                                    *)
LEMMA KeyTaken ==
    ASSUME KeyNetOK, NEW r, keyNet' = keyNet (-) SetToBag({r})
    PROVE  KeyNetOK' /\ BagToSet(keyNet') \subseteq BagToSet(keyNet)
  BY SetIsBag, BagAfterTake, BagTake DEF KeyNetOK

LEMMA KeyAnswered ==
    ASSUME KeyNetOK, NEW r \in BagToSet(keyNet), NEW stage \in {"ok", "error"},
           NEW names \in SUBSET Names, Answered(r, stage, names)
    PROVE  /\ KeyNetOK'
           /\ \A q \in BagToSet(keyNet') : q \in BagToSet(keyNet) \/ q.op = r.op
<1> DEFINE a == [r EXCEPT !.stage = stage, !.names = names]
<1>1. IsKeyRequest(r)
  BY DEF KeyNetOK
<1>2. IsKeyRequest(a) /\ a.op = r.op
  BY <1>1 DEF IsKeyRequest, KeyRequests
<1>3. keyNet' = (keyNet (-) SetToBag({r})) (+) SetToBag({a})
  BY DEF Answered
<1> HIDE DEF a
<1>4. IsABag(keyNet (-) SetToBag({r})) /\ BagToSet(keyNet (-) SetToBag({r})) \subseteq BagToSet(keyNet)
  BY SetIsBag, BagAfterTake, BagTake DEF KeyNetOK
<1>5. IsABag(keyNet') /\ BagToSet(keyNet') = BagToSet(keyNet (-) SetToBag({r})) \cup {a}
  BY <1>3, <1>4, PutNet
<1>6. QED
  BY <1>2, <1>4, <1>5 DEF KeyNetOK

LEMMA KeyInit == SettingsInit => KeyInv
<1> SUFFICES ASSUME SettingsInit PROVE KeyInv
  OBVIOUS
<1>1. KeyNetOK
  BY EmptyIsBag DEF SettingsInit, KeyNetOK
<1>2. RowsOK
  BY DEF SettingsInit, RowsOK
<1>3. QED
  BY <1>1, <1>2 DEF SettingsInit, KeyInv

(* What taking the answer r, or losing it, does to the rows.               *)
KeyTake(r) == TakeDiscovery(r) \/ TakeKeySaved(r) \/ TakeKeyDeleted(r)

LEMMA KeyTakeRows ==
    ASSUME RowsOK, NEW r, IsKeyRequest(r), KeyTake(r)
    PROVE  RowsOK'
<1>1. ASSUME NEW row \in Rows, NEW p \in Providers, SetRow(p, row) PROVE RowsOK'
  BY <1>1, RowSet
<1>2. CASE TakeDiscovery(r)
  <2>1. CASE models
    <3>1. rows' = [p \in Providers |-> [RowOf(p) EXCEPT !.saved = SavedIn(r.names, p)]]
      BY <1>2, <2>1 DEF TakeDiscovery
    <3>2. \A p \in Providers : [RowOf(p) EXCEPT !.saved = SavedIn(r.names, p)] \in Rows
      <4>1. \A p : SavedIn(r.names, p) \in BOOLEAN
        BY DEF SavedIn
      <4>2. QED
        BY <4>1, RowType DEF Rows
    <3>3. QED
      BY <3>1, <3>2 DEF RowsOK
  <2>2. CASE ~models
    BY <1>2, <2>2 DEF TakeDiscovery, RowsOK
  <2>3. QED
    BY <2>1, <2>2
<1>3. CASE TakeKeySaved(r)
  <2>1. r.provider \in Providers /\ r.row \in Rows
    BY <1>3 DEF TakeKeySaved, IsKeyRequest, KeyRequests
  <2>2. Row(TRUE, "saved", "") \in Rows /\ [r.row EXCEPT !.state = "error"] \in Rows
    BY <2>1 DEF Row, Rows
  <2>3. QED
    BY <1>1, <1>3, <2>1, <2>2 DEF TakeKeySaved
<1>4. CASE TakeKeyDeleted(r)
  <2>1. r.provider \in Providers
    BY <1>4 DEF TakeKeyDeleted, IsKeyRequest
  <2>2. EmptyRow \in Rows /\ [RowOf(r.provider) EXCEPT !.state = "error"] \in Rows
    BY RowType DEF EmptyRow, Row, Rows
  <2>3. QED
    BY <1>1, <1>4, <2>1, <2>2 DEF TakeKeyDeleted
<1>5. QED
  BY <1>2, <1>3, <1>4 DEF KeyTake

LEMMA KeyKept == ASSUME KeyInv, KeyMoves PROVE KeyInv'
<1>1. RowsOK /\ KeyNetOK /\ secrets \subseteq Names
  BY DEF KeyInv
<1>2. CASE OpenSettings \/ ModelsArrive
  <2>1. KeyNetOK'
    BY <1>1, <1>2, Discovers DEF OpenSettings, ModelsArrive, KeyNetOK
  <2>2. RowsOK' /\ secrets' \subseteq Names
    BY <1>1, <1>2 DEF OpenSettings, ModelsArrive, RowsOK
  <2>3. QED
    BY <1>2, <2>1, <2>2 DEF OpenSettings, ModelsArrive, KeyInv
<1>3. CASE CloseSettings
  <2>1. KeyNetOK'
    BY <1>1, <1>3, ChangesBag DEF CloseSettings, KeyNetOK, Changes
  <2>2. RowsOK' /\ secrets' \subseteq Names
    BY <1>1, <1>3 DEF CloseSettings, RowsOK
  <2>3. QED
    BY <1>3, <2>1, <2>2 DEF CloseSettings, KeyInv
<1>4. ASSUME NEW op \in {"save", "delete"}, NEW p \in Providers, Change(op, p), RowsOK' PROVE KeyInv'
  <2>1. IsKeyRequest(KeyRequest(op, p, RowOf(p)))
    BY <1>1, RowType, KeyRequestType
  <2>2. KeyNetOK'
    BY <1>1, <1>4, <2>1, PutNet DEF Change, KeyNetOK
  <2>3. QED
    BY <1>4, <2>2 DEF Change, KeyInv
<1>5. ASSUME NEW p \in Providers, TypeKey(p) PROVE KeyInv'
  <2>1. [RowOf(p) EXCEPT !.draft = "key"] \in Rows
    BY <1>1, RowType DEF Rows
  <2>2. RowsOK'
    BY <1>1, <1>5, <2>1, RowSet DEF TypeKey
  <2>3. QED
    BY <1>5, <2>2 DEF TypeKey, KeyInv, KeyNetOK
<1>6. ASSUME NEW p \in Providers, SaveKey(p) PROVE KeyInv'
  <2>1. [RowOf(p) EXCEPT !.state = "saving"] \in Rows
    BY <1>1, RowType DEF Rows
  <2>2. RowsOK'
    BY <1>1, <1>6, <2>1, RowSet DEF SaveKey
  <2>3. QED
    BY <1>4, <1>6, <2>2 DEF SaveKey
<1>7. ASSUME NEW p \in Providers, DeleteKey(p) PROVE KeyInv'
  BY <1>1, <1>4, <1>7 DEF DeleteKey, RowsOK
<1>8. CASE KeyServerAnswers
  <2>1. PICK r \in BagToSet(keyNet), stage \in {"ok", "error"}, names \in SUBSET Names :
          Answered(r, stage, names)
    BY <1>1, <1>8 DEF KeyServerAnswers
  <2>2. KeyNetOK'
    BY <1>1, <2>1, KeyAnswered
  <2>3. \A q \in BagToSet(keyNet) : q.op # "list" => q.provider \in Providers
    BY <1>1 DEF KeyNetOK, IsKeyRequest
  <2>4. secrets' \subseteq Names
    BY <1>1, <1>8, <2>3 DEF KeyServerAnswers, Names
  <2>5. QED
    BY <1>1, <1>8, <2>2, <2>4 DEF KeyServerAnswers, KeyInv, RowsOK
<1>9. CASE KeyTakesAnswer
  <2>1. PICK r \in BagToSet(keyNet) :
          /\ KeyTake(r) /\ keyNet' = keyNet (-) SetToBag({r})
          /\ UNCHANGED <<settingsOpen, models, secrets, crossed>>
    BY <1>9 DEF KeyTakesAnswer, KeyTake
  <2>2. RowsOK' /\ KeyNetOK'
    BY <1>1, <2>1, KeyTakeRows, KeyTaken DEF KeyNetOK
  <2>3. QED
    BY <2>1, <2>2 DEF KeyInv
<1>10. CASE KeyFetchFails
  <2>1. PICK r \in BagToSet(keyNet) :
          /\ KeyTake([r EXCEPT !.stage = "error", !.names = {}]) /\ keyNet' = keyNet (-) SetToBag({r})
          /\ crossed' = TRUE /\ UNCHANGED <<settingsOpen, models, secrets>>
    BY <1>10 DEF KeyFetchFails, KeyTake
  <2> DEFINE lost == [r EXCEPT !.stage = "error", !.names = {}]
  <2>2. IsKeyRequest(lost)
    BY <1>1 DEF KeyNetOK, IsKeyRequest, KeyRequests
  <2> HIDE DEF lost
  <2>3. RowsOK' /\ KeyNetOK'
    BY <1>1, <2>1, <2>2, KeyTakeRows, KeyTaken DEF lost
  <2>4. QED
    BY <2>1, <2>3 DEF KeyInv
<1>11. QED
  BY <1>2, <1>3, <1>5, <1>6, <1>7, <1>8, <1>9, <1>10 DEF KeyMoves
-----------------------------------------------------------------------------
(* The badges.  While nothing overlaps, at most one request is under way,  *)
(* and what it has yet to bring is all that the rows may be wrong about.   *)
First(p) == <<p, "first">>
Truthful(p, row) ==
    /\ First(p) \in secrets => row.saved
    /\ row.saved => SavedIn(secrets, p)
AllTruthful == \A p \in DOMAIN rows : Truthful(p, rows[p])
WaitsFor(r) ==
    /\ r.op = "list" => r.stage = "sent" \/ (r.stage = "ok" /\ r.names = secrets)
    /\ r.op # "list" =>
          /\ DOMAIN rows = Providers
          /\ \A p \in Providers : p # r.provider \/ r.stage # "ok" => Truthful(p, rows[p])
    /\ r.op = "save" =>
          /\ r.stage = "ok" => First(r.provider) \in secrets
          /\ r.stage # "ok" => Truthful(r.provider, r.row)
    /\ r.op = "delete" /\ r.stage # "sent" => First(r.provider) \notin secrets

NoModels == ~models => DOMAIN rows = {} /\ \A r \in BagToSet(keyNet) : r.op = "list"
AtMostOne ==
    settingsOpen /\ ~crossed =>
        \/ keyNet = EmptyBag /\ (models => DOMAIN rows = Providers) /\ AllTruthful
        \/ \E r : keyNet = SetToBag({r}) /\ WaitsFor(r)
BadgeInv == NoModels /\ AtMostOne

LEMMA BadgeSuffices == BadgeInv => BadgeTruthful
<1> SUFFICES ASSUME BadgeInv, settingsOpen, keyNet = EmptyBag, ~crossed PROVE AllTruthful
  BY DEF BadgeTruthful, AllTruthful, Truthful, First
<1>1. \A r : keyNet # SetToBag({r})
  BY EmptyIsBag, SetIsBag
<1>2. QED
  BY <1>1 DEF BadgeInv, AtMostOne

LEMMA BadgeInit == SettingsInit => BadgeInv
<1> SUFFICES ASSUME SettingsInit PROVE BadgeInv
  OBVIOUS
<1>1. DOMAIN rows = {} /\ BagToSet(keyNet) = {} /\ settingsOpen = FALSE
  BY EmptyIsBag DEF SettingsInit
<1>2. QED
  BY <1>1 DEF BadgeInv, NoModels, AtMostOne

(* One request in the bag.                                                 *)
LEMMA OneInBag ==
    ASSUME NEW r, NEW B, B = EmptyBag
    PROVE  B (+) SetToBag({r}) = SetToBag({r})
<1>1. DOMAIN EmptyBag = {}
  BY DEF EmptyBag, SetToBag
<1>2. QED
  BY <1>1 DEF (+), SetToBag

LEMMA OneOutOfBag == ASSUME NEW r PROVE SetToBag({r}) (-) SetToBag({r}) = EmptyBag
<1> DEFINE B == SetToBag({r}) (-) SetToBag({r})
<1>1. IsABag(B)
  BY SetIsBag, BagAfterTake
<1>2. BagToSet(B) = {}
  BY DEF BagToSet, SetToBag, (-)
<1>3. QED
  BY <1>1, <1>2, EmptyIsBag

(* A change of a row that leaves its badge alone.                          *)
LEMMA BadgeLeft ==
    ASSUME NEW p, NEW row, NEW other, Truthful(p, row), other.saved = row.saved, UNCHANGED secrets
    PROVE  Truthful(p, other) /\ Truthful(p, other)'
  BY DEF Truthful

LEMMA SameSecrets ==
    ASSUME UNCHANGED secrets, NEW p, NEW row, Truthful(p, row)
    PROVE  Truthful(p, row)'
  BY DEF Truthful

(* Opening the dialog, or learning of the providers, starts a discovery.   *)
LEMMA DiscoverBadge ==
    ASSUME KeyInv, BadgeInv, OpenSettings \/ ModelsArrive
    PROVE  BadgeInv'
<1>1. KeyNetOK /\ UNCHANGED rows
  BY DEF KeyInv, OpenSettings, ModelsArrive
<1>2. NoModels'
  <2>1. CASE OpenSettings
    <3>1. BagToSet(keyNet') = Changes \cup {Discover}
      BY <1>1, <2>1, Discovers DEF OpenSettings
    <3>2. ~models => Changes = {}
      BY DEF BadgeInv, NoModels, Changes
    <3>3. Discover.op = "list"
      BY DEF Discover, KeyRequest
    <3>4. QED
      BY <1>1, <2>1, <3>1, <3>2, <3>3 DEF BadgeInv, NoModels, OpenSettings
  <2>2. CASE ModelsArrive
    BY <2>2 DEF ModelsArrive, NoModels
  <2>3. QED
    BY <2>1, <2>2
<1>3. ASSUME RunDiscovery, ChangesOnly = EmptyBag PROVE AtMostOne'
  <2>1. keyNet' = SetToBag({Discover})
    BY <1>3, OneInBag DEF RunDiscovery
  <2>2. Discover.op = "list" /\ Discover.stage = "sent"
    BY DEF Discover, KeyRequest
  <2>3. WaitsFor(Discover)'
    BY <2>2 DEF WaitsFor
  <2>4. QED
    BY <2>1, <2>3 DEF AtMostOne
<1>4. AtMostOne'
  <2>1. CASE OpenSettings
    BY <1>3, <2>1 DEF OpenSettings, AtMostOne
  <2>2. CASE ModelsArrive
    <3>1. ChangesOnly = EmptyBag
      <4>1. IsABag(ChangesOnly) /\ BagToSet(ChangesOnly) = Changes
        BY <1>1, ChangesBag DEF KeyNetOK
      <4>2. Changes = {}
        BY <2>2 DEF ModelsArrive, BadgeInv, NoModels, Changes
      <4>3. QED
        BY <4>1, <4>2, EmptyIsBag
    <3>2. CASE settingsOpen
      BY <1>3, <2>2, <3>1, <3>2 DEF ModelsArrive
    <3>3. CASE ~settingsOpen
      BY <2>2, <3>3 DEF ModelsArrive, AtMostOne
    <3>4. QED
      BY <3>2, <3>3
  <2>3. QED
    BY <2>1, <2>2
<1>5. QED
  BY <1>2, <1>4 DEF BadgeInv

LEMMA CloseBadge == ASSUME KeyInv, BadgeInv, CloseSettings PROVE BadgeInv'
<1>1. IsABag(ChangesOnly) /\ BagToSet(ChangesOnly) = Changes
  BY ChangesBag DEF KeyInv, KeyNetOK
<1>2. QED
  BY <1>1 DEF CloseSettings, BadgeInv, NoModels, AtMostOne, Changes

(* The user edits, saves or deletes; a row keeps its badge.                *)
LEMMA EditBadge ==
    ASSUME KeyInv, BadgeInv, NEW p \in Providers, TypeKey(p) \/ SaveKey(p) \/ DeleteKey(p)
    PROVE  BadgeInv'
<1>1. models /\ settingsOpen /\ UNCHANGED <<models, settingsOpen, secrets>> /\ RowsOK
  BY DEF TypeKey, SaveKey, DeleteKey, Change, KeyInv
<1>2. NoModels'
  BY <1>1 DEF NoModels
<1>3. ASSUME DOMAIN rows = Providers
      PROVE  DOMAIN rows' = Providers /\ \A q \in Providers : rows'[q].saved = rows[q].saved
  <2>1. RowOf(p) = rows[p] /\ rows[p] \in Rows
    BY <1>1, <1>3 DEF RowOf, RowsOK
  <2>2. ASSUME NEW row \in Rows, row.saved = rows[p].saved, SetRow(p, row)
        PROVE  DOMAIN rows' = Providers /\ \A q \in Providers : rows'[q].saved = rows[q].saved
    <3>1. DOMAIN rows' = Providers /\ rows'[p] = row /\ \A q \in Providers : q # p => rows'[q] = rows[q]
      BY <1>1, <1>3, <2>2, RowSet
    <3>2. QED
      BY <2>2, <3>1
  <2>3. CASE TypeKey(p)
    <3>1. /\ [rows[p] EXCEPT !.draft = "key"] \in Rows
          /\ [rows[p] EXCEPT !.draft = "key"].saved = rows[p].saved
      BY <2>1 DEF Rows
    <3>2. QED
      BY <2>1, <2>2, <2>3, <3>1 DEF TypeKey
  <2>4. CASE SaveKey(p)
    <3>1. /\ [rows[p] EXCEPT !.state = "saving"] \in Rows
          /\ [rows[p] EXCEPT !.state = "saving"].saved = rows[p].saved
      BY <2>1 DEF Rows
    <3>2. QED
      BY <2>1, <2>2, <2>4, <3>1 DEF SaveKey
  <2>5. CASE DeleteKey(p)
    BY <1>3, <2>5 DEF DeleteKey
  <2>6. QED
    BY <2>3, <2>4, <2>5
<1>4. ASSUME DOMAIN rows = Providers, NEW q \in Providers, Truthful(q, rows[q])
      PROVE  Truthful(q, rows'[q]) /\ Truthful(q, rows[q])'
  <2>1. rows'[q].saved = rows[q].saved
    BY <1>3, <1>4
  <2>2. QED
    BY <1>1, <1>4, <2>1 DEF Truthful
<1>5. CASE TypeKey(p)
  <2> SUFFICES ASSUME ~crossed PROVE AtMostOne'
    BY <1>2, <1>5 DEF BadgeInv, AtMostOne, TypeKey
  <2>1. keyNet' = keyNet
    BY <1>5 DEF TypeKey
  <2>2. CASE keyNet = EmptyBag /\ DOMAIN rows = Providers /\ AllTruthful
    <3>1. DOMAIN rows' = Providers /\ \A q \in Providers : Truthful(q, rows[q])'
      BY <1>3, <1>4, <2>2 DEF AllTruthful
    <3>2. AllTruthful'
      BY <3>1 DEF AllTruthful
    <3>3. QED
      BY <2>1, <2>2, <3>1, <3>2 DEF AtMostOne
  <2>3. ASSUME NEW r, keyNet = SetToBag({r}), WaitsFor(r) PROVE AtMostOne'
    <3>1. r.op # "list" => DOMAIN rows' = Providers /\ \A q \in Providers :
                              q # r.provider \/ r.stage # "ok" => Truthful(q, rows[q])'
      BY <1>3, <1>4, <2>3 DEF WaitsFor
    <3>2. WaitsFor(r)'
      BY <1>1, <2>3, <3>1 DEF WaitsFor, Truthful
    <3>3. QED
      BY <2>1, <2>3, <3>2 DEF AtMostOne
  <2>4. QED
    BY <1>1, <2>2, <2>3 DEF BadgeInv, AtMostOne
<1>6. ASSUME NEW op \in {"save", "delete"}, Change(op, p) PROVE BadgeInv'
  <2> DEFINE r == KeyRequest(op, p, RowOf(p))
  <2> SUFFICES ASSUME ~crossed' PROVE AtMostOne'
    BY <1>2 DEF BadgeInv, AtMostOne
  <2>1. keyNet = EmptyBag /\ ~crossed
    BY <1>6 DEF Change
  <2>2. DOMAIN rows = Providers /\ AllTruthful
    <3>1. \A q : EmptyBag # SetToBag({q})
      BY EmptyIsBag, SetIsBag
    <3>2. QED
      BY <1>1, <2>1, <3>1 DEF BadgeInv, AtMostOne
  <2>3. DOMAIN rows' = Providers /\ \A q \in Providers : Truthful(q, rows[q])'
    BY <1>3, <1>4, <2>2 DEF AllTruthful
  <2>4. r.op = op /\ r.provider = p /\ r.stage = "sent" /\ r.row = rows[p]
    BY <2>2 DEF KeyRequest, RowOf
  <2>5. keyNet' = SetToBag({r})
    BY <1>6, <2>1, OneInBag DEF Change
  <2> HIDE DEF r
  <2>6. PICK b : b = r
    OBVIOUS
  <2>7. Truthful(p, b.row)'
    <3>1. Truthful(p, rows[p])
      BY <2>2 DEF AllTruthful
    <3>2. QED
      BY <1>1, <2>4, <2>6, <3>1 DEF Truthful
  <2>8. WaitsFor(b)'
    BY <2>3, <2>4, <2>6, <2>7 DEF WaitsFor
  <2>9. QED
    BY <2>5, <2>6, <2>8 DEF AtMostOne
<1>7. QED
  BY <1>5, <1>6 DEF SaveKey, DeleteKey

(* The server answers the one request that is under way.                   *)
LEMMA AnswerBadge == ASSUME KeyInv, BadgeInv, KeyServerAnswers PROVE BadgeInv'
<1>1. PICK r \in BagToSet(keyNet) :
        /\ r.stage = "sent"
        /\ \/ /\ r.op = "list"
              /\ Answered(r, "ok", secrets)
              /\ UNCHANGED secrets
           \/ /\ r.op = "save"
              /\ \/ Answered(r, "ok", {}) /\ secrets' = secrets \cup {First(r.provider)}
                 \/ Answered(r, "error", {}) /\ UNCHANGED secrets
           \/ /\ r.op = "delete"
              /\ IF First(r.provider) \in secrets
                 THEN Answered(r, "ok", {}) /\ secrets' = secrets \ {First(r.provider)}
                 ELSE Answered(r, "error", {}) /\ UNCHANGED secrets
        /\ UNCHANGED <<settingsOpen, models, rows, crossed>>
  BY DEF KeyServerAnswers, First
<1>2. IsKeyRequest(r) /\ KeyNetOK /\ secrets \subseteq Names
  BY DEF KeyInv, KeyNetOK
<1>3. PICK stage \in {"ok", "error"}, names \in SUBSET Names : Answered(r, stage, names)
  BY <1>1, <1>2
<1>4. NoModels'
  <2>1. \A q \in BagToSet(keyNet') : q \in BagToSet(keyNet) \/ q.op = r.op
    BY <1>2, <1>3, KeyAnswered
  <2>2. QED
    BY <1>1, <2>1 DEF BadgeInv, NoModels
<1>5. SUFFICES ASSUME settingsOpen, ~crossed PROVE AtMostOne'
  BY <1>1, <1>4 DEF BadgeInv, AtMostOne
<1>6. keyNet = SetToBag({r}) /\ WaitsFor(r)
  <2>1. BagToSet(keyNet) # {}
    BY <1>1
  <2>2. PICK q : keyNet = SetToBag({q}) /\ WaitsFor(q)
    BY <1>5, <2>1, EmptyIsBag DEF BadgeInv, AtMostOne
  <2>3. r = q
    BY <2>2, SetIsBag
  <2>4. QED
    BY <2>2, <2>3
<1>7. ASSUME NEW s, NEW ns, Answered(r, s, ns), s \in {"ok", "error"}, WaitsFor([r EXCEPT !.stage = s, !.names = ns])'
      PROVE  AtMostOne'
  <2>1. keyNet' = SetToBag({[r EXCEPT !.stage = s, !.names = ns]})
    <3> DEFINE a == [r EXCEPT !.stage = s, !.names = ns]
    <3>1. keyNet' = (SetToBag({r}) (-) SetToBag({r})) (+) SetToBag({a})
      BY <1>6, <1>7 DEF Answered
    <3> HIDE DEF a
    <3>2. keyNet' = SetToBag({a})
      BY <3>1, OneOutOfBag, OneInBag
    <3>3. QED
      BY <3>2 DEF a
  <2>2. QED
    BY <1>7, <2>1 DEF AtMostOne
<1>8. ASSUME NEW s \in {"ok", "error"}, NEW ns
      PROVE  /\ [r EXCEPT !.stage = s, !.names = ns].op = r.op
             /\ [r EXCEPT !.stage = s, !.names = ns].provider = r.provider
             /\ [r EXCEPT !.stage = s, !.names = ns].row = r.row
             /\ [r EXCEPT !.stage = s, !.names = ns].stage = s
             /\ [r EXCEPT !.stage = s, !.names = ns].names = ns
  BY <1>2 DEF IsKeyRequest, KeyRequests
<1>9. CASE r.op = "list"
  <2>1. Answered(r, "ok", secrets) /\ UNCHANGED secrets
    BY <1>1, <1>9
  <2> DEFINE a == [r EXCEPT !.stage = "ok", !.names = secrets]
  <2>2. a.op = "list" /\ a.stage = "ok" /\ a.names = secrets
    BY <1>8, <1>9
  <2> HIDE DEF a
  <2>3. PICK b : b = a
    OBVIOUS
  <2>4. WaitsFor(b)'
    BY <2>1, <2>2, <2>3 DEF WaitsFor
  <2>5. keyNet' = SetToBag({b})
    <3>1. keyNet' = (SetToBag({r}) (-) SetToBag({r})) (+) SetToBag({a})
      BY <1>6, <2>1 DEF Answered, a
    <3>2. QED
      BY <2>3, <3>1, OneOutOfBag, OneInBag
  <2>6. QED
    BY <2>4, <2>5 DEF AtMostOne
<1>10. ASSUME NEW p \in Providers, p # r.provider, Truthful(p, rows[p]), r.op # "list"
       PROVE  Truthful(p, rows[p])'
  <2>1. First(p) # First(r.provider)
    BY <1>10 DEF First
  <2>2. UNCHANGED rows
    BY <1>1
  <2>3. secrets' \in {secrets, secrets \cup {First(r.provider)}, secrets \ {First(r.provider)}}
    BY <1>1
  <2>4. First(p) \in secrets' <=> First(p) \in secrets
    BY <2>1, <2>3
  <2>5. SavedIn(secrets', p) <=> SavedIn(secrets, p)
    <3>1. First(r.provider)[1] = r.provider
      BY DEF First
    <3>2. QED
      BY <1>10, <2>3, <3>1 DEF SavedIn
  <2>6. QED
    BY <1>10, <2>2, <2>4, <2>5 DEF Truthful
<1>11. CASE r.op # "list"
  <2>1. /\ DOMAIN rows' = Providers
        /\ \A p \in Providers : p # r.provider => Truthful(p, rows[p])'
        /\ Truthful(r.provider, rows[r.provider])
    BY <1>1, <1>2, <1>6, <1>10, <1>11 DEF WaitsFor, IsKeyRequest
  <2>2. UNCHANGED secrets => Truthful(r.provider, rows[r.provider])'
    BY <1>1, <2>1 DEF Truthful
  <2>3. CASE r.op = "save" /\ Answered(r, "ok", {}) /\ secrets' = secrets \cup {First(r.provider)}
    <3>1. WaitsFor([r EXCEPT !.stage = "ok", !.names = {}])'
      BY <1>8, <2>1, <2>3 DEF WaitsFor
    <3>2. QED
      BY <1>7, <2>3, <3>1
  <2>4. CASE r.op = "save" /\ Answered(r, "error", {}) /\ UNCHANGED secrets
    <3>1. Truthful(r.provider, r.row)'
      BY <1>1, <1>6, <2>4 DEF WaitsFor, Truthful
    <3>2. WaitsFor([r EXCEPT !.stage = "error", !.names = {}])'
      BY <1>8, <2>1, <2>2, <2>4, <3>1 DEF WaitsFor
    <3>3. QED
      BY <1>7, <2>4, <3>2
  <2>5. CASE r.op = "delete" /\ Answered(r, "ok", {}) /\ secrets' = secrets \ {First(r.provider)}
    <3>1. WaitsFor([r EXCEPT !.stage = "ok", !.names = {}])'
      BY <1>8, <2>1, <2>5 DEF WaitsFor
    <3>2. QED
      BY <1>7, <2>5, <3>1
  <2>6. CASE /\ r.op = "delete" /\ Answered(r, "error", {}) /\ UNCHANGED secrets
             /\ First(r.provider) \notin secrets
    <3>1. WaitsFor([r EXCEPT !.stage = "error", !.names = {}])'
      BY <1>8, <2>1, <2>2, <2>6 DEF WaitsFor
    <3>2. QED
      BY <1>7, <2>6, <3>1
  <2>7. QED
    BY <1>1, <1>11, <2>3, <2>4, <2>5, <2>6
<1>12. QED
  BY <1>9, <1>11

(* The dialog takes the answer, and has nothing under way any more.        *)
LEMMA TakeBadge == ASSUME KeyInv, BadgeInv, KeyTakesAnswer PROVE BadgeInv'
<1>1. PICK r \in BagToSet(keyNet) :
        /\ r.stage # "sent" /\ KeyTake(r) /\ keyNet' = keyNet (-) SetToBag({r})
        /\ UNCHANGED <<settingsOpen, models, secrets, crossed>>
  BY DEF KeyTakesAnswer, KeyTake
<1>2. IsKeyRequest(r) /\ KeyNetOK /\ RowsOK /\ BagToSet(keyNet') \subseteq BagToSet(keyNet)
  BY <1>1, KeyTaken DEF KeyInv, KeyNetOK
<1>3. ~models => r.op = "list"
  BY DEF BadgeInv, NoModels
<1>4. ~models => DOMAIN rows = {} /\ rows' = rows
  BY <1>1, <1>3 DEF BadgeInv, NoModels, KeyTake, TakeDiscovery, TakeKeySaved, TakeKeyDeleted
<1>5. NoModels'
  BY <1>1, <1>2, <1>4 DEF BadgeInv, NoModels
<1>6. SUFFICES ASSUME settingsOpen, ~crossed PROVE AtMostOne'
  BY <1>1, <1>5 DEF BadgeInv, AtMostOne
<1>7. keyNet = SetToBag({r}) /\ WaitsFor(r)
  <2>1. BagToSet(keyNet) # {}
    BY <1>1
  <2>2. PICK q : keyNet = SetToBag({q}) /\ WaitsFor(q)
    BY <1>6, <2>1, EmptyIsBag DEF BadgeInv, AtMostOne
  <2>3. r = q
    BY <2>2, SetIsBag
  <2>4. QED
    BY <2>2, <2>3
<1>8. keyNet' = EmptyBag
  BY <1>1, <1>7, OneOutOfBag
<1>9. SUFFICES (models => DOMAIN rows' = Providers) /\ \A p \in DOMAIN rows' : Truthful(p, rows[p])'
  BY <1>1, <1>8 DEF AtMostOne, AllTruthful
<1>10. CASE ~models
  BY <1>4, <1>10
<1>11. CASE models /\ r.op = "list"
  <2>1. r.names = secrets
    BY <1>1, <1>7, <1>11 DEF WaitsFor
  <2>2. rows' = [p \in Providers |-> [RowOf(p) EXCEPT !.saved = SavedIn(secrets, p)]]
    BY <1>1, <1>11, <2>1 DEF KeyTake, TakeDiscovery, TakeKeySaved, TakeKeyDeleted
  <2>3. ASSUME NEW p \in Providers PROVE rows'[p].saved = SavedIn(secrets, p)
    <3>1. RowOf(p) \in Rows
      BY <1>2, RowType
    <3>2. QED
      BY <2>2, <3>1 DEF Rows
  <2>4. ASSUME NEW p \in Providers PROVE Truthful(p, rows[p])'
    <3>1. First(p) \in secrets => SavedIn(secrets, p)
      BY DEF First, SavedIn
    <3>2. rows'[p].saved = SavedIn(secrets, p)
      BY <2>3
    <3>3. QED
      BY <1>1, <3>1, <3>2 DEF Truthful
  <2>5. QED
    BY <2>2, <2>4
<1>12. CASE r.op # "list"
  <2>1. r.provider \in Providers /\ DOMAIN rows = Providers
    BY <1>2, <1>7, <1>12 DEF IsKeyRequest, WaitsFor
  <2>2. \A p \in Providers : p # r.provider => Truthful(p, rows[p])
    BY <1>7, <1>12 DEF WaitsFor
  <2>3. ASSUME NEW row \in Rows, SetRow(r.provider, row), Truthful(r.provider, row)
        PROVE  DOMAIN rows' = Providers /\ \A p \in DOMAIN rows' : Truthful(p, rows[p])'
    <3>1. /\ DOMAIN rows' = Providers /\ rows'[r.provider] = row
          /\ \A p \in Providers : p # r.provider => rows'[p] = rows[p]
      BY <1>2, <2>1, <2>3, RowSet
    <3>2. \A p \in Providers : Truthful(p, rows'[p])
      BY <2>2, <2>3, <3>1
    <3>3. QED
      BY <1>1, <3>1, <3>2 DEF Truthful
  <2>4. CASE r.op = "save"
    <3>1. CASE r.stage = "ok"
      <4>1. First(r.provider) \in secrets
        BY <1>7, <2>4, <3>1 DEF WaitsFor
      <4>2. Truthful(r.provider, Row(TRUE, "saved", "")) /\ Row(TRUE, "saved", "") \in Rows
        BY <4>1 DEF Truthful, SavedIn, First, Row, Rows
      <4>3. QED
        BY <1>1, <2>3, <2>4, <3>1, <4>2 DEF KeyTake, TakeDiscovery, TakeKeySaved, TakeKeyDeleted
    <3>2. CASE r.stage # "ok"
      <4>1. Truthful(r.provider, r.row) /\ r.row \in Rows
        BY <1>2, <1>7, <2>4, <3>2 DEF WaitsFor, IsKeyRequest, KeyRequests
      <4>2. [r.row EXCEPT !.state = "error"] \in Rows /\ [r.row EXCEPT !.state = "error"].saved = r.row.saved
        BY <4>1 DEF Rows
      <4>3. Truthful(r.provider, [r.row EXCEPT !.state = "error"])
        BY <4>1, <4>2 DEF Truthful
      <4>4. QED
        BY <1>1, <2>3, <2>4, <3>2, <4>2, <4>3 DEF KeyTake, TakeDiscovery, TakeKeySaved, TakeKeyDeleted
    <3>3. QED
      BY <3>1, <3>2
  <2>5. CASE r.op = "delete"
    <3>1. First(r.provider) \notin secrets
      BY <1>1, <1>7, <2>5 DEF WaitsFor
    <3>2. CASE r.stage = "ok"
      <4>1. Truthful(r.provider, EmptyRow) /\ EmptyRow \in Rows
        BY <3>1 DEF Truthful, EmptyRow, Row, Rows
      <4>2. QED
        BY <1>1, <2>3, <2>5, <3>2, <4>1 DEF KeyTake, TakeDiscovery, TakeKeySaved, TakeKeyDeleted
    <3>3. CASE r.stage # "ok"
      <4>1. RowOf(r.provider) = rows[r.provider] /\ rows[r.provider] \in Rows
        BY <1>2, <2>1 DEF RowOf, RowsOK
      <4>2. Truthful(r.provider, rows[r.provider])
        BY <1>7, <2>1, <2>5, <3>3 DEF WaitsFor
      <4>3. /\ [rows[r.provider] EXCEPT !.state = "error"] \in Rows
            /\ [rows[r.provider] EXCEPT !.state = "error"].saved = rows[r.provider].saved
        BY <4>1 DEF Rows
      <4>4. Truthful(r.provider, [rows[r.provider] EXCEPT !.state = "error"])
        BY <4>2, <4>3 DEF Truthful
      <4>5. QED
        BY <1>1, <2>3, <2>5, <3>3, <4>1, <4>3, <4>4
        DEF KeyTake, TakeDiscovery, TakeKeySaved, TakeKeyDeleted
    <3>4. QED
      BY <3>2, <3>3
  <2>6. QED
    BY <1>2, <1>12, <2>4, <2>5 DEF IsKeyRequest, KeyRequests
<1>13. QED
  BY <1>10, <1>11, <1>12

LEMMA LostBadge == ASSUME KeyInv, BadgeInv, KeyFetchFails PROVE BadgeInv'
<1>1. PICK r \in BagToSet(keyNet) :
        /\ KeyTake([r EXCEPT !.stage = "error", !.names = {}]) /\ keyNet' = keyNet (-) SetToBag({r})
        /\ crossed' = TRUE /\ UNCHANGED <<settingsOpen, models, secrets>>
  BY DEF KeyFetchFails, KeyTake
<1> DEFINE lost == [r EXCEPT !.stage = "error", !.names = {}]
<1>2. lost.op = r.op
  BY DEF KeyInv, KeyNetOK, IsKeyRequest, KeyRequests
<1>3. ~models => r.op = "list" /\ DOMAIN rows = {}
  BY DEF BadgeInv, NoModels
<1>4. KeyTake(lost)
  BY <1>1
<1> HIDE DEF lost
<1>5. ~models => rows' = rows
  BY <1>2, <1>3, <1>4 DEF KeyTake, TakeDiscovery, TakeKeySaved, TakeKeyDeleted
<1>6. BagToSet(keyNet') \subseteq BagToSet(keyNet)
  BY <1>1, KeyTaken DEF KeyInv
<1>7. NoModels'
  BY <1>1, <1>3, <1>5, <1>6 DEF BadgeInv, NoModels
<1>8. QED
  BY <1>1, <1>7 DEF BadgeInv, AtMostOne

LEMMA KeyBadge == ASSUME KeyInv, BadgeInv, KeyMoves PROVE BadgeInv'
  BY DiscoverBadge, CloseBadge, EditBadge, AnswerBadge, TakeBadge, LostBadge DEF KeyMoves

-----------------------------------------------------------------------------
(* The dialog.  Fetches that are not cancelled are for the session that is *)
(* shown; a form that was loaded differs from the session's configuration, *)
(* and from a save of it that is under way, in edited fields only; so does *)
(* a save from the configuration it will overwrite; and but for the        *)
(* sessions in resaved there is one save of a session at a time.           *)
Dialog == ShownId(active)

GetsOK == \A r \in BagToSet(menuNet) : r.op = "get" => configOpen /\ r.id = Dialog

FormOK ==
    configOpen /\ loaded =>
        /\ Dialog \in Sessions
        /\ \A f \in Fields \ edited : config[f] = stored_config[Dialog][f]
        /\ \A p \in SavesOf(Dialog) :
              /\ p.loaded /\ p.edited \subseteq edited
              /\ \A f \in Fields \ edited : p.body[f] = config[f]

SavesOK ==
    \A p \in Posts :
        p.stage = "sent" /\ p.loaded /\ p.id \notin resaved =>
            \A f \in Fields \ p.edited : p.body[f] = stored_config[p.id][f]

SavesAlone ==
    \A p, q \in Posts :
        p.stage = "sent" /\ q.stage = "sent" /\ p.id = q.id /\ p.id \notin resaved => p = q

MenuInv == MenuTypeOK /\ GetsOK /\ FormOK /\ SavesOK /\ SavesAlone

LEMMA MenuInitInv == ChatInit /\ MenuInit => MenuInv
<1> SUFFICES ASSUME ChatInit, MenuInit PROVE MenuInv
  OBVIOUS
<1>1. BagToSet(menuNet) = {}
  BY EmptyIsBag DEF MenuInit
<1>2. Defaults \in Configs
  BY ModelConfigAssumption DEF Defaults, Configs
<1>3. MenuTypeOK
  BY <1>1, <1>2 DEF MenuInit, MenuTypeOK
<1>4. QED
  BY <1>1, <1>3 DEF MenuInit, MenuInv, GetsOK, FormOK, SavesOK, SavesAlone, Posts

(* Cleaning up leaves the saves.                                           *)
LEMMA CleanedUp == BagToSet(Uncancelled) = Posts
  BY DEF Uncancelled, BagToSet

(* What holds of the saves holds when some of them are gone.               *)
LEMMA FewerSaves ==
    ASSUME SavesOK, SavesAlone, Posts' \subseteq Posts, UNCHANGED <<stored_config, resaved>>
    PROVE  SavesOK' /\ SavesAlone'
  BY DEF SavesOK, SavesAlone

LEMMA LoadedMenu ==
    ASSUME MenuInv, NEW id \in Sessions, Dialog' = id, configOpen' = TRUE, LoadConfig(id)
    PROVE  MenuInv'
<1>1. GetConfig(id) \in ConfigRequests /\ GetConfig(id).op = "get" /\ GetConfig(id).id = id
  BY ModelConfigAssumption DEF GetConfig, ConfigRequests, Defaults, Configs
<1>2. BagToSet(menuNet') = Posts \cup {GetConfig(id)}
  BY CleanedUp, BagPut DEF LoadConfig
<1>3. Posts \subseteq BagToSet(menuNet) /\ \A r \in Posts : r.op = "post"
  BY DEF Posts
<1> HIDE DEF GetConfig
<1>4. Posts' \subseteq Posts
  BY <1>1, <1>2 DEF Posts
<1>5. MenuTypeOK'
  BY <1>1, <1>2, <1>3 DEF LoadConfig, MenuInv, MenuTypeOK, ConfigRequests
<1>6. GetsOK' /\ FormOK'
  BY <1>1, <1>2, <1>3 DEF LoadConfig, GetsOK, FormOK
<1>7. QED
  BY <1>4, <1>5, <1>6, FewerSaves DEF LoadConfig, MenuInv

LEMMA UnmountedMenu == ASSUME MenuInv, Unmount PROVE MenuInv'
<1>1. BagToSet(menuNet') = Posts
  BY CleanedUp DEF Unmount
<1>2. Posts \subseteq BagToSet(menuNet) /\ \A r \in Posts : r.op = "post"
  BY DEF Posts
<1>3. Posts' \subseteq Posts
  BY <1>1 DEF Posts
<1>4. Defaults \in Configs
  BY ModelConfigAssumption DEF Defaults, Configs
<1>5. ConfigRequests \subseteq ConfigRequests'
  BY DEF Unmount, ConfigRequests, Configs, MenuInv, MenuTypeOK
<1>6. MenuTypeOK'
  <2>1. BagToSet(menuNet)' \subseteq ConfigRequests'
    BY <1>1, <1>2, <1>5 DEF MenuInv, MenuTypeOK
  <2>2. {configOpen, saving, failed, loaded}' \subseteq BOOLEAN
    BY DEF Unmount, MenuInv, MenuTypeOK
  <2>3. QED
    BY <1>4, <2>1, <2>2 DEF Unmount, MenuInv, MenuTypeOK
<1>7. GetsOK' /\ FormOK'
  BY <1>1, <1>2 DEF Unmount, GetsOK, FormOK
<1>8. QED
  BY <1>3, <1>6, <1>7, FewerSaves DEF Unmount, MenuInv

LEMMA ClosedMenu == ASSUME MenuInv, CloseConfig PROVE MenuInv'
<1>1. BagToSet(menuNet') = Posts
  BY CleanedUp DEF CloseConfig
<1>2. Posts \subseteq BagToSet(menuNet) /\ \A r \in Posts : r.op = "post"
  BY DEF Posts
<1>3. Posts' \subseteq Posts
  BY <1>1 DEF Posts
<1>4. MenuTypeOK'
  BY <1>1, <1>2 DEF CloseConfig, forms, MenuInv, MenuTypeOK, ConfigRequests
<1>5. GetsOK' /\ FormOK'
  BY <1>1, <1>2 DEF CloseConfig, GetsOK, FormOK
<1>6. QED
  BY <1>3, <1>4, <1>5, FewerSaves DEF CloseConfig, MenuInv

(* The panel shows another session, the same one, or none.                 *)
LEMMA FollowedMenu ==
    ASSUME MenuInv, Dialog' \in Sessions \cup {None}, MenuFollows(Dialog, Dialog')
    PROVE  MenuInv'
<1>1. CASE Unmount
  BY <1>1, UnmountedMenu
<1>2. CASE Dialog' # None /\ configOpen /\ LoadConfig(Dialog') /\ UNCHANGED configOpen
  <2>1. PICK id \in Sessions : id = Dialog'
    BY <1>2
  <2>2. LoadConfig(id) /\ configOpen' = TRUE
    BY <1>2, <2>1 DEF MenuInv, MenuTypeOK
  <2>3. QED
    BY <2>1, <2>2, LoadedMenu
<1>3. CASE (Dialog' = Dialog \/ ~configOpen) /\ UNCHANGED menuVars
  BY <1>3 DEF menuVars, forms, MenuInv, MenuTypeOK, ConfigRequests, GetsOK, FormOK, SavesOK,
              SavesAlone, SavesOf, Posts
<1>4. QED
  BY <1>1, <1>2, <1>3 DEF MenuFollows

LEMMA EditedMenu ==
    ASSUME MenuInv, UNCHANGED active, NEW f \in Fields, NEW v \in Values, EditConfig(f, v)
    PROVE  MenuInv'
<1>1. Dialog' = Dialog
  BY DEF Dialog, ShownId
<1>2. Posts' = Posts /\ SavesOf(Dialog)' = SavesOf(Dialog)
  BY <1>1 DEF EditConfig, Posts, SavesOf
<1>3. config' \in Configs /\ \A g \in Fields \ {f} : config'[g] = config[g]
  BY DEF EditConfig, MenuInv, MenuTypeOK, Configs
<1>4. MenuTypeOK'
  BY <1>3 DEF EditConfig, MenuInv, MenuTypeOK, ConfigRequests
<1>5. GetsOK'
  BY <1>1 DEF EditConfig, MenuInv, GetsOK
<1>6. FormOK'
  BY <1>1, <1>2, <1>3 DEF EditConfig, MenuInv, FormOK
<1>7. QED
  BY <1>2, <1>4, <1>5, <1>6, FewerSaves DEF EditConfig, MenuInv

LEMMA SavedMenu ==
    ASSUME MenuInv, UNCHANGED active, Dialog \in Sessions, SaveConfig(Dialog)
    PROVE  MenuInv'
<1> DEFINE r == PostConfig(Dialog)
<1>1. Dialog' = Dialog
  BY DEF Dialog, ShownId
<1>2. /\ r \in ConfigRequests /\ r.op = "post" /\ r.stage = "sent" /\ r.id = Dialog
      /\ r.body = config /\ r.edited = edited /\ r.loaded = loaded
  BY DEF PostConfig, ConfigRequests, MenuInv, MenuTypeOK
<1> HIDE DEF r
<1>3. BagToSet(menuNet') = BagToSet(menuNet) \cup {r}
  BY BagPut DEF SaveConfig, r
<1>4. Posts' = Posts \cup {r}
  BY <1>2, <1>3 DEF Posts
<1>5. SavesOf(Dialog)' = SavesOf(Dialog) \cup {r}
  BY <1>1, <1>2, <1>4 DEF SavesOf
<1>6. resaved \subseteq resaved' /\ (Dialog \in resaved' \/ SavesOf(Dialog) = {})
  BY DEF SaveConfig
<1>7. MenuTypeOK'
  BY <1>2, <1>3 DEF SaveConfig, forms, MenuInv, MenuTypeOK, ConfigRequests
<1>8. GetsOK'
  BY <1>1, <1>2, <1>3 DEF SaveConfig, MenuInv, GetsOK
<1>9. FormOK'
  <2>1. configOpen' = configOpen /\ config' = config /\ edited' = edited /\ loaded' = loaded
        /\ stored_config' = stored_config
    BY DEF SaveConfig, forms
  <2> SUFFICES ASSUME configOpen, loaded PROVE FormOK'
    BY <2>1 DEF FormOK
  <2>2. \A f \in Fields \ edited : config[f] = stored_config[Dialog][f]
    BY DEF MenuInv, FormOK
  <2>3. \A p \in SavesOf(Dialog)' :
          /\ p.loaded /\ p.edited \subseteq edited
          /\ \A f \in Fields \ edited : p.body[f] = config[f]
    BY <1>2, <1>5 DEF MenuInv, FormOK
  <2>4. QED
    BY <1>1, <2>1, <2>2, <2>3 DEF FormOK
<1>10. SavesOK'
  BY <1>2, <1>4, <1>6 DEF SaveConfig, MenuInv, SavesOK, FormOK
<1>11. SavesAlone'
  BY <1>2, <1>4, <1>6 DEF MenuInv, SavesAlone, SavesOf
<1>12. QED
  BY <1>7, <1>8, <1>9, <1>10, <1>11 DEF MenuInv

(* C1 answers: the configuration of the session, or a save is done.        *)
LEMMA AnsweredMenu ==
    ASSUME MenuInv, UNCHANGED active, ConfigServerAnswers
    PROVE  MenuInv'
<1>1. PICK r \in BagToSet(menuNet) :
        /\ r.stage = "sent"
        /\ AnswerGetConfig(r) \/ AnswerPostConfig(r)
        /\ UNCHANGED <<configOpen, config, saving, failed, mount, forms, resaved>>
  BY DEF ConfigServerAnswers
<1>2. r \in ConfigRequests /\ BagToSet(menuNet) \subseteq ConfigRequests
  BY DEF MenuInv, MenuTypeOK
<1>3. Dialog' = Dialog
  BY DEF Dialog, ShownId
<1>4. BagToSet(MenuWithout(r)) \subseteq BagToSet(menuNet)
  BY BagTake DEF MenuWithout
<1>5. edited' = edited /\ loaded' = loaded /\ configOpen' = configOpen /\ config' = config
  BY <1>1 DEF forms
<1>6. ConfigRequests' = ConfigRequests
  BY <1>1 DEF ConfigRequests
<1>7. CASE AnswerGetConfig(r)
  <2> DEFINE answer == [r EXCEPT !.stage = "answered", !.body = stored_config[r.id]]
  <2>1. r.op = "get" /\ r.id \in Sessions /\ stored_config[r.id] \in Configs
    BY <1>2, <1>7 DEF AnswerGetConfig, ConfigRequests, MenuInv, MenuTypeOK
  <2>2. answer \in ConfigRequests /\ answer.op = "get" /\ answer.id = r.id
    BY <1>2, <2>1 DEF ConfigRequests
  <2> HIDE DEF answer
  <2>3. menuNet' = MenuWithout(r) (+) SetToBag({answer}) /\ stored_config' = stored_config
    BY <1>7 DEF AnswerGetConfig, MenuReply, answer
  <2>4. BagToSet(menuNet') \subseteq BagToSet(menuNet) \cup {answer}
    BY <1>4, <2>3, BagPut
  <2>5. Posts' \subseteq Posts
    BY <2>2, <2>4 DEF Posts
  <2>6. MenuTypeOK'
    BY <1>1, <1>2, <1>5, <1>6, <2>2, <2>3, <2>4 DEF MenuInv, MenuTypeOK
  <2>7. GetsOK'
    BY <1>3, <1>5, <2>1, <2>2, <2>4 DEF MenuInv, GetsOK
  <2>8. FormOK'
    BY <1>3, <1>5, <2>3, <2>5 DEF MenuInv, FormOK, SavesOf
  <2>9. QED
    BY <1>1, <2>3, <2>5, <2>6, <2>7, <2>8, FewerSaves DEF MenuInv
<1>8. CASE AnswerPostConfig(r)
  <2> DEFINE answer == [r EXCEPT !.stage = "answered"]
  <2>1. r.op = "post" /\ r.id \in Sessions /\ r.body \in Configs
    BY <1>2, <1>8 DEF AnswerPostConfig, ConfigRequests
  <2>2. answer \in ConfigRequests /\ answer.op = "post" /\ answer.stage = "answered"
    BY <1>2, <2>1 DEF ConfigRequests
  <2> HIDE DEF answer
  <2>3. /\ menuNet' = MenuWithout(r) (+) SetToBag({answer})
        /\ stored_config' = [stored_config EXCEPT ![r.id] = r.body]
    BY <1>8 DEF AnswerPostConfig, MenuReply, answer
  <2>4. BagToSet(menuNet') \subseteq BagToSet(menuNet) \cup {answer}
    BY <1>4, <2>3, BagPut
  <2>5. /\ \A p \in Posts' : p.stage = "sent" => p \in Posts
        /\ r \in SavesOf(r.id) /\ r \in Posts
    BY <1>1, <2>1, <2>2, <2>4 DEF Posts, SavesOf
  <2>6. \A id \in Sessions : stored_config'[id] = IF id = r.id THEN r.body ELSE stored_config[id]
    BY <2>3 DEF MenuInv, MenuTypeOK
  <2>7. MenuTypeOK'
    BY <1>1, <1>2, <1>5, <1>6, <2>1, <2>2, <2>3, <2>4 DEF MenuInv, MenuTypeOK
  <2>8. GetsOK'
    BY <1>3, <1>5, <2>2, <2>4 DEF MenuInv, GetsOK
  <2>9. FormOK'
    <3> SUFFICES ASSUME configOpen, loaded PROVE FormOK'
      BY <1>5 DEF FormOK
    <3>1. Dialog \in Sessions
      BY DEF MenuInv, FormOK
    <3>2. \A p \in SavesOf(Dialog)' : p \in SavesOf(Dialog)
      BY <1>3, <2>5 DEF SavesOf
    <3>3. \A f \in Fields \ edited : config[f] = stored_config'[Dialog][f]
      <4>1. CASE Dialog = r.id
        BY <2>5, <2>6, <3>1, <4>1 DEF MenuInv, FormOK
      <4>2. CASE Dialog # r.id
        BY <2>6, <3>1, <4>2 DEF MenuInv, FormOK
      <4>3. QED
        BY <4>1, <4>2
    <3>4. QED
      BY <1>3, <1>5, <3>1, <3>2, <3>3 DEF MenuInv, FormOK
  <2>10. \A p \in Posts' : p.stage = "sent" => p.id \in Sessions
    BY <1>2, <2>5 DEF Posts, ConfigRequests
  <2>11. resaved' = resaved
    BY <1>1
  <2>12. SavesOK'
    <3> SUFFICES ASSUME NEW p \in Posts', p.stage = "sent", p.loaded, p.id \notin resaved,
                        NEW f \in Fields \ p.edited
                 PROVE  p.body[f] = stored_config'[p.id][f]
      BY <2>11 DEF SavesOK
    <3>1. p \in Posts /\ p.id \in Sessions
      BY <2>5, <2>10
    <3>2. CASE p.id = r.id
      <4>1. p = r
        BY <1>1, <2>5, <3>1, <3>2 DEF MenuInv, SavesAlone
      <4>2. QED
        BY <2>6, <3>1, <4>1
    <3>3. CASE p.id # r.id
      BY <2>6, <3>1, <3>3 DEF MenuInv, SavesOK
    <3>4. QED
      BY <3>2, <3>3
  <2>13. SavesAlone'
    BY <2>5, <2>11 DEF MenuInv, SavesAlone
  <2>14. QED
    BY <2>7, <2>8, <2>9, <2>12, <2>13 DEF MenuInv
<1>9. QED
  BY <1>1, <1>7, <1>8

(* The dialog takes an answer.                                             *)
LEMMA TakenMenu ==
    ASSUME MenuInv, UNCHANGED active, MenuTakesAnswer
    PROVE  MenuInv'
<1>1. PICK r \in BagToSet(menuNet) :
        /\ TakeConfig(r) \/ TakeConfigSaved(r)
        /\ UNCHANGED <<failed, mount, stored_config, resaved>>
  BY DEF MenuTakesAnswer
<1>2. r \in ConfigRequests /\ ConfigRequests' = ConfigRequests
  BY <1>1 DEF MenuInv, MenuTypeOK, ConfigRequests
<1>3. Dialog' = Dialog
  BY DEF Dialog, ShownId
<1>4. CASE TakeConfig(r)
  <2>1. BagToSet(menuNet') \subseteq BagToSet(menuNet)
    BY <1>4, BagTake DEF TakeConfig, MenuWithout
  <2>2. Posts' \subseteq Posts
    BY <2>1 DEF Posts
  <2>3. r.id = Dialog /\ r.id \in Sessions /\ r.body \in Configs
    BY <1>2, <1>4 DEF TakeConfig, MenuInv, GetsOK, ConfigRequests
  <2>4. loaded' \in BOOLEAN
    BY <1>4 DEF TakeConfig
  <2>5. MenuTypeOK'
    BY <1>1, <1>2, <1>4, <2>1, <2>3, <2>4 DEF TakeConfig, MenuInv, MenuTypeOK
  <2>6. GetsOK'
    BY <1>3, <1>4, <2>1 DEF TakeConfig, MenuInv, GetsOK
  <2>7. loaded' => config' = stored_config'[Dialog'] /\ SavesOf(Dialog)' = {}
    BY <1>1, <1>3, <1>4, <2>2, <2>3 DEF TakeConfig, SavesOf
  <2>8. FormOK'
    BY <1>3, <2>3, <2>7 DEF FormOK
  <2>9. QED
    BY <1>1, <2>2, <2>5, <2>6, <2>8, FewerSaves DEF MenuInv
<1>5. CASE TakeConfigSaved(r)
  <2>1. BagToSet(menuNet') \subseteq Posts /\ configOpen' = FALSE
    BY <1>5, CleanedUp, BagTake DEF TakeConfigSaved
  <2>2. Posts' \subseteq Posts /\ Posts \subseteq BagToSet(menuNet) /\ \A p \in Posts : p.op = "post"
    BY <2>1 DEF Posts
  <2>3. saving' \in BOOLEAN
    BY <1>5 DEF TakeConfigSaved
  <2>4. MenuTypeOK'
    BY <1>1, <1>2, <1>5, <2>1, <2>2, <2>3 DEF TakeConfigSaved, forms, MenuInv, MenuTypeOK
  <2>5. GetsOK' /\ FormOK'
    BY <2>1, <2>2 DEF GetsOK, FormOK
  <2>6. QED
    BY <1>1, <2>2, <2>4, <2>5, FewerSaves DEF MenuInv
<1>6. QED
  BY <1>1, <1>4, <1>5

LEMMA FailedMenu ==
    ASSUME MenuInv, UNCHANGED active, ConfigFetchFails
    PROVE  MenuInv'
<1>1. PICK r \in BagToSet(menuNet) :
        LET heeded == r.op = "get" \/ r.mount = mount
        IN  /\ failed' = (failed \/ heeded)
            /\ saving' = (saving /\ (r.op = "get" \/ ~heeded))
            /\ menuNet' = MenuWithout(r)
            /\ UNCHANGED <<configOpen, config, mount, stored_config, forms, resaved>>
  BY DEF ConfigFetchFails
<1>2. Dialog' = Dialog
  BY DEF Dialog, ShownId
<1>3. BagToSet(menuNet') \subseteq BagToSet(menuNet)
  BY <1>1, BagTake DEF MenuWithout
<1>4. Posts' \subseteq Posts
  BY <1>3 DEF Posts
<1>5. failed' \in BOOLEAN /\ saving' \in BOOLEAN
  BY <1>1
<1>6. MenuTypeOK'
  BY <1>1, <1>3, <1>5 DEF forms, MenuInv, MenuTypeOK, ConfigRequests
<1>7. GetsOK' /\ FormOK'
  BY <1>1, <1>2, <1>3, <1>4 DEF forms, MenuInv, GetsOK, FormOK, SavesOf
<1>8. QED
  BY <1>1, <1>4, <1>6, <1>7, FewerSaves DEF MenuInv

-----------------------------------------------------------------------------
(* The chat tab as a whole.                                                *)
Filing == FiledInv /\ StreamInv /\ BornInv
Showing == GivenOK /\ ListInv /\ SeenInv /\ ViewInv
ChatPart == PanelInv /\ Filing /\ Showing
KeyPart == KeyInv /\ BadgeInv
Inv == ChatPart /\ MenuInv /\ KeyPart

LEMMA ShownIsSession == ASSUME PanelInv PROVE Dialog \in Sessions \cup {None}
  BY DEF PanelInv, ViewOK, Bodies, Dialog, ShownId

LEMMA TabInit == Init => Inv
<1> SUFFICES ASSUME ChatInit, MenuInit, SettingsInit PROVE Inv
  BY DEF Init
<1>1. ChatPart
  BY PanelInitInv, FiledInit, StreamInit, ListInit, BornInit, ViewInit, SeenInit, GivenInitInv
  DEF ChatPart, Filing, Showing
<1>2. MenuInv
  BY MenuInitInv
<1>3. KeyPart
  BY KeyInit, BadgeInit DEF KeyPart
<1>4. QED
  BY <1>1, <1>2, <1>3 DEF Inv

LEMMA ChatStep == ASSUME ChatPart, ChatNext PROVE ChatPart'
<1>1. PanelInv' /\ GivenOK'
  BY ChatInv, GivenInv DEF ChatPart, Showing
<1>2. Filing'
  BY ChatFiled, ChatStream, ChatBorn DEF ChatPart, Filing, Showing
<1>3. ListInv' /\ SeenInv' /\ ViewInv'
  BY ChatList, ChatSeen, ChatView DEF ChatPart, Filing, Showing
<1>4. QED
  BY <1>1, <1>2, <1>3 DEF ChatPart, Showing

LEMMA KeyStep == ASSUME KeyPart, KeyMoves PROVE KeyPart'
  BY KeyKept, KeyBadge DEF KeyPart

(* A dialog does something: all of the panel stays but the budget.         *)
LEMMA ChatStays ==
    ASSUME ChatPart, UNCHANGED spent, left' \in [Operations -> Nat]
    PROVE  ChatPart'
<1>1. UNCHANGED <<sessions, activeId, active, streaming, searchQuery, net, sockets>>
  BY DEF spent, view
<1>2. UNCHANGED <<server, typed, asked, askedText, givenBody, givenList, unseen, unlisted, blurred,
                  listBlurred, residue>>
  BY DEF spent, history, shownHistory, listHistory
<1>3. UNCHANGED <<status, pinned, model, stored>>
  BY <1>2 DEF server
<1>4. PanelInv'
  BY PanelKept DEF ChatPart
<1>5. BornInv'
  <2>1. \A id : (Born(id) => Born(id)') /\ (Gone(id) => Gone(id)')
    BY <1>3 DEF Born, Gone
  <2>2. BornView'
    BY <1>1, <1>2, <2>1 DEF ChatPart, Filing, BornInv, BornView
  <2>3. \A r : BornRequest(r) => BornRequest(r)'
    BY <2>1 DEF BornRequest
  <2>4. BornNet'
    BY <1>1, <2>3 DEF ChatPart, Filing, BornInv, BornNet
  <2>5. \A x : BornSocket(x) => BornSocket(x)'
    BY <2>1 DEF BornSocket
  <2>6. BornSockets'
    BY <1>1, <2>5 DEF ChatPart, Filing, BornInv, BornSockets, Ws
  <2>7. QED
    BY <2>2, <2>4, <2>6 DEF BornInv
<1>6. Filing'
  <2>1. FiledInv'
    BY <1>1, <1>2, <1>3, UpsSame, UpsKept DEF ChatPart, Filing
  <2>2. StreamInv'
    BY <1>1, <1>2, StreamKept DEF ChatPart, Filing
  <2>3. QED
    BY <1>5, <2>1, <2>2 DEF Filing
<1>7. GivenOK'
  BY <1>2, GivenKept DEF ChatPart, Showing
<1>8. ListInv'
  BY <1>1, <1>2, ListKept, SameNet, SameTells DEF ChatPart, Showing
<1>9. SeenInv'
  BY <1>1, <1>2, SeenSame DEF ChatPart, Showing
<1>10. ViewInv'
  BY <1>1, <1>2, <1>3
  DEF ChatPart, Showing, ViewInv, LoadComes, Loads, DoneFor, Down, Exact, Up, Exists, Ws
<1>11. QED
  BY <1>4, <1>6, <1>7, <1>8, <1>9, <1>10 DEF ChatPart, Showing

LEMMA MenuStays == ASSUME MenuInv, UNCHANGED active, UNCHANGED menuVars PROVE MenuInv'
<1>1. Dialog' = Dialog
  BY DEF Dialog, ShownId
<1>2. QED
  BY <1>1 DEF menuVars, forms, MenuInv, MenuTypeOK, ConfigRequests, GetsOK, FormOK,
              SavesOK, SavesAlone, SavesOf, Posts

LEMMA KeysStay == ASSUME KeyPart, UNCHANGED keyVars PROVE KeyPart'
<1>1. UNCHANGED <<settingsOpen, models, rows, keyNet, secrets, crossed>>
  BY DEF keyVars
<1>2. KeyInv'
  BY <1>1 DEF KeyPart, KeyInv, RowsOK, KeyNetOK, IsKeyRequest
<1>3. NoModels' /\ AtMostOne'
  BY <1>1 DEF KeyPart, BadgeInv, NoModels, AtMostOne, AllTruthful, Truthful, WaitsFor
<1>4. QED
  BY <1>2, <1>3 DEF KeyPart, BadgeInv

LEMMA TabStepInv == Inv /\ [Next]_vars => Inv'
<1> SUFFICES ASSUME ChatPart, MenuInv, KeyPart, [Next]_vars PROVE Inv'
  BY DEF Inv
<1>1. /\ PanelInv /\ left \in [Operations -> Nat]
      /\ \A op \in Operations : Spend(op) => left' \in [Operations -> Nat]
  BY SpendOK DEF ChatPart, PanelInv, RestOK
<1>2. ASSUME UNCHANGED spent PROVE UNCHANGED active
  BY <1>2 DEF spent, view
<1>3. CASE ChatMoves
  <2>1. ChatPart' /\ KeyPart'
    BY <1>3, ChatStep, KeysStay DEF ChatMoves
  <2>2. Dialog' \in Sessions \cup {None}
    <3>1. PanelInv'
      BY <2>1 DEF ChatPart
    <3>2. QED
      BY <3>1 DEF PanelInv, ViewOK, Bodies, Dialog, ShownId
  <2>3. MenuFollows(Dialog, Dialog')
    BY <1>3 DEF ChatMoves, Dialog, ShownId
  <2>4. QED
    BY <2>1, <2>2, <2>3, FollowedMenu DEF Inv
<1>4. CASE ConfigDialog
  <2>1. UNCHANGED <<spent, keyVars>> /\ left' \in [Operations -> Nat]
    BY <1>1, <1>4 DEF ConfigDialog, Operations
  <2>2. ChatPart' /\ KeyPart' /\ UNCHANGED active
    BY <1>2, <2>1, ChatStays, KeysStay
  <2>3. active.id = Dialog /\ Dialog \in Sessions
    BY <1>1, <1>4, ShownIsSession DEF ConfigDialog, Dialog, ShownId, PanelInv, ViewOK, Bodies
  <2>4. CASE OpenConfig(active.id)
    <3>1. LoadConfig(Dialog) /\ configOpen' = TRUE /\ Dialog' = Dialog
      BY <2>2, <2>3, <2>4 DEF OpenConfig, Dialog, ShownId
    <3>2. QED
      BY <2>2, <2>3, <3>1, LoadedMenu DEF Inv
  <2>5. CASE CloseConfig
    BY <2>2, <2>5, ClosedMenu DEF Inv
  <2>6. ASSUME NEW f \in Fields, NEW v \in Values, EditConfig(f, v) PROVE Inv'
    BY <2>2, <2>6, EditedMenu DEF Inv
  <2>7. CASE SaveConfig(active.id)
    BY <2>2, <2>3, <2>7, SavedMenu DEF Inv
  <2>8. QED
    BY <1>4, <2>4, <2>5, <2>6, <2>7 DEF ConfigDialog
<1>5. CASE SettingsDialog \/ SettingsMoves
  <2>1. UNCHANGED <<spent, menuVars>>
    BY <1>5 DEF SettingsDialog, SettingsMoves
  <2>2. left' \in [Operations -> Nat]
    BY <1>1, <1>5 DEF SettingsDialog, SettingsMoves, Operations
  <2>3. KeyMoves
    BY <1>5 DEF SettingsDialog, SettingsMoves, KeyMoves
  <2>4. QED
    BY <1>2, <2>1, <2>2, <2>3, ChatStays, MenuStays, KeyStep DEF Inv
<1>6. CASE ConfigMoves
  <2>1. UNCHANGED <<spent, keyVars>> /\ left' \in [Operations -> Nat]
    BY <1>1, <1>6 DEF ConfigMoves, Operations
  <2>2. ChatPart' /\ KeyPart' /\ UNCHANGED active
    BY <1>2, <2>1, ChatStays, KeysStay
  <2>3. QED
    BY <1>6, <2>2, AnsweredMenu, TakenMenu, FailedMenu DEF ConfigMoves, Inv
<1>7. CASE UNCHANGED vars
  <2>1. UNCHANGED <<view, net, sockets, server, left, history>>
    BY <1>7 DEF vars, chatVars
  <2>2. UNCHANGED spent /\ UNCHANGED menuVars /\ UNCHANGED keyVars
    BY <1>7, <2>1 DEF vars, spent
  <2>3. left' \in [Operations -> Nat]
    BY <1>1, <2>1
  <2>4. QED
    BY <1>2, <2>2, <2>3, ChatStays, MenuStays, KeysStay DEF Inv
<1>8. QED
  BY <1>3, <1>4, <1>5, <1>6, <1>7 DEF Next

LEMMA TabInv == Spec => []Inv
  BY TabInit, TabStepInv, PTL DEF Spec

(* In every state of the chat tab, with its dialogs, for any number of     *)
(* sessions, requests, sockets and frames, every part of it has its type:  *)
(* what the page holds and what is on its way to it.                       *)
THEOREM TabTypesKept == Spec => []TypeOK
<1>1. Inv => TypeOK
  BY PanelTypes, KeyTypes DEF Inv, ChatPart, Showing, KeyPart, MenuInv, TypeOK
<1>2. QED
  BY <1>1, TabInv, PTL

(* The configuration dialog keeps its types in every state.                *)
THEOREM MenuTypesKept == Spec => []MenuTypeOK
<1>1. Inv => MenuTypeOK
  BY DEF Inv, MenuInv
<1>2. QED
  BY <1>1, TabInv, PTL

(* Whatever the socket loses and the user clicks meanwhile, a message that *)
(* was typed for a session is in no other session, and in its own at most  *)
(* once.                                                                   *)
THEOREM TabFiledWhereTyped == Spec => []FiledWhereTyped
<1>1. Inv => FiledWhereTyped
  BY FiledSuffices DEF Inv, ChatPart, Filing
<1>2. QED
  BY <1>1, TabInv, PTL

(* Text of an answer is on the screen only while the socket still carries  *)
(* the rest or the end of it; unless a socket was lost in the middle.      *)
THEOREM TabStreamingIsLive == Spec => []StreamingIsLive
<1>1. Inv => StreamingIsLive
  BY StreamSuffices DEF Inv, ChatPart, Filing, PanelInv
<1>2. QED
  BY <1>1, TabInv, PTL

(* When nothing is under way, the list has the rows C1 would give for the  *)
(* search text the page asked with last, with their titles and counts; but *)
(* for a list that was overtaken or whose fetch failed, and for the rows   *)
(* of sessions whose turn failed or was not heard of, or whose model was   *)
(* set: those the page does not ask for again.                             *)
THEOREM TabListTruthful == Spec => []ListTruthful
<1>1. Inv => ListTruthful
  BY ListSuffices DEF Inv, ChatPart, Showing
<1>2. QED
  BY <1>1, TabInv, PTL

(* When nothing is under way, what is shown is the session the page asked  *)
(* for last, selected or of the turn that ended, with the model and the    *)
(* messages that C1 has of it, message for message; but for the lost or    *)
(* overtaken answers and sockets that ViewTruthful names.                  *)
THEOREM TabViewTruthful == Spec => []ViewTruthful
<1>1. Inv => ViewTruthful
  BY ViewSuffices DEF Inv, ChatPart, Showing
<1>2. QED
  BY <1>1, TabInv, PTL

(* When nothing is under way, "Key saved" is what the secrets say, for     *)
(* every provider, unless requests of the dialog overlapped or one failed. *)
THEOREM TabBadgeTruthful == Spec => []BadgeTruthful
<1>1. Inv => BadgeTruthful
  BY BadgeSuffices DEF Inv, KeyPart
<1>2. QED
  BY <1>1, TabInv, PTL

(* Only C1 changes a configuration, for a save it answers.                 *)
LEMMA StoredBySave ==
    ASSUME MenuInv, [Next]_vars, NEW id \in Sessions, NEW f \in Fields,
           stored_config'[id][f] # stored_config[id][f]
    PROVE  \E r \in SavesOf(id) : stored_config'[id] = r.body
<1>1. ~UNCHANGED stored_config
  OBVIOUS
<1>2. ConfigServerAnswers
  <2>1. ASSUME NEW new, MenuFollows(Dialog, new) PROVE UNCHANGED stored_config
    BY <2>1 DEF MenuFollows, Unmount, LoadConfig, menuVars
  <2>2. ~ChatMoves
    BY <1>1, <2>1 DEF ChatMoves, Dialog
  <2>3. ~ConfigDialog
    BY <1>1 DEF ConfigDialog, OpenConfig, LoadConfig, CloseConfig, EditConfig, SaveConfig
  <2>4. ~(SettingsDialog \/ SettingsMoves) /\ ~UNCHANGED vars
    BY <1>1 DEF SettingsDialog, SettingsMoves, vars, menuVars
  <2>5. ~MenuTakesAnswer /\ ~ConfigFetchFails
    BY <1>1 DEF MenuTakesAnswer, ConfigFetchFails
  <2>6. QED
    BY <2>2, <2>3, <2>4, <2>5 DEF Next, ConfigMoves
<1>3. PICK r \in BagToSet(menuNet) : r.stage = "sent" /\ AnswerPostConfig(r)
  BY <1>1, <1>2 DEF ConfigServerAnswers, AnswerGetConfig
<1>4. stored_config' = [stored_config EXCEPT ![r.id] = r.body] /\ r.op = "post"
  BY <1>3 DEF AnswerPostConfig
<1>5. id = r.id /\ stored_config'[id] = r.body
  BY <1>4 DEF MenuInv, MenuTypeOK
<1>6. QED
  BY <1>3, <1>4, <1>5 DEF SavesOf, Posts

(* A save touches what the user edited and nothing else, in every step, for *)
(* every number of sessions, fields and requests: the invariant says that   *)
(* a save under way agrees off its edited fields with what it overwrites.   *)
THEOREM TabConfigKept == Spec => ConfigKept
<1>1. Inv /\ [Next]_vars =>
        [\A id \in Sessions, f \in Fields :
           stored_config'[id][f] # stored_config[id][f] /\ id \notin resaved =>
             \E r \in SavesOf(id) : f \in r.edited \/ ~r.loaded]_menuVars
  <2> SUFFICES ASSUME MenuInv, [Next]_vars, NEW id \in Sessions, NEW f \in Fields,
                      stored_config'[id][f] # stored_config[id][f], id \notin resaved
               PROVE  \E r \in SavesOf(id) : f \in r.edited \/ ~r.loaded
    BY DEF Inv
  <2>1. PICK r \in SavesOf(id) : stored_config'[id] = r.body
    BY StoredBySave
  <2>2. r \in Posts /\ r.stage = "sent" /\ r.id = id
    BY <2>1 DEF SavesOf
  <2>3. ~(r.loaded /\ f \notin r.edited)
    BY <2>1, <2>2 DEF MenuInv, SavesOK
  <2>4. QED
    BY <2>1, <2>3
<1>2. QED
  BY <1>1, TabInv, PTL DEF Spec, ConfigKept
=============================================================================
