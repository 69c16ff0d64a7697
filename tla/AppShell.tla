------------------------------ MODULE AppShell ------------------------------
(* The frame of the web client, <App/>: the tab that is shown, the /ws     *)
(* socket with its state, and the events that arrive on it, which          *)
(* <EventsPanel/> shows.  An event is the number the server sent it as.    *)
(* A frame that is not JSON changes nothing and is left out.               *)
EXTENDS Naturals, Sequences

CONSTANTS Ring,           \* how many events are kept: 200 in the code
          CloseCodes      \* the codes a socket may be closed with

ASSUME AppShellAssumption == Ring \in Nat \ {0} /\ CloseCodes \subseteq Nat

VARIABLES tab,            \* the panel that is mounted
          wsState,        \* what the header shows
          socket,         \* the socket itself
          events,         \* the last events, the oldest first
          sent, arrived   \* events the server sent, and how many arrived

appVars == <<tab, wsState, socket, events, sent, arrived>>

Tabs == {"modules", "events", "prompts", "chat"}
WsStates == {"connecting", "open", "closed", "unauthorized", "no-token"}

AppTypeOK ==
    /\ tab \in Tabs
    /\ wsState \in WsStates
    /\ socket \in {"none", "connecting", "open", "closed"}
    /\ events \in Seq(Nat)
    /\ sent \in Nat /\ arrived \in Nat /\ arrived <= sent

AppInit ==
    /\ tab = "modules"
    /\ \/ wsState = "no-token" /\ socket = "none"
       \/ wsState = "connecting" /\ socket = "connecting"
    /\ events = <<>>
    /\ sent = 0 /\ arrived = 0

-----------------------------------------------------------------------------
(* Faulty variant: the events are the panel's and go with it.              *)
SetTabAfresh(t) ==
    /\ tab' = t
    /\ events' = <<>>
    /\ UNCHANGED <<wsState, socket, sent, arrived>>

SetTab(t) ==
    /\ tab' = t
    /\ UNCHANGED <<wsState, socket, events, sent, arrived>>

WsOpens ==
    /\ socket = "connecting"
    /\ socket' = "open"
    /\ wsState' = "open"
    /\ UNCHANGED <<tab, events, sent, arrived>>

(* An error is followed by a close; neither is followed by a new socket.   *)
WsCloses(code) ==
    /\ socket \in {"connecting", "open"}
    /\ socket' = "closed"
    /\ wsState' = IF code = 1008 THEN "unauthorized" ELSE "closed"
    /\ UNCHANGED <<tab, events, sent, arrived>>

(* The page is unmounted: the effect's cleanup closes the socket, and what *)
(* the header says is not shown any more.                                  *)
Unmounts ==
    /\ socket' = IF socket = "none" THEN "none" ELSE "closed"
    /\ UNCHANGED <<tab, wsState, events, sent, arrived>>

ServerSends ==
    /\ socket = "open"
    /\ sent' = sent + 1
    /\ UNCHANGED <<tab, wsState, socket, events, arrived>>

Latest(s) == IF Len(s) <= Ring THEN s ELSE SubSeq(s, Len(s) - Ring + 1, Len(s))

WsMessage ==
    /\ socket = "open" /\ arrived < sent
    /\ arrived' = arrived + 1
    /\ events' = Latest(Append(events, arrived + 1))
    /\ UNCHANGED <<tab, wsState, socket, sent>>

AppNext ==
    \/ \E t \in Tabs : SetTab(t)
    \/ WsOpens
    \/ \E code \in CloseCodes : WsCloses(code)
    \/ ServerSends
    \/ WsMessage
    \/ Unmounts

AppSpec == AppInit /\ [][AppNext]_appVars

-----------------------------------------------------------------------------
(* s holds the numbers up to n, or the last Ring of them.                  *)
LastOf(n, s) ==
    LET shown == IF n <= Ring THEN n ELSE Ring
    IN  /\ Len(s) = shown
        /\ \A i \in 1..shown : s[i] = n - shown + i

(* The Events tab shows the last Ring events that arrived, each once and   *)
(* in the order they were sent, whatever tabs were shown meanwhile and     *)
(* even after the socket was closed.                                       *)
EventsKept == LastOf(arrived, events)
=============================================================================
