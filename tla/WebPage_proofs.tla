--------------------------- MODULE WebPage_proofs ---------------------------
(* The frame of the web client, alone and with its panels, for every size  *)
(* of the ring, any number of events, plugins and prompts, and any number  *)
(* of requests under way.                                                  *)
EXTENDS WebPage, TLAPS

-----------------------------------------------------------------------------
(* The Events tab, in the frame alone.                                     *)

(* An event more in a ring that is not full yet.                           *)
LEMMA RingFills ==
    ASSUME NEW s \in Seq(Nat), NEW n \in Nat, LastOf(n, s), n < Ring
    PROVE  /\ Latest(Append(s, n + 1)) \in Seq(Nat)
           /\ LastOf(n + 1, Latest(Append(s, n + 1)))
<1> DEFINE t == Append(s, n + 1)
<1>1. Ring \in Nat
  BY AppShellAssumption
<1>2. Len(s) = n /\ \A i \in 1..n : s[i] = i
  BY <1>1 DEF LastOf
<1>3. t \in Seq(Nat) /\ Len(t) = n + 1 /\ \A i \in 1..(n + 1) : t[i] = i
  BY <1>2
<1>4. Latest(t) = t
  BY <1>1, <1>3 DEF Latest
<1>5. LastOf(n + 1, t)
  BY <1>1, <1>3 DEF LastOf
<1>6. QED
  BY <1>3, <1>4, <1>5

(* An event more in a full ring: the oldest one goes.                      *)
LEMMA RingSlides ==
    ASSUME NEW s \in Seq(Nat), NEW n \in Nat, LastOf(n, s), n >= Ring
    PROVE  /\ Latest(Append(s, n + 1)) \in Seq(Nat)
           /\ LastOf(n + 1, Latest(Append(s, n + 1)))
<1> DEFINE t == Append(s, n + 1)
           u == SubSeq(t, 2, Ring + 1)
<1>1. Ring \in Nat \ {0}
  BY AppShellAssumption
<1>2. Len(s) = Ring /\ \A i \in 1..Ring : s[i] = n - Ring + i
  <2>1. CASE n = Ring
    BY <1>1, <2>1 DEF LastOf
  <2>2. CASE n > Ring
    BY <1>1, <2>2 DEF LastOf
  <2>3. QED
    BY <1>1, <2>1, <2>2
<1>3. t \in Seq(Nat) /\ Len(t) = Ring + 1
  BY <1>1, <1>2
<1>4. \A i \in 1..(Ring + 1) : t[i] = n - Ring + i
  <2>1. \A i \in 1..Ring : t[i] = s[i]
    BY <1>1, <1>2
  <2>2. t[Ring + 1] = n + 1
    BY <1>1, <1>2
  <2>3. QED
    BY <1>1, <1>2, <2>1, <2>2
<1>5. Latest(t) = u
  BY <1>1, <1>3 DEF Latest
<1>6. u \in Seq(Nat) /\ Len(u) = Ring /\ \A i \in 1..Ring : u[i] = t[i + 1]
  BY <1>1, <1>3
<1>7. \A i \in 1..Ring : u[i] = (n + 1) - Ring + i
  BY <1>1, <1>4, <1>6
<1> HIDE DEF t, u
<1>8. LastOf(n + 1, u)
  <2>1. ~(n + 1 <= Ring)
    BY <1>1
  <2>2. QED
    BY <1>1, <1>6, <1>7, <2>1 DEF LastOf
<1>9. QED
  BY <1>5, <1>6, <1>8 DEF t

(* The inductive invariant: the types and the events themselves.           *)
AppInv == AppTypeOK /\ EventsKept

LEMMA AppInitInv == AppInit => AppInv
  BY AppShellAssumption
  DEF AppInit, AppInv, AppTypeOK, EventsKept, LastOf, Tabs, WsStates

LEMMA AppNextInv == AppInv /\ [AppNext]_appVars => AppInv'
<1> SUFFICES ASSUME AppInv, [AppNext]_appVars PROVE AppInv'
  OBVIOUS
<1> USE AppShellAssumption DEF AppInv, AppTypeOK, EventsKept, Tabs, WsStates
<1>1. ASSUME NEW t \in Tabs, SetTab(t) PROVE AppInv'
  BY <1>1 DEF SetTab
<1>2. CASE WsOpens
  BY <1>2 DEF WsOpens
<1>3. ASSUME NEW code \in CloseCodes, WsCloses(code) PROVE AppInv'
  BY <1>3 DEF WsCloses
<1>4. CASE ServerSends
  BY <1>4 DEF ServerSends
<1>5. CASE WsMessage
  <2>1. /\ events' = Latest(Append(events, arrived + 1))
        /\ arrived' = arrived + 1
    BY <1>5 DEF WsMessage
  <2>2. events' \in Seq(Nat) /\ LastOf(arrived', events')
    <3>1. CASE arrived < Ring
      BY <2>1, <3>1, RingFills
    <3>2. CASE arrived >= Ring
      BY <2>1, <3>2, RingSlides
    <3>3. QED
      BY <3>1, <3>2
  <2>3. QED
    BY <1>5, <2>2 DEF WsMessage
<1>6. CASE Unmounts
  BY <1>6 DEF Unmounts
<1>7. CASE UNCHANGED appVars
  BY <1>7 DEF appVars
<1>8. QED
  BY <1>1, <1>2, <1>3, <1>4, <1>5, <1>6, <1>7 DEF AppNext

(* The Events tab shows the last Ring events that arrived, in order, each  *)
(* once: it holds in every state, for every Ring and every order of tabs,  *)
(* events and closes.                                                      *)
THEOREM AppEventsKept == AppSpec => []EventsKept
<1>1. AppInv => EventsKept
  BY DEF AppInv
<1>2. QED
  BY <1>1, AppInitInv, AppNextInv, PTL DEF AppSpec

(* The state of the page has its types: the header shows one of the five   *)
(* states, and no event arrives that was not sent.                         *)
THEOREM AppTypesKept == AppSpec => []AppTypeOK
<1>1. AppInv => AppTypeOK
  BY DEF AppInv
<1>2. QED
  BY <1>1, AppInitInv, AppNextInv, PTL DEF AppSpec

-----------------------------------------------------------------------------
(* Bags of requests: which records are in one after a record was put in,   *)
(* taken out, or some were dropped.                                        *)

(* Putting a record in: it is there, and so is what was there.             *)
LEMMA BagPut ==
    ASSUME NEW B, NEW r
    PROVE  BagToSet(B (+) SetToBag({r})) = BagToSet(B) \cup {r}
  BY DEF BagToSet, SetToBag, (+)

(* A bag with a record more is a bag.                                     *)
LEMMA BagPutIsBag ==
    ASSUME NEW B, NEW r, IsABag(B)
    PROVE  IsABag(B (+) SetToBag({r}))
<1> DEFINE S == SetToBag({r})
           U == DOMAIN B \cup DOMAIN S
           P == {n \in Nat : n > 0}
<1>1. DOMAIN S = {r} /\ S[r] = 1
  BY DEF SetToBag
<1>2. \A e \in DOMAIN B : B[e] \in P
  BY DEF IsABag
<1>3. \A e \in U : (IF e \in DOMAIN B THEN B[e] ELSE 0)
                   + (IF e \in DOMAIN S THEN S[e] ELSE 0) \in P
  <2> TAKE e \in U
  <2>1. CASE e \in DOMAIN B /\ e = r
    BY <1>1, <1>2, <2>1
  <2>2. CASE e \in DOMAIN B /\ e # r
    BY <1>1, <1>2, <2>2
  <2>3. CASE e \notin DOMAIN B
    BY <1>1, <2>3
  <2>4. QED
    BY <2>1, <2>2, <2>3
<1> HIDE DEF S, P
<1>4. B (+) S \in [U -> P]
  BY <1>3 DEF (+)
<1>5. DOMAIN (B (+) S) = U
  BY DEF (+)
<1>6. QED
  BY <1>4, <1>5 DEF IsABag, S, P

(* Taking a copy of a record out: at most that record is gone.             *)
LEMMA BagTake ==
    ASSUME NEW B, NEW r
    PROVE  BagToSet(B (-) SetToBag({r})) \subseteq BagToSet(B)
  BY DEF BagToSet, SetToBag, (-)

(* The other records stay.                                                 *)
LEMMA BagTakeKeeps ==
    ASSUME NEW B, NEW r, IsABag(B), NEW q \in BagToSet(B), q # r
    PROVE  q \in BagToSet(B (-) SetToBag({r}))
  BY DEF IsABag, BagToSet, SetToBag, (-)

(* A bag with a record less is a bag.                                      *)
LEMMA BagTakeIsBag ==
    ASSUME NEW B, NEW r, IsABag(B)
    PROVE  IsABag(B (-) SetToBag({r}))
<1> DEFINE S == SetToBag({r})
           C == [e \in DOMAIN B |-> IF e \in DOMAIN S THEN B[e] - S[e] ELSE B[e]]
           D == {d \in DOMAIN C : C[d] > 0}
           P == {n \in Nat : n > 0}
<1>1. DOMAIN S = {r} /\ S[r] = 1
  BY DEF SetToBag
<1>2. \A e \in DOMAIN B : B[e] \in P
  BY DEF IsABag
<1>3. \A e \in D : C[e] \in P
  BY <1>1, <1>2
<1>4. B (-) S = [e \in D |-> C[e]]
  BY DEF (-)
<1> HIDE DEF C, D, P, S
<1>5. [e \in D |-> C[e]] \in [D -> P]
  BY <1>3
<1>6. DOMAIN [e \in D |-> C[e]] = D
  OBVIOUS
<1>7. QED
  BY <1>4, <1>5, <1>6 DEF IsABag, S, P

(* Dropping all but some of the records.                                   *)
LEMMA BagKeepIsBag ==
    ASSUME NEW B, IsABag(B), NEW S \in SUBSET BagToSet(B)
    PROVE  /\ IsABag([e \in S |-> B[e]])
           /\ BagToSet([e \in S |-> B[e]]) = S
  BY DEF IsABag, BagToSet

(* There is one bag without records.                                       *)
LEMMA EmptyIsBag ==
    /\ IsABag(EmptyBag) /\ BagToSet(EmptyBag) = {}
    /\ \A B : IsABag(B) /\ BagToSet(B) = {} => B = EmptyBag
<1>1. IsABag(EmptyBag) /\ BagToSet(EmptyBag) = {}
  BY DEF IsABag, BagToSet, EmptyBag, SetToBag
<1>2. ASSUME NEW B, IsABag(B), BagToSet(B) = {} PROVE B = EmptyBag
  BY <1>2 DEF IsABag, BagToSet, EmptyBag, SetToBag
<1>3. QED
  BY <1>1, <1>2

-----------------------------------------------------------------------------
(* The page.                                                               *)

(* What a panel does not touch stays what it is.                           *)
LEMMA ShellSteps == [Next]_vars => [AppNext]_appVars
<1> USE DEF appVars
<1>1. ASSUME NEW t \in Tabs, ShowTab(t) PROVE AppNext
  BY <1>1 DEF ShowTab, AppNext
<1>2. CASE Connection
  BY <1>2 DEF Connection, AppNext
<1>3. CASE UsesModules \/ Polls \/ Answers \/ ModulesTakes \/ ModulesFails
  BY <1>3 DEF UsesModules, Polls, Answers, ModulesTakes, ModulesFails
<1>4. ASSUME NEW p \in Plugins, OthersChange(p) PROVE UNCHANGED appVars
  BY <1>4 DEF OthersChange
<1>5. CASE UsesPrompts
  BY <1>5 DEF UsesPrompts
<1>6. CASE GoesDown
  BY <1>6 DEF GoesDown, AppNext
<1>7. CASE UNCHANGED vars
  BY <1>7 DEF vars
<1>8. QED
  BY <1>1, <1>2, <1>3, <1>4, <1>5, <1>6, <1>7 DEF Next

(* The page's events come and go as in its frame alone: whatever panel is  *)
(* mounted, and whatever it does, <App/> behaves as AppShell says.         *)
THEOREM PageImplementsShell == Spec => AppSpec
<1>1. Init => AppInit
  BY DEF Init
<1>2. QED
  BY <1>1, ShellSteps, PTL DEF Spec, AppSpec

(* So the Events tab shows the last Ring events, each once and in order,   *)
(* on the page with all its panels too.                                    *)
THEOREM PageEventsKept == Spec => []EventsKept
  BY PageImplementsShell, AppEventsKept, PTL

-----------------------------------------------------------------------------
(* The Modules tab.  The requests under way have their types, and what a   *)
(* request is about is what its kind asks for.                             *)
ModRequests ==
    [op : {"poll", "refetch", "load", "unload", "score"},
     arg : Plugins \cup Pastes \cup {Nothing},
     panel : Nat, stage : {"sent", "answered", "refused"}, got : SUBSET Plugins]

Proper(r) ==
    /\ r \in ModRequests
    /\ r.panel \in 1..panel
    /\ r.op \in {"load", "unload", "refetch"} => r.arg \in Plugins
    /\ r.op = "score" => r.arg \in Pastes

Work(r) ==
    /\ r.panel = panel
    /\ IF busy = "paste" THEN r.op = "score"
       ELSE r.op \in {"load", "unload", "refetch"} /\ r.arg = busy

ModNetOK ==
    /\ panel \in Nat \ {0}
    /\ IsABag(modNet)
    /\ \A r \in BagToSet(modNet) : Proper(r)

ModValuesOK ==
    /\ healthz = Nothing \/ healthz \subseteq Plugins
    /\ busy \in Plugins \cup {"paste", Nothing}
    /\ evalResult \in Pastes \cup {Nothing}
    /\ loaded \subseteq Plugins

ModInv ==
    /\ ModValuesOK /\ ModNetOK
    /\ busy # Nothing => \E r \in BagToSet(modNet) : Work(r)

LEMMA ModInvBusy == ModInv => BusyIsWork
  BY DEF ModInv, ModValuesOK, ModNetOK, Proper, ModRequests, Work, BusyIsWork, ModulesTypeOK

LEMMA ModInitInv == ModulesInit => ModInv
<1> SUFFICES ASSUME ModulesInit PROVE ModInv
  OBVIOUS
<1>1. IsABag(modNet) /\ BagToSet(modNet) = {Poll}
  BY DEF ModulesInit, IsABag, BagToSet, SetToBag
<1>2. Proper(Poll) /\ panel = 1
  BY DEF ModulesInit, Proper, Poll, ModRequest, ModRequests
<1>3. QED
  BY <1>1, <1>2 DEF ModulesInit, ModInv, ModValuesOK, ModNetOK

(* The panel sends a request.                                              *)
LEMMA ModSends ==
    ASSUME ModInv, NEW r, Proper(r), panel' = panel, ModSend(r)
    PROVE  /\ ModNetOK'
           /\ BagToSet(modNet') = BagToSet(modNet) \cup {r}
<1>1. IsABag(modNet') /\ BagToSet(modNet') = BagToSet(modNet) \cup {r}
  BY BagPut, BagPutIsBag DEF ModInv, ModNetOK, ModSend
<1>2. QED
  BY <1>1 DEF ModInv, ModNetOK, Proper

(* A request is answered, is taken, or fails, and leaves.                  *)
LEMMA ModLeaves ==
    ASSUME ModInv, NEW r, panel' = panel, modNet' = ModWithout(r)
    PROVE  /\ ModNetOK'
           /\ \A q \in BagToSet(modNet) : q # r => q \in BagToSet(modNet')
<1>1. /\ IsABag(modNet') /\ BagToSet(modNet') \subseteq BagToSet(modNet)
      /\ \A q \in BagToSet(modNet) : q # r => q \in BagToSet(modNet')
  BY BagTake, BagTakeKeeps, BagTakeIsBag DEF ModInv, ModNetOK, ModWithout
<1>2. QED
  BY <1>1 DEF ModInv, ModNetOK, Proper

(* Or another one takes its place.                                         *)
LEMMA ModReplaced ==
    ASSUME ModInv, NEW r, NEW next, Proper(next), panel' = panel, ModInstead(r, next)
    PROVE  /\ ModNetOK'
           /\ next \in BagToSet(modNet')
           /\ \A q \in BagToSet(modNet) : q # r => q \in BagToSet(modNet')
<1>1. /\ IsABag(ModWithout(r)) /\ BagToSet(ModWithout(r)) \subseteq BagToSet(modNet)
      /\ \A q \in BagToSet(modNet) : q # r => q \in BagToSet(ModWithout(r))
  BY BagTake, BagTakeKeeps, BagTakeIsBag DEF ModInv, ModNetOK, ModWithout
<1>2. IsABag(modNet') /\ BagToSet(modNet') = BagToSet(ModWithout(r)) \cup {next}
  BY <1>1, BagPut, BagPutIsBag DEF ModInstead
<1>3. QED
  BY <1>1, <1>2 DEF ModInv, ModNetOK, Proper

(* The panel polls, when it is mounted and by its timer.                   *)
LEMMA ModPolls ==
    ASSUME ModInv, ModSend(Poll), UNCHANGED <<healthz, busy, evalResult, panel, loaded>>
    PROVE  ModInv'
<1>1. Proper(Poll)
  BY DEF ModInv, ModNetOK, Proper, Poll, ModRequest, ModRequests
<1>2. ModNetOK' /\ BagToSet(modNet') = BagToSet(modNet) \cup {Poll}
  BY <1>1, ModSends
<1>3. QED
  BY <1>2 DEF ModInv, ModValuesOK, Work

(* A button sends a request, and it is what busy is about.                 *)
LEMMA ModCommands ==
    ASSUME ModInv, NEW op, NEW arg, Proper(ModRequest(op, arg)),
           Work(ModRequest(op, arg))', busy' \in Plugins \cup {"paste", Nothing},
           ModSend(ModRequest(op, arg)), UNCHANGED <<healthz, evalResult, panel, loaded>>
    PROVE  ModInv'
<1> DEFINE r == ModRequest(op, arg)
<1>1. r' = r
  BY DEF ModRequest
<1>2. Work(r)'
  OBVIOUS
<1> HIDE DEF r
<1>3. ModNetOK' /\ r \in BagToSet(modNet')
  BY ModSends DEF r
<1>4. ModValuesOK'
  BY DEF ModInv, ModValuesOK
<1>5. QED
  BY <1>1, <1>2, <1>3, <1>4 DEF ModInv

LEMMA ModUserInv ==
    ASSUME ModInv,
           \/ \E p \in Plugins : LoadPlugin(p) \/ UnloadPlugin(p)
           \/ \E x \in Pastes : PasteScore(x)
    PROVE  ModInv'
<1>1. ASSUME NEW p \in Plugins, NEW op \in {"load", "unload"}, Command(op, p) PROVE ModInv'
  <2>1. Proper(ModRequest(op, p)) /\ Work(ModRequest(op, p))'
    BY <1>1, ModulesPanelAssumption
    DEF ModInv, ModNetOK, Command, Proper, Work, ModRequest, ModRequests
  <2>2. QED
    BY <1>1, <2>1, ModCommands DEF Command
<1>2. ASSUME NEW x \in Pastes, PasteScore(x) PROVE ModInv'
  <2>1. Proper(ModRequest("score", x)) /\ Work(ModRequest("score", x))'
    BY <1>2 DEF ModInv, ModNetOK, PasteScore, Proper, Work, ModRequest, ModRequests
  <2>2. QED
    BY <1>2, <2>1, ModCommands DEF PasteScore
<1>3. QED
  BY <1>1, <1>2 DEF LoadPlugin, UnloadPlugin

(* Leaving the tab: nothing is busy any more.                              *)
LEMMA ModLeftInv == ASSUME ModInv, LeaveModules PROVE ModInv'
<1> DEFINE pending == {r \in BagToSet(modNet) : r.op \in {"load", "unload"} /\ r.stage = "sent"}
<1>1. modNet' = [r \in pending |-> modNet[r]]
  BY DEF LeaveModules
<1>2. IsABag(modNet') /\ BagToSet(modNet') = pending
  BY <1>1, BagKeepIsBag DEF ModInv, ModNetOK
<1>3. panel' = panel + 1 /\ panel \in Nat
  BY DEF LeaveModules, ModInv, ModNetOK
<1>4. ModNetOK'
  BY <1>2, <1>3 DEF ModInv, ModNetOK, Proper
<1>5. QED
  BY <1>4 DEF LeaveModules, Unmounted, ModInv, ModValuesOK

(* C1 answers: the request is still there, with its answer.                *)
LEMMA ModAnsweredInv == ASSUME ModInv, ModulesServerAnswers PROVE ModInv'
<1>1. PICK r \in BagToSet(modNet) :
        /\ r.stage = "sent"
        /\ loaded' \in {loaded, Executed(r)}
        /\ IF r.panel = panel
           THEN \E stage \in Answer(r) :
                    ModInstead(r, [r EXCEPT !.stage = stage,
                                     !.got = IF r.op \in {"poll", "refetch"} THEN loaded ELSE {}])
           ELSE modNet' = ModWithout(r)
        /\ UNCHANGED <<healthz, busy, evalResult, panel>>
  BY DEF ModulesServerAnswers
<1>2. Proper(r) /\ loaded \subseteq Plugins
  BY DEF ModInv, ModNetOK, ModValuesOK
<1>3. ModValuesOK'
  BY <1>1, <1>2 DEF ModInv, ModValuesOK, Executed, Proper
<1>4. CASE r.panel = panel
  <2>0. PICK stage \in Answer(r) :
          ModInstead(r, [r EXCEPT !.stage = stage,
                           !.got = IF r.op \in {"poll", "refetch"} THEN loaded ELSE {}])
    BY <1>1, <1>4
  <2> DEFINE answer == [r EXCEPT !.stage = stage,
                          !.got = IF r.op \in {"poll", "refetch"} THEN loaded ELSE {}]
  <2>1. Proper(answer)
    BY <1>2 DEF Proper, ModRequests, Answer
  <2>2. Work(r) => Work(answer)
    BY <1>2 DEF Proper, ModRequests, Work
  <2> HIDE DEF answer
  <2>3. /\ ModNetOK' /\ answer \in BagToSet(modNet')
        /\ \A q \in BagToSet(modNet) : q # r => q \in BagToSet(modNet')
    BY <1>1, <2>0, <2>1, ModReplaced DEF answer
  <2>4. QED
    BY <1>1, <1>3, <2>2, <2>3 DEF ModInv, Work
<1>5. CASE r.panel # panel
  <2>1. /\ ModNetOK'
        /\ \A q \in BagToSet(modNet) : q # r => q \in BagToSet(modNet')
    BY <1>1, <1>5, ModLeaves
  <2>2. QED
    BY <1>1, <1>3, <1>5, <2>1 DEF ModInv, Work
<1>6. QED
  BY <1>4, <1>5

(* The panel takes an answer: what it was busy with goes on, or busy is    *)
(* reset.                                                                  *)
LEMMA ModTakenInv == ASSUME ModInv, ModulesTakeAnswer PROVE ModInv'
<1>1. PICK r \in BagToSet(modNet) :
        /\ r.stage = "answered"
        /\ TakeHealthz(r) \/ TakeCommanded(r) \/ TakeScore(r)
        /\ UNCHANGED <<panel, loaded>>
  BY DEF ModulesTakeAnswer
<1>2. Proper(r)
  BY DEF ModInv, ModNetOK
<1>3. CASE TakeHealthz(r)
  <2>1. /\ ModNetOK'
        /\ \A q \in BagToSet(modNet) : q # r => q \in BagToSet(modNet')
    BY <1>1, <1>3, ModLeaves DEF TakeHealthz
  <2>2. ModValuesOK'
    BY <1>1, <1>2, <1>3 DEF ModInv, ModValuesOK, TakeHealthz, Proper, ModRequests
  <2>3. CASE r.op = "refetch"
    BY <1>3, <2>1, <2>2, <2>3 DEF ModInv, TakeHealthz
  <2>4. CASE r.op = "poll"
    BY <1>1, <1>3, <2>1, <2>2, <2>4 DEF ModInv, TakeHealthz, Work
  <2>5. QED
    BY <1>3, <2>3, <2>4 DEF TakeHealthz
<1>4. CASE TakeCommanded(r)
  <2>1. Proper(Refetch(r))
    BY <1>2, <1>4
    DEF ModInv, ModNetOK, TakeCommanded, Refetch, ModRequest, Proper, ModRequests
  <2>2. /\ ModNetOK' /\ Refetch(r) \in BagToSet(modNet')
        /\ \A q \in BagToSet(modNet) : q # r => q \in BagToSet(modNet')
    BY <1>1, <1>4, <2>1, ModReplaced DEF TakeCommanded
  <2>3. Work(r) => Work(Refetch(r))
    BY <1>4 DEF Work, Refetch, ModRequest, TakeCommanded
  <2>4. ModValuesOK'
    BY <1>1, <1>4 DEF ModInv, ModValuesOK, TakeCommanded
  <2>5. \A q : Work(q) => Work(q)'
    BY <1>1, <1>4 DEF Work, TakeCommanded
  <2>6. QED
    BY <1>4, <2>2, <2>3, <2>4, <2>5 DEF ModInv, Work, TakeCommanded, Refetch, ModRequest
<1>5. CASE TakeScore(r)
  <2>1. ModNetOK'
    BY <1>1, <1>5, ModLeaves DEF TakeScore
  <2>2. QED
    BY <1>1, <1>2, <1>5, <2>1 DEF ModInv, ModValuesOK, TakeScore, Proper
<1>6. QED
  BY <1>1, <1>3, <1>4, <1>5

(* A fetch fails: its handler resets busy, unless it is a poll.            *)
LEMMA ModFailedInv == ASSUME ModInv, ModulesFetchFails PROVE ModInv'
<1>1. PICK r \in BagToSet(modNet) :
        /\ busy' = Freed(r)
        /\ modNet' = ModWithout(r)
        /\ UNCHANGED <<healthz, evalResult, panel, loaded>>
  BY DEF ModulesFetchFails
<1>2. /\ ModNetOK'
      /\ \A q \in BagToSet(modNet) : q # r => q \in BagToSet(modNet')
  BY <1>1, ModLeaves
<1>3. ModValuesOK'
  BY <1>1 DEF ModInv, ModValuesOK, Freed
<1>4. CASE r.op = "poll"
  BY <1>1, <1>2, <1>3, <1>4 DEF ModInv, Freed, Work
<1>5. CASE r.op # "poll"
  BY <1>1, <1>2, <1>3, <1>5 DEF ModInv, Freed
<1>6. QED
  BY <1>4, <1>5

(* The steps of the page that concern the Modules tab, and the others.     *)
LEMMA ModStepInv == ModInv /\ [Next]_vars => ModInv'
<1> SUFFICES ASSUME ModInv, [Next]_vars PROVE ModInv'
  OBVIOUS
<1>1. ASSUME UNCHANGED modulesVars PROVE ModInv'
  BY <1>1 DEF modulesVars, ModInv, ModValuesOK, ModNetOK, Proper, Work
<1>2. ASSUME NEW t \in Tabs, ShowTab(t) PROVE ModInv'
  <2>1. LeaveModules \/ EnterModules \/ UNCHANGED modulesVars
    <3>1. CASE tab = "modules"
      BY <1>2, <3>1, Zenon DEF ShowTab
    <3>2. CASE tab # "modules" /\ t = "modules"
      BY <1>2, <3>2, Zenon DEF ShowTab
    <3>3. CASE tab # "modules" /\ t # "modules"
      BY <1>2, <3>3, Zenon DEF ShowTab
    <3>4. QED
      BY <3>1, <3>2, <3>3
  <2>2. QED
    BY <1>1, <2>1, ModLeftInv, ModPolls DEF EnterModules
<1>3. CASE Connection \/ UsesPrompts \/ UNCHANGED vars
  BY <1>1, <1>3 DEF Connection, UsesPrompts, vars
<1>4. CASE UsesModules
  BY <1>4, ModUserInv DEF UsesModules
<1>5. CASE Polls
  BY <1>5, ModPolls DEF Polls, PollTick
<1>6. CASE Answers
  BY <1>6, ModAnsweredInv DEF Answers
<1>7. CASE ModulesTakes
  BY <1>7, ModTakenInv DEF ModulesTakes
<1>8. CASE ModulesFails
  BY <1>8, ModFailedInv DEF ModulesFails
<1>9. ASSUME NEW p \in Plugins, OthersChange(p) PROVE ModInv'
  BY <1>9 DEF OthersChange, ModInv, ModValuesOK, ModNetOK, Proper, Work
<1>10. CASE GoesDown
  BY <1>10, ModLeftInv DEF GoesDown, ModulesShowRefusal
<1>11. QED
  BY <1>2, <1>3, <1>4, <1>5, <1>6, <1>7, <1>8, <1>9, <1>10 DEF Next

(* A button that says "..." waits for something, in every state, however   *)
(* many requests are under way and in whatever order they are answered:    *)
(* the invariant relates busy to the bag of requests.                      *)
THEOREM PageBusyIsWork == Spec => []BusyIsWork
<1>1. Init => ModInv
  BY ModInitInv DEF Init
<1>2. QED
  BY <1>1, ModStepInv, ModInvBusy, PTL DEF Spec

-----------------------------------------------------------------------------
(* The Prompts tab.  While it is not shown nothing is left of it, and      *)
(* "loading..." means that a body was asked for.                           *)
PromptRequests ==
    [op : {"list", "body"}, key : Keys \cup {Closed},
     stage : {"sent", "answered"}, found : BOOLEAN]

BodyAsked == \E r \in BagToSet(promptNet) : r.op = "body"

PromptNetOK ==
    /\ IsABag(promptNet)
    /\ \A r \in BagToSet(promptNet) : r \in PromptRequests

PromptInv ==
    /\ PromptsTypeOK /\ PromptNetOK
    /\ body = open
    /\ status = "loading" => BodyAsked
    /\ tab # "prompts" => prompts = {} /\ status = "" /\ promptNet = EmptyBag

LEMMA PromptInvSettles == PromptInv => PromptSettles
  BY EmptyIsBag DEF PromptInv, PromptSettles, BodyAsked

LEMMA PromptInitInv == AppInit /\ PromptsInit => PromptInv
  BY EmptyIsBag DEF AppInit, PromptsInit, PromptInv, PromptsTypeOK, PromptNetOK

LEMMA PromptLeaves ==
    ASSUME PromptInv, NEW r, promptNet' = PromptWithout(r)
    PROVE  /\ PromptNetOK'
           /\ \A q \in BagToSet(promptNet) : q # r => q \in BagToSet(promptNet')
  BY BagTake, BagTakeKeeps, BagTakeIsBag DEF PromptInv, PromptNetOK, PromptWithout

(* A request is under way only while the tab is shown.                     *)
LEMMA PromptShown ==
    ASSUME PromptInv, NEW r \in BagToSet(promptNet)
    PROVE  tab = "prompts" /\ r \in PromptRequests
  BY EmptyIsBag DEF PromptInv, PromptNetOK

LEMMA PromptTabInv ==
    ASSUME PromptInv, NEW t \in Tabs, ShowTab(t)
    PROVE  PromptInv'
<1>1. t # tab /\ tab' = t
  BY DEF ShowTab, SetTab
<1>2. CASE tab = "prompts"
  <2>1. LeavePrompts
    BY <1>2, Zenon DEF ShowTab
  <2>2. QED
    BY <1>1, <2>1, EmptyIsBag DEF LeavePrompts, PromptInv, PromptsTypeOK, PromptNetOK
<1>3. CASE tab # "prompts" /\ t = "prompts"
  <2>1. EnterPrompts
    BY <1>3, Zenon DEF ShowTab
  <2>2. IsABag(promptNet') /\ BagToSet(promptNet') = {Prompts}
    BY <2>1 DEF EnterPrompts, IsABag, BagToSet, SetToBag
  <2>3. Prompts \in PromptRequests
    BY DEF Prompts, PromptRequest, PromptRequests
  <2>4. QED
    BY <1>1, <1>3, <2>1, <2>2, <2>3 DEF EnterPrompts, PromptInv, PromptsTypeOK, PromptNetOK
<1>4. CASE tab # "prompts" /\ t # "prompts"
  <2>1. UNCHANGED promptsVars
    BY <1>4, Zenon DEF ShowTab
  <2>2. QED
    BY <1>1, <1>4, <2>1 DEF promptsVars, PromptInv, PromptsTypeOK, PromptNetOK, BodyAsked
<1>5. QED
  BY <1>2, <1>3, <1>4

LEMMA PromptOpenedInv ==
    ASSUME PromptInv, NEW key \in Keys, OpenPrompt(key), UNCHANGED tab
    PROVE  PromptInv'
<1> DEFINE r == PromptRequest("body", key)
<1>1. r \in PromptRequests /\ r.op = "body"
  BY DEF PromptRequest, PromptRequests
<1> HIDE DEF r
<1>2. IsABag(promptNet') /\ BagToSet(promptNet') = BagToSet(promptNet) \cup {r}
  BY BagPut, BagPutIsBag DEF PromptInv, PromptNetOK, OpenPrompt, r
<1>3. PromptNetOK' /\ BodyAsked'
  BY <1>1, <1>2 DEF PromptInv, PromptNetOK, BodyAsked
<1>4. tab = "prompts"
  BY DEF PromptInv, OpenPrompt
<1>5. QED
  BY <1>3, <1>4 DEF PromptInv, PromptsTypeOK, OpenPrompt

LEMMA PromptAnsweredInv ==
    ASSUME PromptInv, PromptsServerAnswers(Browsing), UNCHANGED tab
    PROVE  PromptInv'
<1>1. PICK r \in BagToSet(promptNet) :
        /\ promptNet' = PromptWithout(r) (+)
                        SetToBag({[r EXCEPT !.stage = "answered", !.found = Browsing]})
        /\ UNCHANGED <<prompts, open, body, status>>
  BY DEF PromptsServerAnswers
<1> DEFINE answer == [r EXCEPT !.stage = "answered", !.found = Browsing]
<1>2. tab = "prompts" /\ r \in PromptRequests
  BY PromptShown
<1>3. answer \in PromptRequests /\ answer.op = r.op
  <2>1. CASE Browsing
    <3>1. Browsing = TRUE
      BY <2>1 DEF Browsing
    <3>2. answer = [r EXCEPT !.stage = "answered", !.found = TRUE]
      BY <3>1, Zenon
    <3>3. QED
      BY <1>2, <3>2 DEF PromptRequests
  <2>2. CASE ~Browsing
    <3>1. Browsing = FALSE
      BY <2>2 DEF Browsing
    <3>2. answer = [r EXCEPT !.stage = "answered", !.found = FALSE]
      BY <3>1, Zenon
    <3>3. QED
      BY <1>2, <3>2 DEF PromptRequests
  <2>3. QED
    BY <2>1, <2>2
<1> HIDE DEF answer
<1>4. /\ IsABag(PromptWithout(r)) /\ BagToSet(PromptWithout(r)) \subseteq BagToSet(promptNet)
      /\ \A q \in BagToSet(promptNet) : q # r => q \in BagToSet(PromptWithout(r))
  BY BagTake, BagTakeKeeps, BagTakeIsBag DEF PromptInv, PromptNetOK, PromptWithout
<1>5. IsABag(promptNet') /\ BagToSet(promptNet') = BagToSet(PromptWithout(r)) \cup {answer}
  BY <1>1, <1>4, BagPut, BagPutIsBag DEF answer
<1>6. PromptNetOK'
  BY <1>3, <1>4, <1>5 DEF PromptInv, PromptNetOK
<1>7. BodyAsked => BodyAsked'
  BY <1>3, <1>4, <1>5 DEF BodyAsked
<1>8. QED
  BY <1>1, <1>2, <1>6, <1>7 DEF PromptInv, PromptsTypeOK

LEMMA PromptTakenInv ==
    ASSUME PromptInv, PromptsTakeAnswer, UNCHANGED tab
    PROVE  PromptInv'
<1>1. PICK r \in BagToSet(promptNet) :
        /\ TakePrompts(r) \/ TakeBody(r)
        /\ promptNet' = PromptWithout(r)
  BY DEF PromptsTakeAnswer
<1>2. tab = "prompts" /\ r \in PromptRequests
  BY PromptShown
<1>3. PromptNetOK' /\ \A q \in BagToSet(promptNet) : q # r => q \in BagToSet(promptNet')
  BY <1>1, PromptLeaves
<1>4. CASE TakePrompts(r)
  <2>1. BodyAsked => BodyAsked'
    BY <1>3, <1>4 DEF BodyAsked, TakePrompts
  <2>2. QED
    BY <1>2, <1>3, <1>4, <2>1 DEF TakePrompts, PromptInv, PromptsTypeOK
<1>5. CASE TakeBody(r)
  BY <1>2, <1>3, <1>5 DEF TakeBody, PromptInv, PromptsTypeOK, PromptRequests
<1>6. QED
  BY <1>1, <1>4, <1>5

LEMMA PromptFailedInv ==
    ASSUME PromptInv, PromptsFetchFails, UNCHANGED tab
    PROVE  PromptInv'
<1>1. PICK r \in BagToSet(promptNet) :
        /\ status' = "failed"
        /\ promptNet' = PromptWithout(r)
        /\ UNCHANGED <<prompts, open, body>>
  BY DEF PromptsFetchFails
<1>2. tab = "prompts"
  BY PromptShown
<1>3. PromptNetOK'
  BY <1>1, PromptLeaves
<1>4. QED
  BY <1>1, <1>2, <1>3 DEF PromptInv, PromptsTypeOK

LEMMA PromptStepInv == PromptInv /\ [Next]_vars => PromptInv'
<1> SUFFICES ASSUME PromptInv, [Next]_vars PROVE PromptInv'
  OBVIOUS
<1>1. ASSUME UNCHANGED promptsVars, UNCHANGED tab PROVE PromptInv'
  BY <1>1 DEF promptsVars, PromptInv, PromptsTypeOK, PromptNetOK, BodyAsked
<1>2. ASSUME NEW t \in Tabs, ShowTab(t) PROVE PromptInv'
  BY <1>2, PromptTabInv
<1>3. CASE Connection
  BY <1>1, <1>3 DEF Connection, WsOpens, WsMessage, ServerSends, WsCloses
<1>4. CASE UsesModules \/ Polls \/ Answers \/ ModulesTakes \/ ModulesFails
  BY <1>1, <1>4 DEF UsesModules, Polls, Answers, ModulesTakes, ModulesFails, appVars
<1>5. ASSUME NEW p \in Plugins, OthersChange(p) PROVE PromptInv'
  BY <1>1, <1>5 DEF OthersChange, appVars
<1>6. CASE UsesPrompts
  <2>1. UNCHANGED tab
    BY <1>6 DEF UsesPrompts, appVars
  <2>2. QED
    BY <1>6, <2>1, PromptOpenedInv, PromptAnsweredInv, PromptTakenInv, PromptFailedInv
    DEF UsesPrompts
<1>7. CASE GoesDown
  BY <1>1, <1>7 DEF GoesDown, Unmounts
<1>8. CASE UNCHANGED vars
  BY <1>1, <1>8 DEF vars, appVars
<1>9. QED
  BY <1>2, <1>3, <1>4, <1>5, <1>6, <1>7, <1>8 DEF Next

(* When nothing is under way the Prompts tab neither says "loading..." nor *)
(* shows one prompt's body under another's key, in every state and for any *)
(* number of prompts and requests.                                         *)
THEOREM PagePromptSettles == Spec => []PromptSettles
<1>1. Init => PromptInv
  BY PromptInitInv DEF Init
<1>2. QED
  BY <1>1, PromptStepInv, PromptInvSettles, PTL DEF Spec
=============================================================================
