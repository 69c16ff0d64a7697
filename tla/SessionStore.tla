----------------------------- MODULE SessionStore -----------------------------
(***************************************************************************)
(* services/session_manager.py: chat sessions, one JSON file each, an      *)
(* index file, and a cache of Session objects that is never invalidated.   *)
(*                                                                         *)
(* The re-entrant lock makes each operation exclusive, so at most one is   *)
(* in progress; what interrupts it is an OSError between two of its writes *)
(* (the operation raises, the process goes on) or a crash (the cache is    *)
(* lost).  A write is _atomic_write_json: all or nothing.                  *)
(*                                                                         *)
(* A message is its place in the session's history, whether it is a system *)
(* message, and the truncated mark.  Of the other fields only archived is  *)
(* kept.  Ids are 64 random bits: create never meets one twice.  _save and *)
(* hard_delete always find a list sorted by _ensure_index, so the index is *)
(* a set.                                                                  *)
(***************************************************************************)
EXTENDS Integers, Sequences, FiniteSets

CONSTANTS Sessions,      \* session ids
          MaxMessages,   \* max_messages
          MaxHistory,    \* bound: messages ever appended to each session
          None           \* no session

ASSUME StoreAssumption ==
  /\ MaxMessages \in Nat
  /\ MaxHistory \in [Sessions -> Nat]
  /\ None \notin Sessions
  /\ None \notin [messages : Seq([n : Nat, kind : {"system", "dialog"}, truncated : BOOLEAN]),
                  archived : BOOLEAN]

VARIABLES
  file,      \* sessions/<id>.json
  index,     \* sessions-index.json
  cache,     \* _cache
  op,        \* the operation that holds the lock
  history,   \* every message appended to a session, whatever was dropped
  saved,     \* how much of the history the file accounts for
  acked,     \* how much of it callers were told is stored
  deleted,   \* sessions a hard delete has unlinked
  unsaved    \* sessions whose last write to file failed

fileVars == <<file, index>>
ghostVars == <<history, saved, acked, deleted, unsaved>>
vars == <<fileVars, cache, op, ghostVars>>

Kinds == {"system", "dialog"}

Messages == [n : Nat, kind : Kinds, truncated : BOOLEAN]

Docs == [messages : Seq(Messages), archived : BOOLEAN]

EmptyDoc == [messages |-> <<>>, archived |-> FALSE]

Idle == [name |-> "idle", sid |-> None, at |-> "done"]

TypeOK ==
  /\ file \in [Sessions -> Docs \union {None}]
  /\ index \subseteq Sessions
  /\ cache \in [Sessions -> Docs \union {None}]
  /\ op \in [name : {"create", "change", "delete", "list"},
             sid : Sessions \union {None},
             at : {"write", "ensure", "index", "collect"}] \union {Idle}
  /\ history \in [Sessions -> Seq(Kinds)]
  /\ saved \in [Sessions -> Nat]
  /\ acked \in [Sessions -> Nat \union {-1}]
  /\ deleted \subseteq Sessions
  /\ unsaved \subseteq Sessions

Init ==
  /\ file = [s \in Sessions |-> None]
  /\ index = {}
  /\ cache = [s \in Sessions |-> None]
  /\ op = Idle
  /\ history = [s \in Sessions |-> <<>>]
  /\ saved = [s \in Sessions |-> 0]
  /\ acked = [s \in Sessions |-> -1]
  /\ deleted = {}
  /\ unsaved = {}

-----------------------------------------------------------------------------
(* The cap                                                                 *)

OfKind(ms, kind) == {i \in DOMAIN ms : ms[i].kind = kind}

Excess(ms) == IF Len(ms) > MaxMessages THEN Len(ms) - MaxMessages ELSE 0

(* The numbers of a finite set, the least first.                           *)
Rank(S, i) == Cardinality({j \in S : j <= i})

InOrder(S) == [k \in 1..Cardinality(S) |-> CHOOSE i \in S : Rank(S, i) = k]

Pick(ms, chosen) == [k \in 1..Cardinality(chosen) |-> ms[InOrder(chosen)[k]]]

(* Faulty variants: the oldest message goes, of whatever kind; the mark is *)
(* forgotten.                                                              *)
TruncateOldest(ms) == SubSeq(ms, Excess(ms) + 1, Len(ms))

TruncateUnmarked(ms) ==
  Pick(ms, {i \in DOMAIN ms :
             \/ ms[i].kind = "system"
             \/ Rank(OfKind(ms, "dialog"), i) > Excess(ms)})

(* Drop the oldest non-system message while there is one and the session   *)
(* is over the cap; if any was dropped, mark the first that is left.       *)
Truncate(ms) ==
  LET left == Pick(ms, {i \in DOMAIN ms :
                          \/ ms[i].kind = "system"
                          \/ Rank(OfKind(ms, "dialog"), i) > Excess(ms)})
      dialog == OfKind(left, "dialog")
      first == CHOOSE i \in dialog : \A j \in dialog : i <= j
  IN IF Len(left) = Len(ms) \/ dialog = {}
       THEN left
       ELSE [left EXCEPT ![first].truncated = TRUE]

-----------------------------------------------------------------------------
(* Beginning an operation: each holds the lock until it is done            *)

OnDisk == {s \in Sessions : file[s] # None}

(* get: the cache first, then the file.  A hard delete whose unlink fails  *)
(* has done no more than this.                                             *)
Current(s) == IF cache[s] # None THEN cache[s] ELSE file[s]

Found(s) == op = Idle /\ Current(s) # None

Begin(name, s, at) == op' = [name |-> name, sid |-> s, at |-> at]

Get(s) ==
  /\ Found(s)
  /\ cache' = [cache EXCEPT ![s] = Current(s)]
  /\ UNCHANGED <<fileVars, op, ghostVars>>

(* A new id; the session enters the cache only when it has been saved.     *)
Create(s) ==
  /\ op = Idle
  /\ acked[s] = -1 /\ s \notin OnDisk \union deleted
  /\ Begin("create", s, "write")
  /\ UNCHANGED <<fileVars, cache, ghostVars>>

(* Faulty variant: the message is acknowledged from the cache alone.       *)
AppendUnsaved(s, kind) ==
  /\ Found(s) /\ Len(history[s]) < MaxHistory[s]
  /\ history' = [history EXCEPT ![s] = Append(@, kind)]
  /\ cache' = [cache EXCEPT ![s] =
       [Current(s) EXCEPT !.messages =
          Truncate(Append(@, [n |-> Len(history[s]) + 1, kind |-> kind,
                              truncated |-> FALSE]))]]
  /\ Begin("change", s, "index")
  /\ UNCHANGED <<fileVars, saved, acked, deleted, unsaved>>

(* append_message works on the cached object and then saves it.            *)
AppendMessage(s, kind) ==
  /\ Found(s) /\ Len(history[s]) < MaxHistory[s]
  /\ history' = [history EXCEPT ![s] = Append(@, kind)]
  /\ cache' = [cache EXCEPT ![s] =
       [Current(s) EXCEPT !.messages =
          Truncate(Append(@, [n |-> Len(history[s]) + 1, kind |-> kind,
                              truncated |-> FALSE]))]]
  /\ Begin("change", s, "write")
  /\ UNCHANGED <<fileVars, saved, acked, deleted, unsaved>>

(* Faulty variant: the change stays in the cache.                          *)
UpdateInCacheOnly(s, archived) ==
  /\ Found(s)
  /\ cache' = [cache EXCEPT ![s] = [Current(s) EXCEPT !.archived = archived]]
  /\ UNCHANGED <<fileVars, op, ghostVars>>

(* update, and soft_delete as update(archived=True).                       *)
Update(s, archived) ==
  /\ Found(s)
  /\ cache' = [cache EXCEPT ![s] = [Current(s) EXCEPT !.archived = archived]]
  /\ Begin("change", s, "write")
  /\ UNCHANGED <<fileVars, ghostVars>>

Bury(s) ==
  /\ deleted' = deleted \union {s}
  /\ unsaved' = unsaved \ {s}
  /\ history' = [history EXCEPT ![s] = <<>>]
  /\ saved' = [saved EXCEPT ![s] = 0]
  /\ acked' = [acked EXCEPT ![s] = -1]

(* Faulty variant: the cached session is left behind.                      *)
HardDeleteKeepsCache(s) ==
  /\ Found(s)
  /\ cache' = [cache EXCEPT ![s] = Current(s)]
  /\ file' = [file EXCEPT ![s] = None]
  /\ Bury(s)
  /\ Begin("delete", s, "ensure")
  /\ UNCHANGED index

(* hard_delete loads the session, unlinks its file and drops it from the   *)
(* cache.                                                                  *)
HardDelete(s) ==
  /\ Found(s)
  /\ cache' = [cache EXCEPT ![s] = None]
  /\ file' = [file EXCEPT ![s] = None]
  /\ Bury(s)
  /\ Begin("delete", s, "ensure")
  /\ UNCHANGED index

ListSummaries ==
  /\ op = Idle
  /\ Begin("list", None, "ensure")
  /\ UNCHANGED <<fileVars, cache, ghostVars>>

-----------------------------------------------------------------------------
(* Finishing it                                                            *)

Saved == IF op.name = "create" THEN EmptyDoc ELSE cache[op.sid]

GoOn(at) == op' = [op EXCEPT !.at = at]

(* _save, first half: the session's own file.                              *)
WriteFile ==
  /\ op.at = "write"
  /\ file' = [file EXCEPT ![op.sid] = Saved]
  /\ saved' = [saved EXCEPT ![op.sid] = Len(history[op.sid])]
  /\ unsaved' = unsaved \ {op.sid}
  /\ GoOn("ensure")
  /\ UNCHANGED <<index, cache, history, acked, deleted>>

TrustIndex == index      \* faulty variant: no repair

(* What _ensure_index leaves in the index: it is rebuilt from the          *)
(* directory whenever the two differ.                                      *)
RepairedIndex == OnDisk

EnsureIndex ==
  /\ op.at = "ensure"
  /\ index' = RepairedIndex
  /\ GoOn(IF op.name = "list" THEN "collect" ELSE "index")
  /\ UNCHANGED <<file, cache, ghostVars>>

(* _save, second half, and the return to the caller.                       *)
SaveReturns ==
  /\ op.at = "index" /\ op.name \in {"create", "change"}
  /\ index' = index \union {op.sid}
  /\ cache' = [cache EXCEPT ![op.sid] = Saved]
  /\ acked' = [acked EXCEPT ![op.sid] = Len(history[op.sid])]
  /\ op' = Idle
  /\ UNCHANGED <<file, history, saved, deleted, unsaved>>

DeleteReturns ==
  /\ op.at = "index" /\ op.name = "delete"
  /\ index' = index \ {op.sid}
  /\ op' = Idle
  /\ UNCHANGED <<file, cache, ghostVars>>

(* list_summaries reads every indexed session through get.                 *)
Listing == {s \in index : Current(s) # None /\ ~Current(s).archived}

ListReturns ==
  /\ op.at = "collect"
  /\ cache' = [s \in Sessions |-> IF s \in index THEN Current(s) ELSE cache[s]]
  /\ op' = Idle
  /\ UNCHANGED <<fileVars, ghostVars>>

(* An OSError leaves the operation where it stands.                        *)
OpFails ==
  /\ op # Idle
  /\ op' = Idle
  /\ unsaved' = IF op.at = "write" /\ op.name = "change"
                  THEN unsaved \union {op.sid} ELSE unsaved
  /\ UNCHANGED <<fileVars, cache, history, saved, acked, deleted>>

(* The process dies and is started again.                                  *)
Crash ==
  /\ cache' = [s \in Sessions |-> None]
  /\ op' = Idle
  /\ history' = [s \in Sessions |-> SubSeq(history[s], 1, saved[s])]
  /\ unsaved' = {}
  /\ UNCHANGED <<fileVars, saved, acked, deleted>>

Next ==
  \/ \E s \in Sessions :
       \/ Get(s) \/ Create(s) \/ HardDelete(s)
       \/ \E kind \in Kinds : AppendMessage(s, kind)
       \/ \E archived \in BOOLEAN : Update(s, archived)
  \/ ListSummaries
  \/ WriteFile \/ EnsureIndex \/ SaveReturns \/ DeleteReturns \/ ListReturns
  \/ OpFails \/ Crash

Spec == Init /\ [][Next]_vars

-----------------------------------------------------------------------------
(* Correctness                                                             *)

(* What the cap should leave of a history, in one go: every system message *)
(* and the newest of the others that still fit.                            *)
Retained(h) ==
  LET system == {i \in DOMAIN h : h[i] = "system"}
      room == MaxMessages - Cardinality(system)
      newer(i) == {j \in DOMAIN h \ system : j > i}
  IN {i \in DOMAIN h : i \in system \/ Cardinality(newer(i)) < room}

Reads(doc, h) ==
  LET kept == Retained(h)
      dialog == {i \in kept : h[i] = "dialog"}
      order == InOrder(kept)
  IN doc.messages =
       [k \in 1..Len(order) |->
          [n |-> order[k], kind |-> h[order[k]],
           truncated |-> /\ kept # DOMAIN h
                         /\ order[k] \in dialog
                         /\ \A i \in dialog : order[k] <= i]]

(* Message by message truncation over saves, failures and restarts ends    *)
(* where the cap applied once to the whole history would: no system        *)
(* message is lost, the newest others are kept in order, the first of them *)
(* carries the mark.  It holds of what is read and of what is stored.      *)
HistoryRetained ==
  \A s \in Sessions :
    /\ Current(s) # None => Reads(Current(s), history[s])
    /\ file[s] # None => Reads(file[s], SubSeq(history[s], 1, saved[s]))

(* What a caller was told is stored is in the file, until the session is   *)
(* deleted: neither an error in a later operation nor a crash takes an     *)
(* acknowledged session or message back.                                   *)
AckedDurable ==
  \A s \in Sessions \ deleted :
    acked[s] >= 0 => file[s] # None /\ acked[s] <= saved[s]

(* Between operations a cached session is the one on disk, unless its last *)
(* write failed.  (The types are part of it.)                              *)
CacheClean ==
  /\ TypeOK
  /\ op = Idle =>
       \A s \in Sessions \ unsaved : cache[s] # None => cache[s] = file[s]

(* A hard delete is final: nothing cached, saved or in progress brings the *)
(* session back.                                                           *)
NoResurrection ==
  \A s \in deleted :
    /\ file[s] = None /\ cache[s] = None
    /\ op.sid = s => op.name = "delete"

(* A listing shows exactly the stored sessions that are not archived,      *)
(* whichever writes were interrupted before it; only where a write failed  *)
(* may it show what is not on disk.                                        *)
ListingComplete ==
  op.at = "collect" =>
    Listing \ unsaved = {s \in OnDisk \ unsaved : ~file[s].archived}
=============================================================================
