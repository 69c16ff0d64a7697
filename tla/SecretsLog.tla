------------------------------ MODULE SecretsLog ------------------------------
(***************************************************************************)
(* The secrets store: an append-only log of encrypted values, read by one  *)
(* or several SecretsService objects with a cache of their own each:       *)
(* GuiWebCore builds one for its routes, serve_c1 another for C7.          *)
(*                                                                         *)
(* A method holds its object's lock and does not suspend, so each is one   *)
(* action.  A record is a name with a value, "none" in a tombstone; a seal *)
(* opens to what was sealed, and a line cut off or two run together do not *)
(* parse.                                                                  *)
(***************************************************************************)
EXTENDS Naturals, Sequences

CONSTANTS Services, Names, Values,
          MaxLines      \* bounds the log

ASSUME SecretsAssumption ==
  /\ {"none", "unknown", "garbage", "error"} \cap (Values \union Names) = {}
  /\ MaxLines \in Nat

VARIABLES
  log,          \* the lines of secrets.log
  unfinished,   \* its last line has no newline
  cache,        \* each service's _cache; "unknown" where it has no entry
  truth,        \* what each name was last acknowledged to be
  tried,        \* what calls that raised may have made of a name since then
  behind,       \* names another service changed since this one looked
  failed        \* some append was cut short

ghostVars == <<truth, tried, behind, failed>>
vars == <<log, unfinished, cache, ghostVars>>

Records == [name : Names, value : Values \union {"none"}]

Garbage == [name |-> "garbage", value |-> "garbage"]

Lines == Records \union {Garbage}

TypeOK ==
  /\ log \in Seq(Lines) /\ Len(log) <= MaxLines
  /\ unfinished \in BOOLEAN /\ (unfinished => log # <<>>)
  /\ cache \in [Services -> [Names -> Values \union {"none", "unknown"}]]
  /\ truth \in [Names -> Values \union {"none"}]
  /\ tried \in [Names -> SUBSET (Values \union {"none"})]
  /\ behind \in [Services -> SUBSET Names]
  /\ failed \in BOOLEAN

Init ==
  /\ log = <<>>
  /\ unfinished = FALSE
  /\ cache = [s \in Services |-> [n \in Names |-> "unknown"]]
  /\ truth = [n \in Names |-> "none"]
  /\ tried = [n \in Names |-> {}]
  /\ behind = [s \in Services |-> {}]
  /\ failed = FALSE

-----------------------------------------------------------------------------
(* Reading the log                                                         *)

Raises == \E k \in DOMAIN log : log[k] = Garbage

(* What replay has read when it ends or raises.                            *)
Read == {k \in DOMAIN log : \A j \in 1..k : log[j] # Garbage}

About(n, lines) == {k \in lines : log[k].name = n}

Latest(lines) == CHOOSE k \in lines : \A j \in lines : j <= k

(* Faulty variant: tombstones are taken for unknown operations.            *)
ReplayedSetsOnly(n) ==
  LET sets == {k \in About(n, Read) : log[k].value # "none"}
  IN  IF sets = {} THEN "unknown" ELSE log[Latest(sets)].value

Replayed(n) ==
  IF About(n, Read) = {} THEN "unknown" ELSE log[Latest(About(n, Read))].value

Shown(value) == IF value = "unknown" THEN "none" ELSE value

(* What get returns to a service's caller.                                 *)
Answer(s, n) ==
  IF cache[s][n] # "unknown" THEN cache[s][n]
  ELSE IF Raises THEN "error" ELSE Shown(Replayed(n))

-----------------------------------------------------------------------------
(* Appending a line                                                        *)

(* A line runs together with an unfinished one before it.                  *)
Line(record) == IF unfinished THEN Garbage ELSE record

Extend(line) ==
  log' = IF unfinished THEN [log EXCEPT ![Len(log)] = line] ELSE Append(log, line)

Room == Len(log) < MaxLines

Write(record) == Room /\ Extend(Line(record)) /\ unfinished' = FALSE

(* The append of a line raises, or its process is killed in it: some of    *)
(* the line is there, or all but its end, or all of it.                    *)
WriteFails(record) ==
  /\ Room
  /\ \/ /\ Extend(Line(record)) \/ Extend(Garbage)
        /\ unfinished' = TRUE /\ failed' = TRUE
     \/ /\ Extend(Line(record))
        /\ unfinished' = FALSE /\ UNCHANGED failed

-----------------------------------------------------------------------------
(* The methods of a service                                                *)

Acknowledge(s, n, value) ==
  /\ truth' = [truth EXCEPT ![n] = value] /\ tried' = [tried EXCEPT ![n] = {}]
  /\ behind' = [r \in Services |-> IF r = s THEN behind[r] \ {n} ELSE behind[r] \union {n}]

Put(s, n, value) ==
  /\ Write([name |-> n, value |-> value])
  /\ cache' = [cache EXCEPT ![s][n] = value]
  /\ Acknowledge(s, n, value)
  /\ UNCHANGED failed

(* _replay fills the cache as far as it comes.                             *)
Replay(s) ==
  /\ cache' = [cache EXCEPT ![s] = [n \in Names |-> Replayed(n)]]
  /\ behind' = [behind EXCEPT ![s] = {}]
  /\ UNCHANGED <<log, unfinished, truth, tried, failed>>

Get(s, n) == cache[s][n] = "unknown" /\ Replay(s)

List(s) == Replay(s)

(* Faulty variant: the tombstone is left to the cache.                     *)
DeleteFromCache(s, n) ==
  /\ ~Raises /\ Shown(Replayed(n)) # "none"
  /\ cache' = [cache EXCEPT ![s] = [[m \in Names |-> Replayed(m)] EXCEPT ![n] = "none"]]
  /\ truth' = [truth EXCEPT ![n] = "none"] /\ tried' = [tried EXCEPT ![n] = {}]
  /\ behind' = [r \in Services |-> IF r = s THEN {} ELSE behind[r] \union {n}]
  /\ UNCHANGED <<log, unfinished, failed>>

(* delete of a live name; of another it only replays, as does one that     *)
(* raises.                                                                 *)
Delete(s, n) ==
  /\ ~Raises /\ Shown(Replayed(n)) # "none"
  /\ Write([name |-> n, value |-> "none"])
  /\ cache' = [cache EXCEPT ![s] = [[m \in Names |-> Replayed(m)] EXCEPT ![n] = "none"]]
  /\ truth' = [truth EXCEPT ![n] = "none"] /\ tried' = [tried EXCEPT ![n] = {}]
  /\ behind' = [r \in Services |-> IF r = s THEN {} ELSE behind[r] \union {n}]
  /\ UNCHANGED failed

DeleteNothing(s, n) == (Raises \/ Shown(Replayed(n)) = "none") /\ Replay(s)

Unacknowledged(n, value) ==
  tried' = [tried EXCEPT ![n] = @ \union {value}] /\ UNCHANGED truth

(* Faulty variant: the cache is set before the append is tried.            *)
PutFailsCached(s, n, value) ==
  /\ cache' = [cache EXCEPT ![s][n] = value]
  /\ Unacknowledged(n, value)
  /\ failed' = TRUE
  /\ UNCHANGED <<log, unfinished, behind>>

(* The append raises, with some of the line written (else the call did     *)
(* nothing, or only replayed): the caller does not know what the log says, *)
(* and the cache was not set.  delete has replayed by then.                *)
PutFails(s, n, value) ==
  /\ WriteFails([name |-> n, value |-> value])
  /\ Unacknowledged(n, value)
  /\ UNCHANGED <<cache, behind>>

DeleteFails(s, n) ==
  /\ ~Raises /\ Shown(Replayed(n)) # "none"
  /\ WriteFails([name |-> n, value |-> "none"])
  /\ Unacknowledged(n, "none")
  /\ cache' = [cache EXCEPT ![s] = [m \in Names |-> Replayed(m)]]
  /\ behind' = [behind EXCEPT ![s] = {}]

(* The process ends, between two calls or in one that has written some or  *)
(* all of its line (PutFails, DeleteFails); new services know nothing.     *)
Restart ==
  /\ cache' = [s \in Services |-> [n \in Names |-> "unknown"]]
  /\ behind' = [s \in Services |-> {}]
  /\ UNCHANGED <<log, unfinished, truth, tried, failed>>

Next ==
  \/ \E s \in Services, n \in Names :
       \/ \E value \in Values : Put(s, n, value) \/ PutFails(s, n, value)
       \/ Get(s, n) \/ Delete(s, n) \/ DeleteNothing(s, n) \/ DeleteFails(s, n)
  \/ \E s \in Services : List(s)
  \/ Restart

Spec == Init /\ [][Next]_vars

-----------------------------------------------------------------------------
(* Correctness                                                             *)

(* What may be read of a name: what was last acknowledged, or what a call  *)
(* that raised since then tried to make of it.                             *)
MayBe(n) == {truth[n]} \union tried[n]

(* Unless an append was cut short the log can be read, and whenever it can *)
(* it says of every name what was last acknowledged, or what a put or a    *)
(* delete that raised since then tried to make of it.                      *)
LogTruthful ==
  /\ ~failed => ~Raises /\ ~unfinished
  /\ ~Raises => \A n \in Names : Shown(Replayed(n)) \in MayBe(n)

(* While the log can be read, a service answers so for every name that no  *)
(* other service has changed since it looked.                              *)
CacheFresh ==
  ~Raises => \A s \in Services : \A n \in Names \ behind[s] : Answer(s, n) \in MayBe(n)

(* Tombstones are written for live names only, whichever service is asked  *)
(* to delete, so the log stays compact and deleting twice changes nothing. *)
TombstonesNeeded ==
  \A k \in DOMAIN log : log[k].value = "none" =>
    \E j \in 1..(k - 1) :
      /\ log[j].name = log[k].name /\ log[j].value # "none"
      /\ \A i \in (j + 1)..(k - 1) : log[i].name # log[k].name

(* Answers only move forward: while the log can be read, no step makes a   *)
(* service answer anything but what was last acknowledged or what the log  *)
(* says last, or said before a delete that raised; no overwritten or       *)
(* deleted value comes back.                                               *)
AnswersMoveForward ==
  [][~Raises' => \A s \in Services, n \in Names :
       Answer(s, n)' # Answer(s, n) =>
         Answer(s, n)' \in {truth'[n], Shown(Replayed(n))', Shown(Replayed(n))}]_vars
=============================================================================
