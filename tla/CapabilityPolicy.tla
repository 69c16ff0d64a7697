--------------------------- MODULE CapabilityPolicy ---------------------------
(***************************************************************************)
(* C9 CapabilityPolicy and C5 AgentRegistry.                               *)
(*                                                                         *)
(* C9 keeps a set of tool names per agent and denies what is not in it.    *)
(* C5 admits a manifest whose HMAC signature verifies and grants each of   *)
(* its capabilities through C9.  Unregistering an agent forgets its        *)
(* manifest; the grants stay with C9 until someone revokes them.           *)
(*                                                                         *)
(* The HMAC is over agent id and sorted capabilities joined by the unit    *)
(* separator.  An agent id may hold separators itself (only capabilities   *)
(* are checked), so here it is the sequence of the words they cut it into. *)
(***************************************************************************)
EXTENDS Naturals, Sequences, Functions

CONSTANTS Words,
          Agents,   \* agent ids
          Tools,
          Lists,    \* the sorted lists of capabilities that are presented
          Signed    \* the manifests the holder of the root secret has signed

Manifests == [agent : Agents, capabilities : Lists]

ASSUME SignedAssumption ==
  /\ Agents \subseteq Seq(Words) \ {<<>>} /\ Tools \subseteq Words
  /\ Lists \subseteq Seq(Tools) \ {<<>>}
  /\ Signed \subseteq Manifests

VARIABLES caps,       \* C9: what each agent may run
          manifest    \* C5: capabilities of the agent's manifest, {} if none

policyVars == <<caps, manifest>>

PolicyTypeOK ==
  /\ caps \in [Agents -> SUBSET Tools]
  /\ manifest \in [Agents -> SUBSET Tools]

PolicyInit ==
  /\ caps = [a \in Agents |-> {}]
  /\ manifest = [a \in Agents |-> {}]

-----------------------------------------------------------------------------
(* The words of what is signed, read back to back: nothing marks where the *)
(* agent id ends.                                                          *)
Canonical(m) == m.agent \o m.capabilities

AnySignature(m) == TRUE     \* faulty variant: nothing is verified

(* hmac.compare_digest: a signature made for one manifest verifies for     *)
(* every other of the same canonical form.                                 *)
VerifySignature(m) == \E n \in Signed : Canonical(n) = Canonical(m)

(* register: an unverified manifest raises before anything is stored.      *)
Register(m) ==
  /\ VerifySignature(m)
  /\ manifest' = [manifest EXCEPT ![m.agent] = Range(m.capabilities)]
  /\ caps' = [caps EXCEPT ![m.agent] = @ \union Range(m.capabilities)]

Unregister(a) ==
  /\ manifest' = [manifest EXCEPT ![a] = {}]
  /\ UNCHANGED caps

Revoke(a, tool) ==
  /\ caps' = [caps EXCEPT ![a] = @ \ {tool}]
  /\ UNCHANGED manifest

Allowed(a, tool) == tool \in caps[a]

PolicyNext ==
  \/ \E m \in Manifests : Register(m)
  \/ \E a \in Agents : Unregister(a)
  \/ \E a \in Agents, tool \in Tools : Revoke(a, tool)

-----------------------------------------------------------------------------
(* What the root secret ever allowed this agent.                           *)
SignedFor(a) == UNION {Range(m.capabilities) : m \in {n \in Signed : n.agent = a}}

(* Ids that differ in a word both have; one id is otherwise the other, cut *)
(* off at a separator.                                                     *)
Apart(a, b) == \E k \in DOMAIN a \intersect DOMAIN b : a[k] # b[k]

(* What may be taken for this agent's in manifests signed for an id that   *)
(* is a cut of its own, or of which its own is a cut.                      *)
Straddling(a) ==
  UNION {Range(Canonical(m)) : m \in {n \in Signed : n.agent # a /\ ~Apart(n.agent, a)}}
=============================================================================
