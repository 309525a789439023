---------------------------- MODULE EventEffects ----------------------------
(***************************************************************************)
(* What the pipeline promises about events, with no relay, topic, batches, *)
(* offsets or transactions: an event takes effect once, after its request  *)
(* has committed, and for good; its effect adds at most one to what was    *)
(* counted before; only a committed event is put aside, and what was put   *)
(* aside is marked as replayed no earlier than it takes effect.            *)
(***************************************************************************)
EXTENDS Naturals, FiniteSets

CONSTANT Events

VARIABLES
  emitted,  \* events whose request has committed
  stored,   \* events that have taken effect
  counter,  \* how many are counted
  aside,    \* events with a dead letter
  settled   \* those with a dead letter marked as replayed

effectVars == <<emitted, stored, counter, aside, settled>>

Init ==
  /\ emitted = {}
  /\ stored = {}
  /\ counter = 0
  /\ aside = {}
  /\ settled = {}

Emit(e) ==
  /\ e \notin emitted
  /\ emitted' = emitted \cup {e}
  /\ UNCHANGED <<stored, counter, aside, settled>>

\* Effects that overlap may take each other out of the count.
TakeEffect(e) ==
  /\ e \in emitted \ stored
  /\ stored' = stored \cup {e}
  /\ counter' \in 0 .. Cardinality(stored) + 1
  /\ settled' \in {settled, settled \cup (aside \cap {e})}
  /\ UNCHANGED <<emitted, aside>>

PutAside(e) ==
  /\ e \in emitted
  /\ aside' = aside \cup {e}
  /\ UNCHANGED <<emitted, stored, counter, settled>>

\* The replay of a dead letter finds that the event has taken effect.
Settle(e) ==
  /\ e \in aside \cap stored
  /\ settled' = settled \cup {e}
  /\ UNCHANGED <<emitted, stored, counter, aside>>

Next == \E e \in Events : Emit(e) \/ TakeEffect(e) \/ PutAside(e) \/ Settle(e)

Spec == Init /\ [][Next]_effectVars
=============================================================================
