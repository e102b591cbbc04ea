---------------------------- MODULE IngestLedger ----------------------------
(***************************************************************************)
(* What the write-ahead log promises a Collector (TelemetryProcessor       *)
(* .collect with WalStore.appendClassified), without files, queues or      *)
(* restarts: an identity takes one record hash, for ever, and every        *)
(* definite answer agrees with it.                                         *)
(***************************************************************************)
CONSTANTS Ids, Hashes, None

VARIABLES
  stored,    \* identity -> the record hash it was accepted with
  answered   \* every definite answer given

Init ==
  /\ stored = [i \in Ids |-> None]
  /\ answered = {}

\* The first hash of an identity becomes its hash.
Store(i, h) ==
  /\ stored[i] = None
  /\ stored' = [stored EXCEPT ![i] = h]
  /\ UNCHANGED answered

Agrees(i, h, a) ==
  \/ a \in {"accepted", "duplicate"} /\ stored[i] = h
  \/ a = "conflict" /\ stored[i] \notin {None, h}
  \/ a = "semantic_conflict" /\ stored[i] = None

Reply(i, h, a) ==
  /\ Agrees(i, h, a)
  /\ answered' = answered \cup {[id |-> i, hash |-> h, answer |-> a]}
  /\ UNCHANGED stored

\* A record that names no usable identity is quarantined.
ReplyRejected ==
  /\ answered' = answered \cup {[id |-> None, hash |-> None, answer |-> "rejected"]}
  /\ UNCHANGED stored

Next ==
  \/ \E i \in Ids, h \in Hashes : Store(i, h)
  \/ \E i \in Ids, h \in Hashes,
        a \in {"accepted", "duplicate", "conflict", "semantic_conflict"} : Reply(i, h, a)
  \/ ReplyRejected

Spec == Init /\ [][Next]_<<stored, answered>>
=============================================================================
