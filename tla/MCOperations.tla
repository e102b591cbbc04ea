---------------------------- MODULE MCOperations ----------------------------
(***************************************************************************)
(* One run for three small components that have liveness properties.  A    *)
(* behaviour follows one of them, its subject, from that component's own   *)
(* initial states; the others rest in an initial state of theirs.          *)
(***************************************************************************)
EXTENDS ReplayJob

VARIABLES subject, owner, dlq, outbox, mirror, scanned, copied,
          mode, container, owned, schema, faults

Live == {"w1", "w2"}

Outbox == INSTANCE DeadLetterOutbox WITH
  Issues <- {"i1", "i2"}, Replaying <- {"r1"}, Mirroring <- {"w1", "r1"}
Stack == INSTANCE ComposeStack WITH MaxFaults <- 2

outboxVars == <<owner, dlq, outbox, mirror, scanned, copied>>
stackVars == <<mode, container, owned, schema, faults>>
all == <<vars, subject, outboxVars, stackVars>>

MCInit ==
  /\ subject \in {"replay", "outbox", "stack"}
  /\ subject # "replay" => inScope = {}
  /\ subject # "stack" => mode = [tls |-> FALSE, attached |-> FALSE]
  /\ Init /\ Outbox!Init /\ Stack!Init

MCNext ==
  \/ subject = "replay" /\ Next /\ UNCHANGED <<subject, outboxVars, stackVars>>
  \/ subject = "outbox" /\ Outbox!Next /\ UNCHANGED <<subject, vars, stackVars>>
  \/ subject = "stack" /\ Stack!Next /\ UNCHANGED <<subject, vars, outboxVars>>

\* The fairness of each component, as its FairSpec or Spec states it.
MCSpec ==
  /\ MCInit /\ [][MCNext]_all
  /\ WF_vars(subject = "replay" /\ Runner)
  /\ \A w \in Live : WF_outboxVars(subject = "outbox" /\ Outbox!Flush(w))
  /\ WF_stackVars(subject = "stack" /\ Stack!Progress)

\* No dead letter is lost between quarantine and the mirror (target-manager.ts).
DeadLettersReachAStore == Outbox!DeadLettersReachAStore

\* The generated compose stack comes up, in order (compose.mjs).
StackComesUp == subject = "stack" => Stack!StackComesUp
=============================================================================
