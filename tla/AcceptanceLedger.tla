-------------------------- MODULE AcceptanceLedger --------------------------
(***************************************************************************)
(* What a validator promises the miners and the other validators, without  *)
(* stages, calls or failures: a submission is paid for before it is        *)
(* accepted, and a config is accepted for one submission only.             *)
(***************************************************************************)
CONSTANTS WorkIds, Configs, ConfigOf

VARIABLES
  paid,          \* submissions a work token was deducted for
  acceptedWork   \* submissions that earned a weight

ledgerVars == <<paid, acceptedWork>>

Init == paid = {} /\ acceptedWork = {}

Pay(w) ==
  /\ paid' = paid \union {w}
  /\ UNCHANGED acceptedWork

Accept(w) ==
  /\ w \in paid
  /\ \A u \in acceptedWork : ConfigOf[u] # ConfigOf[w]
  /\ acceptedWork' = acceptedWork \union {w}
  /\ UNCHANGED paid

Next == \E w \in WorkIds : Pay(w) \/ Accept(w)

Spec == Init /\ [][Next]_ledgerVars

=============================================================================
