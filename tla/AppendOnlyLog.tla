--------------------------- MODULE AppendOnlyLog ---------------------------
(***************************************************************************)
(* What the audit service promises of every tenant's log, without rows,    *)
(* hashes, locks or transactions: a sequence of recorded events that only  *)
(* ever grows, at its end, by one event at a time.  AuditChain, the        *)
(* detailed specification of backend/src/audit.ts, implements it.          *)
(***************************************************************************)
EXTENDS Sequences

CONSTANTS
    Tenants,    \* owners of the logs
    Covered     \* what a log remembers of an event

VARIABLE history    \* history[t]: the events of tenant t, oldest first

LogTypeOK == history \in [Tenants -> Seq(Covered)]

LogInit == history = [t \in Tenants |-> <<>>]

Record(t, e) == history' = [history EXCEPT ![t] = Append(@, e)]

LogNext == \E t \in Tenants, e \in Covered : Record(t, e)

LogSpec == LogInit /\ [][LogNext]_history
=============================================================================
