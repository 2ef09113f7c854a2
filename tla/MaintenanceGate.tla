--------------------------- MODULE MaintenanceGate ---------------------------
(***************************************************************************)
(* The quiet-host gate of go/internal/maintenance: at most one window at a *)
(* time, held by a lease, mirrored best-effort in the settings store, and  *)
(* ended by its holder, by an operator or by its deadline.  The deadline   *)
(* may pass at any moment: the gate's clock is abstracted away.            *)
(***************************************************************************)
CONSTANTS
  NoWindow,     \* the gate's zero State
  NoLease,      \* the empty lease of a run that has entered no window
  Leases        \* the leases newLeaseID draws

ASSUME GateAssumption == NoLease \notin Leases

VARIABLES
  window,    \* Gate.state: NoWindow, or the lease and who entered
  saved      \* the state under SettingsKey in the settings store

gateVars == <<window, saved>>

Holders == {"smith", "operator"}
Windows == [lease: Leases, by: Holders]
ASSUME WindowsAssumption == NoWindow \notin Windows

HoldsWindow(l) == window # NoWindow /\ window.lease = l

GateInit ==
  /\ window = NoWindow
  /\ saved = NoWindow

(* persist: a write that fails is only logged, and the old state stays.    *)
Persist == saved' \in {window', saved}

(* Enter, past the already-active refusal.                                 *)
Enter(l, who) ==
  /\ window = NoWindow
  /\ window' = [lease |-> l, by |-> who]
  /\ Persist

(* Exit by the lease's holder: a window that is over, or that is somebody  *)
(* else's, is left alone.                                                  *)
Exit(l) ==
  IF HoldsWindow(l)
  THEN window' = NoWindow /\ Persist
  ELSE UNCHANGED gateVars

(* The operator's forced exit, and the deadline as the ticker or any call  *)
(* sees it.                                                                *)
Close ==
  /\ window # NoWindow
  /\ window' = NoWindow
  /\ Persist

(* New after a restart, then ReconcileOnBoot unless a live run holds the   *)
(* window that was saved.                                                  *)
Reopen(live) ==
  IF saved # NoWindow /\ saved.lease \in live
  THEN window' = saved /\ UNCHANGED saved
  ELSE window' = NoWindow /\ Persist

GateTypeOK ==
  /\ window \in Windows \cup {NoWindow}
  /\ saved \in Windows \cup {NoWindow}
=============================================================================
