-------------------------- MODULE KillSwitchPromise --------------------------
(***************************************************************************)
(* TunnelState with a history of what the user was promised.  README.md    *)
(* says of the kill switch that "disconnecting intentionally leaves        *)
(* internet blocked until you change that setting".                        *)
(***************************************************************************)
EXTENDS TunnelState

VARIABLE blocked   (* the internet was blocked by a disconnect with the kill *)
                   (* switch on, and the user neither changed the setting    *)
                   (* nor connected since                                    *)

BlockedByDisconnect ==
  /\ pc = "idle" /\ os.firewall.mode = "blocked"
  /\ target.args = NONE /\ target.killSwitch /\ ~Changed

UserChoosesOtherwise ==
  \/ SetFeatureFlag(FALSE)
  \/ \E a \in Args : SetTunnelTargetState(a, TRUE)

PromiseInit == Init /\ blocked = FALSE

PromiseNext ==
  /\ Next
  /\ blocked' = IF UserChoosesOtherwise THEN FALSE
                ELSE blocked \/ (pc # "idle" /\ BlockedByDisconnect')

PromiseSpec == PromiseInit /\ [][PromiseNext]_<<vars, blocked>>

(* The firewall of a user who disconnected with the kill switch on keeps    *)
(* blocking until that user turns the setting off or connects again.        *)
StaysBlockedUntilChanged == blocked => Captured
=============================================================================
