----------------------------- MODULE RemoteCall -----------------------------
(***************************************************************************)
(* What the Work that makes a call to somebody else's server has to know   *)
(* of it, to settle as failed only what did not happen and to reconcile    *)
(* what may have (src/src/platform.ts:991-1050).  Connector implements it. *)
(***************************************************************************)

VARIABLES
  reply,   \* what the caller was told
  effect   \* what the call does at the other end

callVars == <<reply, effect>>

CallInit == reply = "uncalled" /\ effect = "none"

Call == reply = "uncalled" /\ reply' = "pending" /\ UNCHANGED effect

\* It happens once, and may do so after the caller stopped waiting for it.
Happens ==
  /\ reply \in {"pending", "unknown"} /\ effect = "none"
  /\ effect' = "begun" /\ UNCHANGED reply

Ends == effect = "begun" /\ effect' = "ended" /\ UNCHANGED reply

\* It did not happen and never will.
Refuse == reply = "pending" /\ effect = "none" /\ reply' = "refused" /\ UNCHANGED effect

Answer == reply = "pending" /\ effect = "ended" /\ reply' = "answered" /\ UNCHANGED effect

GiveUp == reply = "pending" /\ reply' = "unknown" /\ UNCHANGED effect

CallNext == Call \/ Happens \/ Ends \/ Refuse \/ Answer \/ GiveUp

Returns == reply = "pending" ~> reply # "pending"

CallSafety == CallInit /\ [][CallNext]_callVars
RemoteCallSpec == CallSafety /\ Returns
=============================================================================
