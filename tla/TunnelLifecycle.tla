-------------------------- MODULE TunnelLifecycle --------------------------
(***************************************************************************)
(* What the API promises about a tunnel, without Redis, clocks or          *)
(* requests (docs/API_REFERENCE.md): a name is given to one tunnel at a    *)
(* time, an extension only lengthens it, and a revoked one is gone for     *)
(* good.  A tunnel may lapse at any time: it expires, its creation fails   *)
(* half way, Redis drops it, or a delete fails after it was executed.      *)
(* A lapsed tunnel may come back, by an extension that was under way, but  *)
(* never on a name that belongs to another by then.                        *)
(***************************************************************************)
EXTENDS Integers

CONSTANT Keys

VARIABLES
  reg,      \* the tunnels by name: a function from keys in use to [id, dur]
  revoked   \* the tunnels whose owner was told they are gone

Init == reg = [k \in {} |-> 0] /\ revoked = {}

Without(ks) == [k \in DOMAIN reg \ ks |-> reg[k]]
With(k, t) == [x \in DOMAIN reg \cup {k} |-> IF x = k THEN t ELSE reg[x]]

Appear ==
  \E k \in Keys \ DOMAIN reg :
    /\ k \in DOMAIN reg'
    /\ reg' = With(k, reg'[k])
    /\ reg'[k].id \notin revoked \cup {reg[x].id : x \in DOMAIN reg}
    /\ UNCHANGED revoked

Lengthen ==
  \E k \in DOMAIN reg :
    /\ k \in DOMAIN reg'
    /\ reg' = With(k, [reg[k] EXCEPT !.dur = reg'[k].dur])
    /\ reg'[k].dur > reg[k].dur
    /\ UNCHANGED revoked

Lapse ==
  \E ks \in SUBSET DOMAIN reg : reg' = Without(ks) /\ UNCHANGED revoked

Revoke ==
  \E k \in DOMAIN reg :
    /\ reg' = Without({k})
    /\ revoked' = revoked \cup {reg[k].id}

Next == Appear \/ Lengthen \/ Lapse \/ Revoke

Spec == Init /\ [][Next]_<<reg, revoked>>
=============================================================================
