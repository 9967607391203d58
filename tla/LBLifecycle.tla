----------------------------- MODULE LBLifecycle -----------------------------
(***************************************************************************)
(* What a controller of this repository promises about one API object and  *)
(* the cloud load balancer made for it, whatever it reads, retries or      *)
(* loses on the way.  An object is                                         *)
(*                                                                         *)
(*   absent       not in the API server,                                   *)
(*   bare         there, without this controller's finalizer,              *)
(*   guarded      there, with the finalizer, without a load balancer,      *)
(*   provisioned  there, with the finalizer and with a load balancer.      *)
(*                                                                         *)
(* A load balancer exists only behind a finalizer, so the one way out of   *)
(* provisioned leads through guarded: the load balancer goes first.        *)
(***************************************************************************)
CONSTANT Names                 \* the objects

VARIABLE phase                 \* phase[n]: where object n is in its life

Phases == {"absent", "bare", "guarded", "provisioned"}

Init == phase = [n \in Names |-> "absent"]

Move(n, from, to) == phase[n] = from /\ phase' = [phase EXCEPT ![n] = to]

Appear(n) == Move(n, "absent", "bare")
Vanish(n) == Move(n, "bare", "absent")
Guard(n) == Move(n, "bare", "guarded")
Provision(n) == Move(n, "guarded", "provisioned")
Deprovision(n) == Move(n, "provisioned", "guarded")
\* Releasing the finalizer of an object marked for deletion removes it.
Release(n) == Move(n, "guarded", "bare") \/ Move(n, "guarded", "absent")

Next == \E n \in Names : \/ Appear(n) \/ Vanish(n) \/ Guard(n)
                         \/ Provision(n) \/ Deprovision(n) \/ Release(n)

Spec == Init /\ [][Next]_phase
=============================================================================
