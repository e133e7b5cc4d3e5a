------------------------------ MODULE TidyPromise ------------------------------
(***************************************************************************)
(* What Project Tidy promises, without files, runs and calls: a proposal   *)
(* is published once and from then on only settled, never open again; what *)
(* is done to a project was asked for while its proposal was open; and a   *)
(* proposal is called applied, or superseded, only when something of it    *)
(* was done, or a newer one of its project is published.                   *)
(*                                                                         *)
(* How a settled proposal was settled may be said again and differently:   *)
(* the code writes the status from a copy it read earlier.  TidySession    *)
(* implements this specification.                                          *)
(***************************************************************************)
EXTENDS Naturals

CONSTANT MaxProposals

VARIABLES
  home,      \* the project of each proposal, in the order of their creation
  standing,  \* the status of each
  asked,     \* <<project, proposal, item>>: the user has approved it
  made       \* and REAPER has done it

vars == <<home, standing, asked, made>>

Pids == 1 .. MaxProposals

Settled == {"dismissed", "superseded", "applied", "apply_skipped", "apply_failed"}

Init ==
  /\ home = <<>>
  /\ standing = [p \in Pids |-> "none"]
  /\ asked = {}
  /\ made = {}

\* A proposal gets its place in the order.
Create ==
  /\ DOMAIN home \subseteq DOMAIN home'
  /\ \A p \in DOMAIN home : home'[p] = home[p]
  /\ UNCHANGED <<standing, asked, made>>

Publish(p) ==
  /\ standing[p] = "none"
  /\ standing' \in {[standing EXCEPT ![p] = s] : s \in {"open", "already_tidy"}}
  /\ UNCHANGED <<home, asked, made>>

Newer(p) == {q \in DOMAIN home : q > p /\ home[q] = home[p] /\ standing[q] # "none"}

Settle(p) ==
  /\ standing[p] \in {"open"} \cup Settled
  /\ \E s \in Settled :
       /\ s = "applied" => \E m \in made : m[2] = p
       /\ s = "superseded" => Newer(p) # {}
       /\ standing' = [standing EXCEPT ![p] = s]
  /\ UNCHANGED <<home, asked, made>>

Ask ==
  /\ asked \subseteq asked'
  /\ \A a \in asked' \ asked : standing[a[2]] = "open" /\ home[a[2]] = a[1]
  /\ UNCHANGED <<home, standing, made>>

Make ==
  /\ made \subseteq made'
  /\ made' \subseteq asked
  /\ UNCHANGED <<home, standing, asked>>

Next == Create \/ Ask \/ Make \/ \E p \in Pids : Publish(p) \/ Settle(p)

Spec == Init /\ [][Next]_vars
===============================================================================
