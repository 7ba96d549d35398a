--------------------------- MODULE PairingSecret ---------------------------
(***************************************************************************)
(* What device enrollment promises, without requests, tables or clocks: a  *)
(* pairing secret is usable in one window, the windows do not overlap, and *)
(* a secret that is used enrolls one device and is then worth nothing.     *)
(* Server promises of docs/security/DEVICE_ENROLLMENT.md, sections "Local  *)
(* offer authority" and "Ceremony", that server/identity implements.       *)
(***************************************************************************)

CONSTANTS Secrets, Devices

VARIABLES
  secret,   \* what each pairing secret is worth
  enrolled, \* the pairs <<secret, device>> of all enrollments
  revoked   \* the devices revoked since

vars == <<secret, enrolled, revoked>>

Worth == {"unissued", "usable", "spent", "void"}

Init ==
  /\ secret = [s \in Secrets |-> "unissued"]
  /\ enrolled = {}
  /\ revoked = {}

\* A usable secret may lose its worth at any moment: a deadline, a lock-out.
Fades(before, after) ==
  \A s \in Secrets :
    \/ after[s] = before[s]
    \/ before[s] = "usable" /\ after[s] = "void"

\* Opening a window ends every other.
Issue(s) ==
  /\ secret[s] = "unissued"
  /\ secret' = [t \in Secrets |->
       IF t = s THEN "usable"
       ELSE IF secret[t] = "usable" THEN "void" ELSE secret[t]]
  /\ UNCHANGED <<enrolled, revoked>>

Void ==
  /\ secret' \in [Secrets -> Worth]
  /\ Fades(secret, secret')
  /\ UNCHANGED <<enrolled, revoked>>

\* The one use of a secret; the device is new.
Spend(s, d) ==
  /\ secret[s] = "usable"
  /\ \A e \in enrolled : e[2] # d
  /\ secret' = [secret EXCEPT ![s] = "spent"]
  /\ enrolled' = enrolled \cup {<<s, d>>}
  /\ UNCHANGED revoked

Revoke(d) ==
  /\ d \notin revoked
  /\ \E e \in enrolled : e[2] = d
  /\ revoked' = revoked \cup {d}
  /\ UNCHANGED <<secret, enrolled>>

Next ==
  \/ \E s \in Secrets : Issue(s)
  \/ Void
  \/ \E s \in Secrets, d \in Devices : Spend(s, d)
  \/ \E d \in Devices : Revoke(d)

Spec == Init /\ [][Next]_vars

=============================================================================
