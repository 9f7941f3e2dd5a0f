------------------------------- MODULE Alerts -------------------------------
(***************************************************************************)
(* What a user may rely on, whichever kind of watch alerts: the abstract   *)
(* specification that ItemPriceWatch and RivenPriceWatch implement. There  *)
(* is no reconcile here, no cache, no queue and no patch, only what can be *)
(* seen from outside: the alerts that arrive and the offers the status of  *)
(* the watch names.                                                        *)
(*                                                                         *)
(* An alert and the status that records it are two events, and what lies   *)
(* between them may fail. So an offer is secured or not: no fault stands   *)
(* in the way of its record. Secured offers are not announced again, and   *)
(* each status that is written names all of them.                          *)
(***************************************************************************)
CONSTANT Offers

VARIABLES
    received,   \* the offers the user ever received an alert for
    known,      \* those without a reason to announce them again since
    secured,    \* those of them whose record no fault has put at risk
    listed      \* the offers the status names as alerted

alertVars == <<received, known, secured, listed>>

TypeOK ==
    /\ received \subseteq Offers
    /\ known \subseteq received
    /\ secured \subseteq known
    /\ listed \subseteq received

Init ==
    /\ received = {}
    /\ known = {}
    /\ secured = {}
    /\ listed = {}

\* An alert arrives. It may be the only one the watch keeps in mind, and its own
\* record may be at risk at once, when its answer is lost.
Announce(o) ==
    /\ o \notin secured
    /\ received' = received \cup {o}
    /\ o \in known'
    /\ known' \subseteq known \cup {o}
    /\ secured' \subseteq secured \cup {o}
    /\ secured' \subseteq known'
    /\ UNCHANGED listed

\* There is a reason to announce some offers again, or a fault puts the record of
\* some at risk.
Release ==
    /\ known' \subseteq known
    /\ secured' \subseteq secured
    /\ secured' \subseteq known'
    /\ UNCHANGED <<received, listed>>

\* A status is written: it names only offers the user was alerted about, and all
\* the secured ones.
Record ==
    /\ listed' \subseteq received
    /\ secured' \subseteq secured
    /\ secured' \subseteq listed'
    /\ UNCHANGED <<received, known>>

\* The watch is deleted, and with it everything it promised.
Forget ==
    /\ listed' = {}
    /\ known' = {}
    /\ secured' = {}
    /\ UNCHANGED received

Next ==
    \/ \E o \in Offers : Announce(o)
    \/ Release \/ Record \/ Forget

Spec == Init /\ [][Next]_alertVars

=============================================================================
