----------------------------- MODULE Mailboxes ------------------------------
(***************************************************************************)
(* What UDP sockets promise, with no handles, blocks, registry or          *)
(* microtasks: every socket is a mailbox.  Each datagram that arrives for  *)
(* it while it is open waits in it, and the one that has waited longest    *)
(* is delivered next, to this socket and no other, once; a box that is     *)
(* shut delivers nothing any more and is never opened again.               *)
(***************************************************************************)
EXTENDS Integers, Sequences

CONSTANT Socket

VARIABLES box,     \* [Socket -> "new", "open" or "shut"]
          arrived, \* the socket each datagram arrived for
          waiting, \* [Socket -> numbers of the datagrams not yet delivered]
          got      \* [Socket -> numbers of those delivered]

mailVars == <<box, arrived, waiting, got>>

MailInit ==
  /\ box = [s \in Socket |-> "new"]
  /\ arrived = <<>>
  /\ waiting = [s \in Socket |-> {}]
  /\ got = [s \in Socket |-> <<>>]

OpenBox(s) ==
  /\ box[s] = "new"
  /\ box' = [box EXCEPT ![s] = "open"]
  /\ UNCHANGED <<arrived, waiting, got>>

Arrive(s) ==
  /\ arrived' = Append(arrived, s)
  /\ waiting' = IF box[s] = "open" THEN [waiting EXCEPT ![s] = @ \cup {Len(arrived) + 1}]
                ELSE waiting
  /\ UNCHANGED <<box, got>>

Deliver(s) ==
  /\ box[s] = "open"
  /\ \E d \in waiting[s] :
       /\ \A e \in waiting[s] : d <= e
       /\ waiting' = [waiting EXCEPT ![s] = @ \ {d}]
       /\ got' = [got EXCEPT ![s] = Append(@, d)]
  /\ UNCHANGED <<box, arrived>>

\* One box when it is closed or its reader gives up, all of them in the end.
Shut(S) ==
  /\ \A s \in S : box[s] = "open"
  /\ box' = [s \in Socket |-> IF s \in S THEN "shut" ELSE box[s]]
  /\ waiting' = [s \in Socket |-> IF s \in S THEN {} ELSE waiting[s]]
  /\ UNCHANGED <<arrived, got>>

MailNext ==
  \/ \E s \in Socket : OpenBox(s) \/ Arrive(s) \/ Deliver(s)
  \/ \E S \in SUBSET Socket : Shut(S)

MailSpec == MailInit /\ [][MailNext]_mailVars
=============================================================================
