--------------------------- MODULE RelayContract ---------------------------
(***************************************************************************)
(* What the relay of C/kursivaya promises to its users: a client's values  *)
(* are handed to the managers, each value to at most one manager, and no   *)
(* manager sees the values of one client out of order.  A value may be     *)
(* lost (a crash, a departed manager), but never repeated or invented.     *)
(***************************************************************************)
EXTENDS Naturals, Sequences

CONSTANTS Clients, Managers

VARIABLES sent,      \* sent[c]: how many values client c has passed to send()
          pending,   \* values on their way
          received   \* received[m]: the values manager m has printed, in order

vars == <<sent, pending, received>>

Message == [from : Clients, no : Nat \ {0}]

Init == /\ sent = [c \in Clients |-> 0]
        /\ pending = {}
        /\ received = [m \in Managers |-> <<>>]

\* A client numbers its values 1, 2, ...; one sent to a dead server never gets under way.
Send(c) ==
  /\ sent' = [sent EXCEPT ![c] = sent[c] + 1]
  /\ pending' \in {pending, pending \cup {[from |-> c, no |-> sent[c] + 1]}}
  /\ UNCHANGED received

\* Manager m has seen nothing of this client numbered msg.no or later.
Fresh(msg, m) == \A i \in DOMAIN received[m] :
                    received[m][i].from = msg.from => received[m][i].no < msg.no

Deliver(m) ==
  \E msg \in pending :
    /\ Fresh(msg, m)
    /\ received' = [received EXCEPT ![m] = Append(@, msg)]
    /\ pending' = pending \ {msg}
    /\ UNCHANGED sent

Lose == /\ pending' \in SUBSET pending
        /\ UNCHANGED <<sent, received>>

Next == (\E c \in Clients : Send(c)) \/ (\E m \in Managers : Deliver(m)) \/ Lose

Spec == Init /\ [][Next]_vars
=============================================================================
