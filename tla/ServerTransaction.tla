------------------------- MODULE ServerTransaction -------------------------
(***************************************************************************)
(* What a forwarding handler owes the originator of a request: responses,  *)
(* in the order they are sent, of which only the last may be final (a      *)
(* status of 200 or more).  No request is answered twice, and nothing is   *)
(* sent after the final response.                                          *)
(***************************************************************************)
EXTENDS Naturals, Sequences

CONSTANTS
    Transactions,   \* server transactions
    Statuses        \* SIP status codes

VARIABLE sent       \* the responses handed to each transaction

Final(s) == s >= 200

Unanswered(t) == \A k \in DOMAIN sent[t] : ~ Final(sent[t][k])

Init == sent = [t \in Transactions |-> <<>>]

Respond(t, s) ==
    /\ Unanswered(t)
    /\ sent' = [sent EXCEPT ![t] = Append(@, s)]

Next == \E t \in Transactions, s \in Statuses : Respond(t, s)

Spec == Init /\ [][Next]_sent
=============================================================================
