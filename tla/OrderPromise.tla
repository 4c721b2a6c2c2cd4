---------------------------- MODULE OrderPromise ----------------------------
(***************************************************************************)
(* What the queue of orders finished without a connection promises the     *)
(* person: an order kept on the phone leaves it only when the server has   *)
(* it or the person throws it away; the server has it once; and it does    *)
(* not lie on the phone for ever without a word: it goes, or it is shown   *)
(* with the reason why it does not.                                        *)
(***************************************************************************)
CONSTANTS Keys, Numbers

VARIABLES
    kept,    \* orders that lie on the phone
    shown,   \* those of them shown with a reason
    made     \* orders of the server: [key, number]

vars == <<kept, shown, made>>

HasOrder(k) == \E m \in made : m.key = k

Init == kept = {} /\ shown = {} /\ made = {}

Keep(k) ==
    /\ k \notin kept
    /\ kept' = kept \cup {k}
    /\ UNCHANGED <<shown, made>>

Make(k) ==
    /\ ~HasOrder(k)
    /\ \E n \in Numbers :
          /\ \A m \in made : m.number # n
          /\ made' = made \cup {[key |-> k, number |-> n]}
    /\ UNCHANGED <<kept, shown>>

Leave(k) ==
    /\ k \in kept
    /\ HasOrder(k)
    /\ kept' = kept \ {k}
    /\ shown' = shown \ {k}
    /\ UNCHANGED made

Show(k) ==
    /\ k \in kept \ shown
    /\ shown' = shown \cup {k}
    /\ UNCHANGED <<kept, made>>

\* The person's decisions about an order on the phone.
ThrowAway(k) ==
    /\ k \in kept
    /\ kept' = kept \ {k}
    /\ shown' = shown \ {k}
    /\ UNCHANGED made

TryAgain(k) ==
    /\ k \in shown
    /\ shown' = shown \ {k}
    /\ UNCHANGED <<kept, made>>

Next == \E k \in Keys :
    Keep(k) \/ Make(k) \/ Leave(k) \/ Show(k) \/ ThrowAway(k) \/ TryAgain(k)

\* What an order that lies there unexplained is owed.
Settle(k) == k \notin shown /\ (Leave(k) \/ Show(k))

Spec == Init /\ [][Next]_vars /\ \A k \in Keys : WF_vars(Settle(k))
=============================================================================
