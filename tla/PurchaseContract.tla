-------------------------- MODULE PurchaseContract --------------------------
(***************************************************************************)
(* What the buyer's side promises a merchant, with no tables, locks or      *)
(* messages: a question (a priced proposal) is put to the merchant, gets at  *)
(* most one answer, and goods are bought only on a yes, once per question.   *)
(***************************************************************************)
CONSTANT Question

VARIABLES
    verdict,    \* the answer to each question
    bought      \* the questions whose goods a supplier has been asked to send

Answer == {"unasked", "asked", "yes", "no"}

Init ==
    /\ verdict = [q \in Question |-> "unasked"]
    /\ bought = {}

Ask(q) ==
    /\ verdict[q] = "unasked"
    /\ verdict' = [verdict EXCEPT ![q] = "asked"]
    /\ UNCHANGED bought

Reply(q, answer) ==
    /\ verdict[q] = "asked"
    /\ verdict' = [verdict EXCEPT ![q] = answer]
    /\ UNCHANGED bought

\* A question withdrawn in favour of a new one, in a single step.
Replace(q, r) ==
    /\ verdict[q] = "asked"
    /\ verdict[r] = "unasked"
    /\ verdict' = [verdict EXCEPT ![q] = "no", ![r] = "asked"]
    /\ UNCHANGED bought

Buy(q) ==
    /\ verdict[q] = "yes"
    /\ q \notin bought
    /\ bought' = bought \cup {q}
    /\ UNCHANGED verdict

Next ==
    \/ \E q \in Question :
          \/ Ask(q)
          \/ \E answer \in {"yes", "no"} : Reply(q, answer)
          \/ \E r \in Question : Replace(q, r)
          \/ Buy(q)

Spec == Init /\ [][Next]_<<verdict, bought>>
=============================================================================
