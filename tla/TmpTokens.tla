------------------------------- MODULE TmpTokens -------------------------------
(***************************************************************************)
(* The store of one-time tokens of internal/tmptokens/tmptokens.go.  It is   *)
(* in memory and behind one mutex, so each of its functions is one step; an  *)
(* operator here is the table a function leaves.  A token's time to live     *)
(* runs out at any moment.                                                   *)
(***************************************************************************)
EXTENDS Naturals

CONSTANTS TokenIds,    \* what a token is found by
          NoData,
          MaxTries     \* how often Check answers, 15 in the source

VARIABLE tokens        \* the token of each id

NoToken == [data |-> NoData, count |-> 0, expired |-> FALSE]

Live(id) == tokens[id] # NoToken /\ ~tokens[id].expired

Set(id, data) == [tokens EXCEPT ![id] = [data |-> data, count |-> 0, expired |-> FALSE]]
Deleted(id) == [tokens EXCEPT ![id] = NoToken]

\* Check answers, and counts; past the last try it deletes the token.
Answers(id) == Live(id) /\ tokens[id].count < MaxTries
Checked(id) == IF Answers(id) THEN [tokens EXCEPT ![id].count = @ + 1] ELSE Deleted(id)

\* Variant: the token stays.
GotTwice(id) == tokens

\* Get answers once: whatever it finds is deleted.
Got(id) == Deleted(id)

Expired(id) == [tokens EXCEPT ![id].expired = TRUE]
Clean == [id \in TokenIds |-> IF Live(id) THEN tokens[id] ELSE NoToken]
===============================================================================
