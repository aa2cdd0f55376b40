----------------------------- MODULE CapCascade -----------------------------
(***************************************************************************)
(* The loops of internal/modules/caputxo/module.go that CapUTXO states as  *)
(* one set: cascade recurses over cap/d child by child, and expireAtTime   *)
(* walks a snapshot of cap/u taken before its first write, so it saves     *)
(* records that an earlier cascade of the same loop may already have       *)
(* changed.  Both walk keys in the order of the ids, which are hashes:     *)
(* every order is possible, and every validator must end in the same state.*)
(***************************************************************************)
EXTENDS CapUTXO, Sequences, SequencesExt

\* A store to run the loops on, and the orders its keys may have.
StatusOf == [i \in Stored |-> utxo[i].status]

KeyOrders == SetToSeqs(Stored)

\* Every order is quantified over, so child ids are interchangeable.
OrderSymmetry == Permutations(ChildIds)

\* What the loops read and write of cap/u: a status for every id.
Stores == [Stored -> Statuses]

\* The body of cascade's loop for the key c: below is the call for a child.
Visit(below, status, parentID, acc, c) ==
  IF <<parentID, c>> \in derive /\ acc[c] = "UTXO_UNSPENT"
    THEN below[<<[acc EXCEPT ![c] = status], c>>]
    ELSE acc

\* The loop over the keys of cap/d in their order.
Walk(below, status, st, parentID, order) ==
  LET acc[k \in 0..Len(order)] ==
        IF k = 0 THEN st ELSE Visit(below, status, parentID, acc[k - 1], order[k])
  IN  acc[Len(order)]

\* Calls nested at most n deep.  A call changes a record that was UNSPENT, so they
\* nest no deeper than there are records.
Descend(status, order) ==
  LET down[n \in 0..Len(order)] ==
        [x \in Stores \X Stored |->
           IF n = 0 THEN x[1] ELSE Walk(down[n - 1], status, x[1], x[2], order)]
  IN  down

\* cascade(store, parentID, status): returns the store it leaves.
cascade(st, parentID, status, order) ==
  Descend(status, order)[Len(order)][<<st, parentID>>]

\* A loop that stops at the first capability not due, as if keys were sorted
\* by expiry.
expireUntilNotDue(st, t, order) ==
  LET due(i) == st[i] = "UTXO_UNSPENT" /\ utxo[i].expiresAt # 0 /\ utxo[i].expiresAt <= t
  IN [i \in Stored |->
        IF \E k \in DOMAIN order : order[k] = i /\ \A j \in 1..k : due(order[j])
          THEN "UTXO_EXPIRED" ELSE st[i]]

\* The body of expireAtTime's loop: the test reads the snapshot st, the write goes
\* to the store acc.
Sweep(st, t, acc, i, order) ==
  IF st[i] = "UTXO_UNSPENT" /\ utxo[i].expiresAt # 0 /\ utxo[i].expiresAt <= t
    THEN cascade([acc EXCEPT ![i] = "UTXO_EXPIRED"], i, "UTXO_EXPIRED", order)
    ELSE acc

expireAtTime(st, t, order) ==
  LET acc[k \in 0..Len(order)] ==
        IF k = 0 THEN st ELSE Sweep(st, t, acc[k - 1], order[k], order)
  IN  acc[Len(order)]

\* A revocation of the record's own children only.
revokeChildren(st, id, order) ==
  [i \in Stored |-> IF i = id \/ (<<id, i>> \in derive /\ st[i] = "UTXO_UNSPENT")
                     THEN "UTXO_REVOKED" ELSE st[i]]

\* revoke: the record itself, then the cascade.
revoke(st, id, order) ==
  cascade([st EXCEPT ![id] = "UTXO_REVOKED"], id, "UTXO_REVOKED", order)

(***************************************************************************)
(* In every state the program can reach and for every key order, revoking  *)
(* any capability leaves exactly the statuses of CapUTXO's Cascade: the    *)
(* recursion over cap/d computes the least closed set.                     *)
(***************************************************************************)
RevokeComputesCascade ==
  \A order \in KeyOrders, id \in Stored :
    revoke(StatusOf, id, order) =
      [i \in Stored |-> WithStatus(Cascade({id}), "UTXO_REVOKED")[i].status]

(***************************************************************************)
(* In every reachable state, for every key order and every block time, the *)
(* loop over the stale snapshot in expireAtTime ends in the one state that *)
(* CapUTXO's ExpireAtTime describes, so validators whose maps and hashes   *)
(* order the keys differently still agree.                                 *)
(***************************************************************************)
SweepIsOrderIndependent ==
  \A order \in KeyOrders, t \in now..MaxTime :
    expireAtTime(StatusOf, t, order) = [i \in Stored |-> ExpireAtTime(t)[i].status]
=============================================================================
