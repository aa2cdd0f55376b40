------------------------------- MODULE Ledger -------------------------------
(***************************************************************************)
(* What block execution promises: a ledger.  Every sender has a log of the *)
(* transactions of its that took effect.  One writer at a time opens a     *)
(* block and appends; a transaction is appended only as the next of its    *)
(* sender, after everything earlier in its block, and not above its        *)
(* timeout height.  A block is sealed, and then its app hash covers        *)
(* everything in the logs, or it is abandoned half-way.                    *)
(* Chain shows that the daemon implements it.                              *)
(***************************************************************************)
EXTENDS Integers, Sequences

CONSTANTS Clients, Senders, Txs, NoOne, MaxTxs   \* see Chain

VARIABLES
  log,     \* each sender's transactions, with the place each took effect at
  writer,  \* the client whose block is open
  height,  \* the blocks opened so far
  sealed   \* how much of each log the last app hash covers

vars == <<log, writer, height, sealed>>

Init ==
  /\ log = [s \in Senders |-> <<>>]
  /\ writer = NoOne
  /\ height = 0
  /\ sealed = [s \in Senders |-> 0]

Open(c) ==
  /\ writer = NoOne
  /\ writer' = c
  /\ height' = height + 1
  /\ UNCHANGED <<log, sealed>>

\* Everything in the logs comes before position pos of the open block.
Before(pos) ==
  \A s \in Senders : \A k \in 1..Len(log[s]) :
    log[s][k].height = height => log[s][k].pos < pos

Accept(s, tx, pos) ==
  /\ writer # NoOne
  /\ tx.sender = s /\ tx.nonce = Len(log[s])
  /\ tx.timeoutHeight > 0 => height <= tx.timeoutHeight
  /\ Before(pos)
  /\ log' = [log EXCEPT ![s] =
       Append(@, [tx |-> tx, client |-> writer, height |-> height, pos |-> pos])]
  /\ UNCHANGED <<writer, height, sealed>>

Seal ==
  /\ writer # NoOne
  /\ writer' = NoOne
  /\ sealed' = [s \in Senders |-> Len(log[s])]
  /\ UNCHANGED <<log, height>>

Abandon ==
  /\ writer # NoOne
  /\ writer' = NoOne
  /\ UNCHANGED <<log, height, sealed>>

Next ==
  \/ \E c \in Clients : Open(c)
  \/ \E s \in Senders, tx \in Txs, pos \in 1..MaxTxs : Accept(s, tx, pos)
  \/ Seal
  \/ Abandon

Spec == Init /\ [][Next]_vars
=============================================================================
