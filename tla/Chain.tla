------------------------------- MODULE Chain -------------------------------
(***************************************************************************)
(* Block execution: the transaction pipeline of internal/abci/lifecycle.go *)
(* and the daemon of cmd/aacpd/main.go that drives it.                     *)
(*                                                                         *)
(* Each HTTP request runs in its own goroutine.  A client's request is one *)
(* block: it waits for the daemon's mutex, takes the next height, executes *)
(* its transactions in order, runs EndBlock, commits and lets go of the    *)
(* mutex.  A reader (/api/state/prefix) reads the store without the mutex  *)
(* and takes it only for the height it reports.                            *)
(*                                                                         *)
(* What a module does with a transaction is one write, tagged with the     *)
(* block and the position it comes from, and a free choice of success,     *)
(* failure, or failure after the write (caputxo's spend_capability saves   *)
(* the expiry it discovers and then fails): nothing is rolled back.  A     *)
(* handler may also panic (fiat's addDecimal on an amount that does not    *)
(* parse): net/http recovers it, the deferred Unlock runs, and the block   *)
(* is left without EndBlock and Commit.                                    *)
(***************************************************************************)
EXTENDS Integers, Sequences, FiniteSets

CONSTANTS
  Clients,    \* goroutines that finalize blocks
  Readers,    \* goroutines that read a prefix
  Senders,    \* public keys
  Txs,        \* the transactions clients may submit, any number of times
  NoOne,      \* the mutex is free
  MaxTxs,     \* bound: transactions in one block
  MaxBlocks,  \* bound: blocks submitted
  MaxReads    \* bound: reads by one reader

\* types.TxEnvelope: wellFormed stands for DecodeTx and ValidateBasic, signed
\* for the Ed25519 check over SignBytes, kib for the payload's size.
TxEnvelope == [sender : Senders, nonce : Nat, gasLimit : Nat, kib : Nat,
               timeoutHeight : Nat, wellFormed : BOOLEAN, signed : BOOLEAN]

ASSUME ChainConstants ==
  /\ Txs \subseteq TxEnvelope
  /\ NoOne \notin Clients
  /\ MaxTxs \in Nat /\ MaxBlocks \in Nat /\ MaxReads \in Nat

VARIABLES
  height,    \* the daemon's block counter
  holder,    \* who holds the daemon's mutex
  pc,        \* where each client is
  block,     \* the transactions of each client's request
  answer,    \* its results so far: TRUE for code 0
  nonce,     \* nonce/<sender>
  writes,    \* everything else in the store, by origin
  committed, \* what the last app hash is a hash of
  reader,    \* each reader: what it holds and what it last reported
  done,      \* history: each sender's successful transactions, in order
  abandoned  \* history: the blocks that panicked

vars ==
  <<height, holder, pc, block, answer, nonce, writes, committed, reader, done, abandoned>>

-----------------------------------------------------------------------------
\* Position 0 stands for a block's EndBlock.
Write(h, pos) == [height |-> h, pos |-> pos]

\* Consume is called for the signature and for each KiB of payload begun.
GasContext(tx) == 1000 + 10 * tx.kib <= tx.gasLimit

NonceMatches(tx) == tx.nonce = nonce[tx.sender]

TimedOut(tx) == tx.timeoutHeight > 0 /\ height > tx.timeoutHeight

\* The checks of FinalizeBlock before a transaction reaches the router.
Admissible(tx) ==
  /\ tx.wellFormed
  /\ ~TimedOut(tx)
  /\ tx.signed
  /\ NonceMatches(tx)
  /\ GasContext(tx)

Pos(c) == Len(answer[c]) + 1
Tx(c) == block[c][Pos(c)]

Answered(c, ok) == answer' = [answer EXCEPT ![c] = Append(@, ok)]

-----------------------------------------------------------------------------
\* InitChain has committed once, before the first block.
Init ==
  /\ height = 0
  /\ holder = NoOne
  /\ pc = [c \in Clients |-> "idle"]
  /\ block = [c \in Clients |-> <<>>]
  /\ answer = [c \in Clients |-> <<>>]
  /\ nonce = [s \in Senders |-> 0]
  /\ writes = {}
  /\ committed = [writes |-> {}, nonce |-> nonce, version |-> 1]
  /\ reader = [r \in Readers |->
       [pc |-> "idle", entries |-> {}, height |-> 0, reads |-> 0]]
  /\ done = [s \in Senders |-> <<>>]
  /\ abandoned = {}

\* An HTTP request arrives at /api/finalize with its transactions.
Submit(c, txs) ==
  /\ pc[c] = "idle"
  /\ height + Cardinality({d \in Clients : pc[d] = "waiting"}) < MaxBlocks
  /\ pc' = [pc EXCEPT ![c] = "waiting"]
  /\ block' = [block EXCEPT ![c] = txs]
  /\ UNCHANGED <<height, holder, answer, nonce, writes, committed, reader, done, abandoned>>

\* A client that does not wait for the mutex.
LockWithoutWaiting(c) ==
  /\ pc[c] = "waiting"
  /\ holder' = c
  /\ height' = height + 1
  /\ pc' = [pc EXCEPT ![c] = "executing"]
  /\ UNCHANGED <<block, answer, nonce, writes, committed, reader, done, abandoned>>

\* mu.Lock and height++.
Lock(c) ==
  /\ pc[c] = "waiting"
  /\ holder = NoOne
  /\ holder' = c
  /\ height' = height + 1
  /\ pc' = [pc EXCEPT ![c] = "executing"]
  /\ UNCHANGED <<block, answer, nonce, writes, committed, reader, done, abandoned>>

\* A check fails: a FailResult and on to the next transaction.
Reject(c) ==
  /\ pc[c] = "executing" /\ Pos(c) <= Len(block[c])
  /\ ~Admissible(Tx(c))
  /\ Answered(c, FALSE)
  /\ UNCHANGED <<height, holder, pc, block, nonce, writes, committed, reader, done, abandoned>>

\* A failing handler whose error never reaches the result.
FailureReportedAsSuccess(c) ==
  /\ pc[c] = "executing" /\ Pos(c) <= Len(block[c])
  /\ Admissible(Tx(c))
  /\ writes' \in {writes, writes \cup {Write(height, Pos(c))}}
  /\ Answered(c, TRUE)
  /\ UNCHANGED <<height, holder, pc, block, nonce, committed, reader, done, abandoned>>

\* The router or the module's handler returns an error; what the handler had
\* written by then stays, and the nonce stays.
HandlerFails(c) ==
  /\ pc[c] = "executing" /\ Pos(c) <= Len(block[c])
  /\ Admissible(Tx(c))
  /\ writes' \in {writes, writes \cup {Write(height, Pos(c))}}
  /\ Answered(c, FALSE)
  /\ UNCHANGED <<height, holder, pc, block, nonce, committed, reader, done, abandoned>>

\* The handler writes and returns code 0; the nonce is not yet stored.
HandlerSucceeds(c) ==
  /\ pc[c] = "executing" /\ Pos(c) <= Len(block[c])
  /\ Admissible(Tx(c))
  /\ writes' = writes \cup {Write(height, Pos(c))}
  /\ done' = [done EXCEPT ![Tx(c).sender] =
       Append(@, [tx |-> Tx(c), client |-> c, height |-> height, pos |-> Pos(c)])]
  /\ pc' = [pc EXCEPT ![c] = "nonce"]
  /\ UNCHANGED <<height, holder, block, answer, nonce, committed, reader, abandoned>>

\* A panic that skips the unlock.
PanicAndKeepLock(c) ==
  /\ pc[c] = "executing" /\ Pos(c) <= Len(block[c])
  /\ Admissible(Tx(c))
  /\ abandoned' = abandoned \cup {height}
  /\ pc' = [pc EXCEPT ![c] = "idle"]
  /\ block' = [block EXCEPT ![c] = <<>>]
  /\ answer' = [answer EXCEPT ![c] = <<>>]
  /\ UNCHANGED <<height, holder, nonce, writes, committed, reader, done>>

\* The handler panics before it writes.  The mutex is released; the height and
\* what the block did so far stay, the client gets no answer.
HandlerPanics(c) ==
  /\ pc[c] = "executing" /\ Pos(c) <= Len(block[c])
  /\ Admissible(Tx(c))
  /\ abandoned' = abandoned \cup {height}
  /\ holder' = NoOne
  /\ pc' = [pc EXCEPT ![c] = "idle"]
  /\ block' = [block EXCEPT ![c] = <<>>]
  /\ answer' = [answer EXCEPT ![c] = <<>>]
  /\ UNCHANGED <<height, nonce, writes, committed, reader, done>>

\* A success that leaves the nonce where it was.
KeepNonce(c) ==
  /\ pc[c] = "nonce"
  /\ Answered(c, TRUE)
  /\ pc' = [pc EXCEPT ![c] = "executing"]
  /\ UNCHANGED <<height, holder, block, nonce, writes, committed, reader, done, abandoned>>

\* store.SetNonce(sender, expectedNonce + 1) and the result.
SetNonce(c) ==
  /\ pc[c] = "nonce"
  /\ nonce' = [nonce EXCEPT ![Tx(c).sender] = Tx(c).nonce + 1]
  /\ Answered(c, TRUE)
  /\ pc' = [pc EXCEPT ![c] = "executing"]
  /\ UNCHANGED <<height, holder, block, writes, committed, reader, done, abandoned>>

\* The modules' EndBlock hooks.  They are called in the order of a map
\* iteration, but each one writes under its own prefix only.
EndBlock(c) ==
  /\ pc[c] = "executing" /\ Pos(c) > Len(block[c])
  /\ writes' \in {writes, writes \cup {Write(height, 0)}}
  /\ pc' = [pc EXCEPT ![c] = "committing"]
  /\ UNCHANGED <<height, holder, block, answer, nonce, committed, reader, done, abandoned>>

\* A commit whose hash misses what EndBlock wrote.
CommitBeforeEndBlock(c) ==
  /\ pc[c] = "committing"
  /\ committed' = [writes |-> writes \ {Write(height, 0)}, nonce |-> nonce,
                   version |-> committed.version + 1]
  /\ holder' = NoOne
  /\ pc' = [pc EXCEPT ![c] = "idle"]
  /\ block' = [block EXCEPT ![c] = <<>>]
  /\ answer' = [answer EXCEPT ![c] = <<>>]
  /\ UNCHANGED <<height, nonce, writes, reader, done, abandoned>>

\* store.Commit, lastAppHash, mu.Unlock and the response.
Commit(c) ==
  /\ pc[c] = "committing"
  /\ committed' = [writes |-> writes, nonce |-> nonce,
                   version |-> committed.version + 1]
  /\ holder' = NoOne
  /\ pc' = [pc EXCEPT ![c] = "idle"]
  /\ block' = [block EXCEPT ![c] = <<>>]
  /\ answer' = [answer EXCEPT ![c] = <<>>]
  /\ UNCHANGED <<height, nonce, writes, reader, done, abandoned>>

\* IteratePrefix takes only the store's own lock.
ReadEntries(r) ==
  /\ reader[r].pc = "idle" /\ reader[r].reads < MaxReads
  /\ reader' = [reader EXCEPT ![r].pc = "read", ![r].entries = writes,
                              ![r].reads = @ + 1]
  /\ UNCHANGED <<height, holder, pc, block, answer, nonce, writes, committed, done, abandoned>>

\* A height read without the mutex, from the store instead of the daemon.
ReadVersion(r) ==
  /\ reader[r].pc = "read"
  /\ reader' = [reader EXCEPT ![r].pc = "idle", ![r].height = committed.version - 1]
  /\ UNCHANGED <<height, holder, pc, block, answer, nonce, writes, committed, done, abandoned>>

\* The height is read under the daemon's mutex, after the entries.
ReadHeight(r) ==
  /\ reader[r].pc = "read"
  /\ holder = NoOne
  /\ reader' = [reader EXCEPT ![r].pc = "idle", ![r].height = height]
  /\ UNCHANGED <<height, holder, pc, block, answer, nonce, writes, committed, done, abandoned>>

Blocks == UNION {[1..n -> Txs] : n \in 0..MaxTxs}

Next ==
  \/ \E c \in Clients, txs \in Blocks : Submit(c, txs)
  \/ \E c \in Clients : Lock(c)
  \/ \E c \in Clients : Reject(c)
  \/ \E c \in Clients : HandlerFails(c)
  \/ \E c \in Clients : HandlerPanics(c)
  \/ \E c \in Clients : HandlerSucceeds(c)
  \/ \E c \in Clients : SetNonce(c)
  \/ \E c \in Clients : EndBlock(c)
  \/ \E c \in Clients : Commit(c)
  \/ \E r \in Readers : ReadEntries(r)
  \/ \E r \in Readers : ReadHeight(r)

Spec == Init /\ [][Next]_vars

(***************************************************************************)
(* Every goroutine that can run does; sync.Mutex hands itself to a waiter  *)
(* that has been starved, so a goroutine that finds the mutex free again   *)
(* and again gets it.  Nobody is obliged to send a request.                *)
(***************************************************************************)
FairSpec ==
  /\ Spec
  /\ \A c \in Clients :
       /\ SF_vars(Lock(c))
       /\ WF_vars(Reject(c) \/ HandlerFails(c) \/ HandlerPanics(c) \/ HandlerSucceeds(c)
                  \/ SetNonce(c) \/ EndBlock(c) \/ Commit(c))
  /\ \A r \in Readers : SF_vars(ReadHeight(r))

-----------------------------------------------------------------------------
Steps == {"idle", "waiting", "executing", "nonce", "committing"}
Origin == [height : Nat, pos : Nat]
Success == [tx : Txs, client : Clients, height : Nat, pos : Nat]

(***************************************************************************)
(* Types of the daemon's and the store's state.                            *)
(***************************************************************************)
TypeOK ==
  /\ height \in Nat
  /\ holder \in Clients \cup {NoOne}
  /\ pc \in [Clients -> Steps]
  /\ block \in [Clients -> Seq(Txs)]
  /\ answer \in [Clients -> Seq(BOOLEAN)]
  /\ nonce \in [Senders -> Nat]
  /\ writes \subseteq Origin
  /\ committed \in [writes : SUBSET Origin, nonce : [Senders -> Nat], version : Nat]
  /\ reader \in [Readers -> [pc : {"idle", "read"}, entries : SUBSET Origin,
                             height : Nat, reads : Nat]]
  /\ done \in [Senders -> Seq(Success)]
  /\ abandoned \subseteq Nat

(***************************************************************************)
(* However requests race, are duplicated or are replayed, the transactions *)
(* of one sender that take effect carry the nonces 0, 1, 2, ... in order,  *)
(* none of them twice (the nonce check and SetNonce in FinalizeBlock), and *)
(* none in a block above its timeout_height, however long it waited for    *)
(* the mutex.                                                              *)
(***************************************************************************)
NoncesInSequence ==
  \A s \in Senders : \A k \in 1..Len(done[s]) :
    LET d == done[s][k] IN
    /\ d.tx.sender = s /\ d.tx.nonce = k - 1
    /\ d.tx.timeoutHeight > 0 => d.height <= d.tx.timeoutHeight

\* The ledger that the daemon's state stands for.
L == INSTANCE Ledger WITH log <- done, writer <- holder, sealed <- committed.nonce

(***************************************************************************)
(* The daemon, with its goroutines, mutex, stored nonces and commits,      *)
(* implements the ledger of module Ledger: each sender's log is what took  *)
(* effect, the writer is who holds the mutex, and what the app hash covers *)
(* is told by the nonces it was computed over.                             *)
(***************************************************************************)
ImplementsLedger == L!Spec

(***************************************************************************)
(* A client is told code 0 for exactly those transactions of its block     *)
(* that took effect there, even when the same transaction is in the block  *)
(* twice or in two racing blocks.                                          *)
(***************************************************************************)
AnswersAreTrue ==
  \A c \in Clients : \A i \in 1..Len(answer[c]) :
    pc[c] \in {"executing", "committing"} =>
      (answer[c][i] <=>
        \E k \in 1..Len(done[block[c][i].sender]) :
          done[block[c][i].sender][k] =
            [tx |-> block[c][i], client |-> c, height |-> height, pos |-> i])

(***************************************************************************)
(* Whenever the mutex is free (when /api/health reads the height and the   *)
(* app hash) the app hash is that of the whole store, nonces and EndBlock  *)
(* included, unless the last block panicked; the next block that commits   *)
(* covers what the panicked one left.  The store's version, which          *)
(* CometAdapter.Info reports as the height, is the number of blocks that   *)
(* committed, and one more for InitChain.                                  *)
(***************************************************************************)
HashCoversStore ==
  holder = NoOne =>
    /\ committed.version = height + 1 - Cardinality(abandoned)
    /\ height \notin abandoned => committed.writes = writes /\ committed.nonce = nonce

(***************************************************************************)
(* The height /api/state/prefix reports is never below the block that      *)
(* wrote one of the entries it returns, although the entries are read      *)
(* without the mutex, in the middle of a block.                            *)
(***************************************************************************)
HeightCoversEntries ==
  \A r \in Readers : reader[r].pc = "idle" =>
    \A e \in reader[r].entries : e.height <= reader[r].height

(***************************************************************************)
(* Every request comes to its end and every reader gets its height,        *)
(* whoever else keeps taking the mutex, even after a panic.                *)
(***************************************************************************)
EveryoneIsAnswered ==
  /\ \A c \in Clients : pc[c] = "waiting" ~> pc[c] = "idle"
  /\ \A r \in Readers : reader[r].pc = "read" ~> reader[r].pc = "idle"
=============================================================================
