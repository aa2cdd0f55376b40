---------------------------- MODULE ChainProofs ----------------------------
(***************************************************************************)
(* Proofs about Chain, for every number of clients, readers and senders    *)
(* and every set of transactions: its invariants, and that it implements   *)
(* Ledger.                                                                 *)
(***************************************************************************)
EXTENDS Chain, SequenceTheorems, FiniteSetTheorems, TLAPS

(* A client past Lock holds the mutex, so there is at most one.            *)
Inside == {"executing", "nonce", "committing"}
Mutex == \A c \in Clients : pc[c] \in Inside => holder = c

(* While a success waits for its nonce to be stored, its transaction is    *)
(* the next of its block and its nonce is still the stored one.            *)
NonceIsDue ==
  \A c \in Clients : pc[c] = "nonce" =>
    /\ Pos(c) <= Len(block[c])
    /\ Tx(c).nonce = nonce[Tx(c).sender]

Pending(s) == \E c \in Clients : pc[c] = "nonce" /\ Tx(c).sender = s

(* The stored nonce counts a sender's successes, but for the pending one.  *)
Counted ==
  \A s \in Senders : Len(done[s]) = IF Pending(s) THEN nonce[s] + 1 ELSE nonce[s]

\* A block is a sequence of transactions.
LEMMA BlocksAreSequences == Blocks \subseteq Seq(Txs)
BY ChainConstants, SeqDef DEF Blocks

\* The transaction a client is at is one of the envelopes.
LEMMA TxType ==
  ASSUME TypeOK, NEW c \in Clients, Pos(c) <= Len(block[c])
  PROVE  /\ Tx(c) \in Txs
         /\ Tx(c).sender \in Senders /\ Tx(c).nonce \in Nat
         /\ Pos(c) \in Nat
<1>1. block[c] \in Seq(Txs) /\ answer[c] \in Seq(BOOLEAN)
  BY DEF TypeOK
<1>2. Pos(c) \in 1..Len(block[c])
  BY <1>1 DEF Pos
<1>3. Tx(c) \in Txs
  BY <1>1, <1>2 DEF Tx
<1> QED BY <1>2, <1>3, ChainConstants DEF TxEnvelope

\* What a reader holds after it has read a set w of entries.
LEMMA ReaderRecord ==
  ASSUME NEW S, NEW w \in SUBSET S, NEW n \in Nat,
         NEW x \in [pc : {"idle", "read"}, entries : SUBSET S, height : Nat, reads : Nat]
  PROVE  [x EXCEPT !.pc = "read", !.entries = w, !.reads = n]
           \in [pc : {"idle", "read"}, entries : SUBSET S, height : Nat, reads : Nat]
OBVIOUS

\* Types are kept by every step; SetNonce needs to know that it is in a block.
LEMMA TypeStep ==
  ASSUME TypeOK, NonceIsDue, [Next]_vars
  PROVE  TypeOK'
<1> USE DEF TypeOK, Steps
<1>1. ASSUME NEW c \in Clients, NEW txs \in Blocks, Submit(c, txs) PROVE TypeOK'
  BY <1>1, BlocksAreSequences DEF Submit
<1>2. ASSUME NEW c \in Clients, Lock(c) PROVE TypeOK'
  BY <1>2 DEF Lock
<1>3. ASSUME NEW c \in Clients, Reject(c) PROVE TypeOK'
  BY <1>3 DEF Reject, Answered
<1>4. ASSUME NEW c \in Clients, HandlerFails(c) PROVE TypeOK'
  <2>1. Write(height, Pos(c)) \in Origin
    BY <1>4, TxType DEF HandlerFails, Write, Origin
  <2>2. answer' \in [Clients -> Seq(BOOLEAN)]
    BY <1>4 DEF HandlerFails, Answered
  <2> QED BY <1>4, <2>1, <2>2 DEF HandlerFails
<1>5. ASSUME NEW c \in Clients, HandlerPanics(c) PROVE TypeOK'
  BY <1>5 DEF HandlerPanics
<1>6. ASSUME NEW c \in Clients, HandlerSucceeds(c) PROVE TypeOK'
  <2>1. Write(height, Pos(c)) \in Origin
    BY <1>6, TxType DEF HandlerSucceeds, Write, Origin
  <2>2. [tx |-> Tx(c), client |-> c, height |-> height, pos |-> Pos(c)] \in Success
    BY <1>6, TxType DEF HandlerSucceeds, Success
  <2>3. done' \in [Senders -> Seq(Success)]
    BY <1>6, <2>2, TxType DEF HandlerSucceeds
  <2> QED BY <1>6, <2>1, <2>3 DEF HandlerSucceeds
<1>7. ASSUME NEW c \in Clients, SetNonce(c) PROVE TypeOK'
  <2>1. Tx(c).sender \in Senders /\ Tx(c).nonce \in Nat
    BY <1>7, TxType DEF SetNonce, NonceIsDue
  <2>2. nonce' \in [Senders -> Nat]
    BY <1>7, <2>1 DEF SetNonce
  <2>3. answer' \in [Clients -> Seq(BOOLEAN)]
    BY <1>7 DEF SetNonce, Answered
  <2> QED BY <1>7, <2>2, <2>3 DEF SetNonce
<1>8. ASSUME NEW c \in Clients, EndBlock(c) PROVE TypeOK'
  <2>1. Write(height, 0) \in Origin
    BY DEF Write, Origin
  <2> QED BY <1>8, <2>1 DEF EndBlock
<1>9. ASSUME NEW c \in Clients, Commit(c) PROVE TypeOK'
  BY <1>9 DEF Commit
<1>10. ASSUME NEW r \in Readers, ReadEntries(r) PROVE TypeOK'
  <2> DEFINE R == [pc : {"idle", "read"}, entries : SUBSET Origin, height : Nat, reads : Nat]
             n == reader[r].reads + 1
             new == [reader[r] EXCEPT !.pc = "read", !.entries = writes, !.reads = n]
  <2>1. reader[r] \in R /\ writes \in SUBSET Origin
    OBVIOUS
  <2>2. n \in Nat
    BY <2>1
  <2>3. new \in R
    <3> HIDE DEF n
    <3> QED BY <2>1, <2>2, ReaderRecord
  <2>4. reader' = [reader EXCEPT ![r] = new]
    BY <1>10 DEF ReadEntries
  <2>5. reader' \in [Readers -> R]
    <3> HIDE DEF new, R
    <3>1. reader \in [Readers -> R]
      BY DEF R
    <3> QED BY <2>3, <2>4, <3>1
  <2> QED BY <1>10, <2>5 DEF ReadEntries
<1>11. ASSUME NEW r \in Readers, ReadHeight(r) PROVE TypeOK'
  BY <1>11 DEF ReadHeight
<1>12. CASE UNCHANGED vars
  BY <1>12 DEF vars
<1> QED BY <1>1, <1>2, <1>3, <1>4, <1>5, <1>6, <1>7, <1>8, <1>9, <1>10, <1>11, <1>12 DEF Next

\* Mutual exclusion is kept: Lock needs a free mutex, and only the client that
\* holds it lets go of it.
LEMMA MutexStep ==
  ASSUME TypeOK, Mutex, [Next]_vars
  PROVE  Mutex'
<1> USE ChainConstants DEF TypeOK, Mutex, Inside
<1>1. ASSUME NEW c \in Clients, NEW txs \in Blocks, Submit(c, txs) PROVE Mutex'
  BY <1>1 DEF Submit
<1>2. ASSUME NEW c \in Clients, Lock(c) PROVE Mutex'
  BY <1>2 DEF Lock
<1>3. ASSUME NEW c \in Clients, Reject(c) PROVE Mutex'
  BY <1>3 DEF Reject
<1>4. ASSUME NEW c \in Clients, HandlerFails(c) PROVE Mutex'
  BY <1>4 DEF HandlerFails
<1>5. ASSUME NEW c \in Clients, HandlerPanics(c) PROVE Mutex'
  BY <1>5 DEF HandlerPanics
<1>6. ASSUME NEW c \in Clients, HandlerSucceeds(c) PROVE Mutex'
  BY <1>6 DEF HandlerSucceeds
<1>7. ASSUME NEW c \in Clients, SetNonce(c) PROVE Mutex'
  BY <1>7 DEF SetNonce
<1>8. ASSUME NEW c \in Clients, EndBlock(c) PROVE Mutex'
  BY <1>8 DEF EndBlock
<1>9. ASSUME NEW c \in Clients, Commit(c) PROVE Mutex'
  BY <1>9 DEF Commit
<1>10. ASSUME NEW r \in Readers, ReadEntries(r) \/ ReadHeight(r) PROVE Mutex'
  BY <1>10 DEF ReadEntries, ReadHeight
<1>11. CASE UNCHANGED vars
  BY <1>11 DEF vars
<1> QED BY <1>1, <1>2, <1>3, <1>4, <1>5, <1>6, <1>7, <1>8, <1>9, <1>10, <1>11 DEF Next

\* A step that leaves nonces and successes alone, and neither moves a client to
\* or from a pending success nor touches its request.
LEMMA QuietStep ==
  ASSUME NonceIsDue, Counted, NoncesInSequence,
         nonce' = nonce, done' = done,
         \A c \in Clients : /\ pc'[c] = "nonce" <=> pc[c] = "nonce"
                            /\ pc[c] = "nonce" => block'[c] = block[c] /\ answer'[c] = answer[c]
  PROVE  NonceIsDue' /\ Counted' /\ NoncesInSequence'
<1>1. \A c \in Clients : pc[c] = "nonce" => Pos(c)' = Pos(c) /\ Tx(c)' = Tx(c)
  BY DEF Pos, Tx
<1>2. NonceIsDue'
  BY <1>1 DEF NonceIsDue
<1>3. \A s \in Senders : Pending(s)' <=> Pending(s)
  BY <1>1 DEF Pending
<1>4. Counted'
  BY <1>3 DEF Counted
<1>5. NoncesInSequence'
  BY DEF NoncesInSequence
<1> QED BY <1>2, <1>4, <1>5

\* A handler succeeds: the sender's next nonce takes effect and is pending.
LEMMA SuccessStep ==
  ASSUME TypeOK, Mutex, Counted, NoncesInSequence,
         NEW c \in Clients, HandlerSucceeds(c)
  PROVE  NonceIsDue' /\ Counted' /\ NoncesInSequence'
<1> DEFINE s == Tx(c).sender
           d == [tx |-> Tx(c), client |-> c, height |-> height, pos |-> Pos(c)]
<1>1. /\ pc[c] = "executing" /\ Pos(c) <= Len(block[c])
      /\ Tx(c).nonce = nonce[s] /\ s \in Senders /\ Tx(c).nonce \in Nat
      /\ Tx(c).timeoutHeight > 0 => ~(height > Tx(c).timeoutHeight)
  BY TxType DEF HandlerSucceeds, Admissible, NonceMatches, TimedOut
<1>2. \A e \in Clients : pc[e] # "nonce"
  BY <1>1 DEF Mutex, Inside
<1>3. \A e \in Clients : pc'[e] = "nonce" <=> e = c
  BY <1>2 DEF HandlerSucceeds, TypeOK
<1>4. Pos(c)' = Pos(c) /\ Tx(c)' = Tx(c) /\ block' = block /\ nonce' = nonce
  BY DEF HandlerSucceeds, Pos, Tx
<1>5. NonceIsDue'
  BY <1>1, <1>3, <1>4 DEF NonceIsDue
<1>6. \A t \in Senders : Len(done[t]) = nonce[t] /\ (Pending(t)' <=> t = s)
  BY <1>2, <1>3, <1>4 DEF Counted, Pending
<1>7. done' = [done EXCEPT ![s] = Append(@, d)] /\ done \in [Senders -> Seq(Success)]
  BY DEF HandlerSucceeds, TypeOK
<1>8. d \in Success
  BY <1>1, TxType DEF Success, TypeOK
<1>9. /\ done'[s] = Append(done[s], d) /\ done[s] \in Seq(Success)
      /\ \A t \in Senders : t # s => done'[t] = done[t]
  BY <1>1, <1>7
<1>10. /\ Len(done'[s]) = Len(done[s]) + 1
       /\ done'[s][Len(done[s]) + 1] = d
       /\ \A k \in 1..Len(done[s]) : done'[s][k] = done[s][k]
  BY <1>8, <1>9
<1>11. Counted'
  BY <1>4, <1>6, <1>9, <1>10 DEF Counted
<1>12. NoncesInSequence'
  <2> SUFFICES ASSUME NEW t \in Senders, NEW k \in 1..Len(done'[t])
               PROVE  /\ done'[t][k].tx.sender = t /\ done'[t][k].tx.nonce = k - 1
                      /\ done'[t][k].tx.timeoutHeight > 0 =>
                           done'[t][k].height <= done'[t][k].tx.timeoutHeight
    BY DEF NoncesInSequence
  <2>1. CASE t # s
    BY <2>1, <1>9 DEF NoncesInSequence
  <2>2. CASE t = s /\ k \in 1..Len(done[s])
    BY <2>2, <1>10 DEF NoncesInSequence
  <2>3. CASE t = s /\ k = Len(done[s]) + 1
    <3>1. k - 1 = nonce[s]
      BY <2>3, <1>1, <1>6, <1>9
    <3>2. Tx(c).timeoutHeight \in Nat /\ height \in Nat
      BY <1>1, TxType, ChainConstants DEF TxEnvelope, TypeOK
    <3> QED BY <2>3, <3>1, <3>2, <1>1, <1>10
  <2> QED BY <2>1, <2>2, <2>3, <1>9, <1>10
<1> QED BY <1>5, <1>11, <1>12

\* The nonce is stored: nothing is pending any more.
LEMMA NonceStep ==
  ASSUME TypeOK, Mutex, NonceIsDue, Counted, NoncesInSequence,
         NEW c \in Clients, SetNonce(c)
  PROVE  NonceIsDue' /\ Counted' /\ NoncesInSequence'
<1> DEFINE s == Tx(c).sender
<1>1. /\ pc[c] = "nonce" /\ Tx(c).nonce = nonce[s] /\ s \in Senders
      /\ nonce' = [nonce EXCEPT ![s] = Tx(c).nonce + 1] /\ done' = done
  BY TxType DEF SetNonce, NonceIsDue
<1>2. \A e \in Clients : pc[e] = "nonce" <=> e = c
  BY <1>1 DEF Mutex, Inside
<1>3. \A e \in Clients : pc'[e] # "nonce"
  BY <1>2 DEF SetNonce, TypeOK
<1>4. \A t \in Senders : ~Pending(t)' /\ (Pending(t) <=> t = s)
  BY <1>2, <1>3 DEF Pending
<1>5. Counted'
  BY <1>1, <1>4 DEF Counted, TypeOK
<1>6. NonceIsDue' /\ NoncesInSequence'
  BY <1>1, <1>3 DEF NonceIsDue, NoncesInSequence
<1> QED BY <1>5, <1>6

(* The inductive invariant.                                                *)
IInv == TypeOK /\ Mutex /\ NonceIsDue /\ Counted /\ NoncesInSequence

\* Every other step is quiet.
LEMMA InvStep ==
  ASSUME IInv, [Next]_vars
  PROVE  IInv'
<1> USE DEF IInv
<1> DEFINE Goal == NonceIsDue' /\ Counted' /\ NoncesInSequence'
<1>1. ASSUME NEW c \in Clients, NEW txs \in Blocks, Submit(c, txs) PROVE Goal
  <2>1. \A e \in Clients : /\ pc'[e] = "nonce" <=> pc[e] = "nonce"
                           /\ pc[e] = "nonce" => block'[e] = block[e] /\ answer'[e] = answer[e]
    BY <1>1 DEF Submit, TypeOK
  <2> QED BY <1>1, <2>1, QuietStep DEF Submit
<1>2. ASSUME NEW c \in Clients, Lock(c) PROVE Goal
  <2>1. \A e \in Clients : /\ pc'[e] = "nonce" <=> pc[e] = "nonce"
                           /\ pc[e] = "nonce" => block'[e] = block[e] /\ answer'[e] = answer[e]
    BY <1>2 DEF Lock, TypeOK
  <2> QED BY <1>2, <2>1, QuietStep DEF Lock
<1>3. ASSUME NEW c \in Clients, Reject(c) \/ HandlerFails(c) PROVE Goal
  <2>1. \A e \in Clients : /\ pc'[e] = "nonce" <=> pc[e] = "nonce"
                           /\ pc[e] = "nonce" => block'[e] = block[e] /\ answer'[e] = answer[e]
    BY <1>3 DEF Reject, HandlerFails, Answered, TypeOK
  <2> QED BY <1>3, <2>1, QuietStep DEF Reject, HandlerFails
<1>4. ASSUME NEW c \in Clients, HandlerPanics(c) \/ EndBlock(c) \/ Commit(c) PROVE Goal
  <2>1. \A e \in Clients : /\ pc'[e] = "nonce" <=> pc[e] = "nonce"
                           /\ pc[e] = "nonce" => block'[e] = block[e] /\ answer'[e] = answer[e]
    BY <1>4 DEF HandlerPanics, EndBlock, Commit, TypeOK
  <2> QED BY <1>4, <2>1, QuietStep DEF HandlerPanics, EndBlock, Commit
<1>5. ASSUME NEW c \in Clients, HandlerSucceeds(c) PROVE Goal
  BY <1>5, SuccessStep
<1>6. ASSUME NEW c \in Clients, SetNonce(c) PROVE Goal
  BY <1>6, NonceStep
<1>7. ASSUME NEW r \in Readers, ReadEntries(r) \/ ReadHeight(r) PROVE Goal
  BY <1>7, QuietStep DEF ReadEntries, ReadHeight
<1>8. ASSUME UNCHANGED vars PROVE Goal
  <2>1. /\ pc' = pc /\ block' = block /\ answer' = answer
        /\ nonce' = nonce /\ done' = done
    BY <1>8 DEF vars
  <2>2. \A e \in Clients : /\ pc'[e] = "nonce" <=> pc[e] = "nonce"
                           /\ pc[e] = "nonce" => block'[e] = block[e] /\ answer'[e] = answer[e]
    BY <2>1
  <2> QED BY <2>1, <2>2, QuietStep
<1>9. Goal
  BY <1>1, <1>2, <1>3, <1>4, <1>5, <1>6, <1>7, <1>8 DEF Next
<1> QED BY <1>9, TypeStep, MutexStep

LEMMA InvInit == Init => IInv
<1> SUFFICES ASSUME Init PROVE IInv
  OBVIOUS
<1>1. TypeOK
  BY DEF Init, TypeOK, Steps
<1>2. Mutex /\ NonceIsDue /\ Counted /\ NoncesInSequence
  BY DEF Init, Mutex, Inside, NonceIsDue, Counted, Pending, NoncesInSequence
<1> QED BY <1>1, <1>2 DEF IInv

\* The daemon's and the store's state stays well typed: in particular the stored
\* nonces stay naturals, because SetNonce only runs inside a block.
THEOREM TypeCorrect == Spec => []TypeOK
<1>1. IInv => TypeOK
  BY DEF IInv
<1> QED BY <1>1, InvInit, InvStep, PTL DEF Spec

\* However many clients race and whatever they send again, a sender's
\* transactions take effect in the order of their nonces, each nonce once, and
\* none above its timeout height.  The mutex is what makes it inductive: between
\* the nonce check and SetNonce nobody else can check.
THEOREM SequenceCorrect == Spec => []NoncesInSequence
<1>1. IInv => NoncesInSequence
  BY DEF IInv
<1> QED BY <1>1, InvInit, InvStep, PTL DEF Spec

(* No write comes from a block above the present height, and what a reader *)
(* holds is no younger than the height it reports or is about to report.   *)
NoWriteAbove == \A e \in writes : e.height <= height
ReadersBehind ==
  \A r \in Readers : \A e \in reader[r].entries :
    e.height <= IF reader[r].pc = "read" THEN height ELSE reader[r].height

\* The steps of clients: heights grow and writes carry the present one.
LEMMA ClientHeights ==
  ASSUME TypeOK, TypeOK', NoWriteAbove, ReadersBehind,
         reader' = reader, height' \in {height, height + 1},
         \A e \in writes' : e \in writes \/ e.height = height'
  PROVE  NoWriteAbove' /\ ReadersBehind'
<1>1. height \in Nat /\ height' \in Nat /\ height <= height'
  BY DEF TypeOK
<1>2. /\ \A e \in writes : e.height \in Nat
      /\ \A r \in Readers : \A e \in reader[r].entries : e.height \in Nat
  BY DEF TypeOK, Origin
<1>3. NoWriteAbove'
  BY <1>1, <1>2 DEF NoWriteAbove
<1>4. ReadersBehind'
  BY <1>1, <1>2 DEF ReadersBehind
<1> QED BY <1>3, <1>4

LEMMA HeightsStep ==
  ASSUME TypeOK, TypeOK', NoWriteAbove, ReadersBehind, [Next]_vars
  PROVE  NoWriteAbove' /\ ReadersBehind'
<1> DEFINE Goal == NoWriteAbove' /\ ReadersBehind'
<1>1. ASSUME NEW c \in Clients, NEW txs \in Blocks, Submit(c, txs) PROVE Goal
  BY <1>1, ClientHeights DEF Submit
<1>2. ASSUME NEW c \in Clients, Lock(c) PROVE Goal
  BY <1>2, ClientHeights DEF Lock
<1>3. ASSUME NEW c \in Clients,
             Reject(c) \/ HandlerPanics(c) \/ SetNonce(c) \/ Commit(c)
      PROVE  Goal
  BY <1>3, ClientHeights DEF Reject, HandlerPanics, SetNonce, Commit
<1>4. ASSUME NEW c \in Clients, HandlerFails(c) \/ HandlerSucceeds(c) \/ EndBlock(c)
      PROVE  Goal
  <2>1. /\ reader' = reader /\ height' = height
        /\ \A e \in writes' : e \in writes \/ e.height = height
    <3>1. /\ reader' = reader /\ height' = height
          /\ \/ writes' \in {writes, writes \cup {Write(height, Pos(c))}}
             \/ writes' \in {writes, writes \cup {Write(height, 0)}}
      BY <1>4 DEF HandlerFails, HandlerSucceeds, EndBlock
    <3>2. \A n : Write(height, n).height = height
      BY DEF Write
    <3> QED BY <3>1, <3>2
  <2> QED BY <2>1, ClientHeights
<1>5. ASSUME NEW r \in Readers, ReadEntries(r) PROVE Goal
  <2>1. /\ height' = height /\ writes' = writes
        /\ reader'[r].pc = "read" /\ reader'[r].entries = writes
        /\ \A q \in Readers : q # r => reader'[q] = reader[q]
    BY <1>5 DEF ReadEntries, TypeOK
  <2> QED BY <2>1 DEF NoWriteAbove, ReadersBehind
<1>6. ASSUME NEW r \in Readers, ReadHeight(r) PROVE Goal
  <2>1. /\ height' = height /\ writes' = writes /\ reader[r].pc = "read"
        /\ reader'[r].pc = "idle" /\ reader'[r].entries = reader[r].entries
        /\ reader'[r].height = height
        /\ \A q \in Readers : q # r => reader'[q] = reader[q]
    BY <1>6 DEF ReadHeight, TypeOK
  <2> QED BY <2>1 DEF NoWriteAbove, ReadersBehind
<1>7. ASSUME UNCHANGED vars PROVE Goal
  BY <1>7 DEF vars, NoWriteAbove, ReadersBehind
<1> QED BY <1>1, <1>2, <1>3, <1>4, <1>5, <1>6, <1>7 DEF Next

\* A prefix read in the middle of a block, without the mutex, is never reported
\* with a height below the block that wrote one of its entries: the height only
\* grows, and it is read after the entries.
THEOREM ReadsCorrect == Spec => []HeightCoversEntries
<1>1. Init => NoWriteAbove /\ ReadersBehind
  BY DEF Init, NoWriteAbove, ReadersBehind
<1>2. ReadersBehind => HeightCoversEntries
  BY DEF ReadersBehind, HeightCoversEntries
<1>3. TypeOK /\ TypeOK' /\ NoWriteAbove /\ ReadersBehind /\ [Next]_vars
        => NoWriteAbove' /\ ReadersBehind'
  BY HeightsStep
<1> QED BY <1>1, <1>2, <1>3, TypeCorrect, PTL DEF Spec

-----------------------------------------------------------------------------
(* What clients are told, and the ledger.                                  *)

(* A request is bounded, its answers are no more than its transactions and *)
(* start out empty, and whoever holds the mutex is in its block.           *)
Requests ==
  \A c \in Clients :
    /\ Len(block[c]) <= MaxTxs
    /\ Len(answer[c]) <= Len(block[c])
    /\ pc[c] \notin Inside => answer[c] = <<>>
    /\ holder = c => pc[c] \in Inside

Entry(c) == [tx |-> Tx(c), client |-> c, height |-> height, pos |-> Pos(c)]

(* What took effect in the open block comes before the present position,   *)
(* or is the success whose nonce is about to be stored.                    *)
Placed ==
  \A s \in Senders : \A k \in 1..Len(done[s]) :
    /\ done[s][k].height <= height
    /\ done[s][k].height = height => \A c \in Clients : holder = c =>
         \/ done[s][k].pos < Pos(c)
         \/ pc[c] = "nonce" /\ done[s][k].pos = Pos(c)

PendingIsPlaced ==
  \A c \in Clients : pc[c] = "nonce" =>
    \E k \in 1..Len(done[Tx(c).sender]) : done[Tx(c).sender][k] = Entry(c)

(* Whether transaction i of the request of c took effect in the open block.*)
TookEffect(c, i) ==
  \E k \in 1..Len(done[block[c][i].sender]) :
    done[block[c][i].sender][k] =
      [tx |-> block[c][i], client |-> c, height |-> height, pos |-> i]

Told ==
  \A c \in Clients : pc[c] \in Inside =>
    \A i \in 1..Len(answer[c]) : answer[c][i] <=> TookEffect(c, i)

\* A result is added to a client's answer, and to no other's.
LEMMA AnswerGrows ==
  ASSUME TypeOK, NEW c \in Clients, NEW ok \in BOOLEAN, Answered(c, ok)
  PROVE  /\ answer[c] \in Seq(BOOLEAN)
         /\ Len(answer'[c]) = Len(answer[c]) + 1
         /\ answer'[c][Len(answer[c]) + 1] = ok
         /\ \A i \in 1..Len(answer[c]) : answer'[c][i] = answer[c][i]
         /\ \A e \in Clients : e # c => answer'[e] = answer[e]
<1>1. answer[c] \in Seq(BOOLEAN) /\ answer'[c] = Append(answer[c], ok)
      /\ \A e \in Clients : e # c => answer'[e] = answer[e]
  BY DEF TypeOK, Answered
<1>2. Len(answer'[c]) = Len(answer[c]) + 1
  BY <1>1
<1>3. answer'[c][Len(answer[c]) + 1] = ok
  BY <1>1
<1>4. \A i \in 1..Len(answer[c]) : answer'[c][i] = answer[c][i]
  BY <1>1
<1> QED BY <1>1, <1>2, <1>3, <1>4

\* Requests keep their shape when a result is added.
LEMMA RequestsAnswered ==
  ASSUME IInv, Requests, NEW c \in Clients, NEW ok \in BOOLEAN, Answered(c, ok),
         Pos(c) <= Len(block[c]), block' = block, holder' = holder,
         pc'[c] \in Inside, \A e \in Clients : e # c => pc'[e] = pc[e]
  PROVE  Requests'
<1>1. TypeOK
  BY DEF IInv
<1> SUFFICES ASSUME NEW e \in Clients
             PROVE  /\ Len(block[e]) <= MaxTxs
                    /\ Len(answer'[e]) <= Len(block[e])
                    /\ pc'[e] \notin Inside => answer'[e] = <<>>
                    /\ holder = e => pc'[e] \in Inside
  BY DEF Requests
<1>2. CASE e = c
  BY <1>2, <1>1, AnswerGrows DEF Requests, Pos
<1>3. CASE e # c
  BY <1>3, <1>1, AnswerGrows DEF Requests
<1> QED BY <1>2, <1>3

\* Requests keep their shape.
LEMMA RequestsStep ==
  ASSUME IInv, Requests, [Next]_vars
  PROVE  Requests'
<1> USE ChainConstants DEF IInv, TypeOK, Requests, Inside
<1>1. ASSUME NEW c \in Clients, NEW txs \in Blocks, Submit(c, txs) PROVE Requests'
  <2>1. Len(txs) <= MaxTxs /\ txs \in Seq(Txs)
    BY BlocksAreSequences DEF Blocks
  <2> QED BY <1>1, <2>1 DEF Submit
<1>2. ASSUME NEW c \in Clients, Lock(c) PROVE Requests'
  BY <1>2 DEF Lock
<1>3. ASSUME NEW c \in Clients, Reject(c) PROVE Requests'
  BY <1>3, RequestsAnswered DEF Reject
<1>4. ASSUME NEW c \in Clients, HandlerFails(c) PROVE Requests'
  BY <1>4, RequestsAnswered DEF HandlerFails
<1>5. ASSUME NEW c \in Clients, HandlerPanics(c) PROVE Requests'
  BY <1>5 DEF HandlerPanics
<1>6. ASSUME NEW c \in Clients, HandlerSucceeds(c) PROVE Requests'
  BY <1>6 DEF HandlerSucceeds
<1>7. ASSUME NEW c \in Clients, SetNonce(c) PROVE Requests'
  BY <1>7, RequestsAnswered DEF SetNonce, NonceIsDue
<1>8. ASSUME NEW c \in Clients, EndBlock(c) PROVE Requests'
  BY <1>8 DEF EndBlock
<1>9. ASSUME NEW c \in Clients, Commit(c) PROVE Requests'
  BY <1>9 DEF Commit
<1>10. ASSUME NEW r \in Readers, ReadEntries(r) \/ ReadHeight(r) PROVE Requests'
  BY <1>10 DEF ReadEntries, ReadHeight
<1>11. CASE UNCHANGED vars
  BY <1>11 DEF vars
<1> QED BY <1>1, <1>2, <1>3, <1>4, <1>5, <1>6, <1>7, <1>8, <1>9, <1>10, <1>11 DEF Next

\* Entries of a log have a height and a position.
LEMMA EntryType ==
  ASSUME TypeOK, NEW s \in Senders, NEW k \in 1..Len(done[s])
  PROVE  done[s][k].height \in Nat /\ done[s][k].pos \in Nat
<1>1. done[s] \in Seq(Success)
  BY DEF TypeOK
<1>2. done[s][k] \in Success
  BY <1>1
<1> QED BY <1>2 DEF Success

\* Steps after which whoever holds the mutex held it before, at the same or an
\* earlier position, and nothing new took effect.
LEMMA PlacedKept ==
  ASSUME TypeOK, TypeOK', Placed, done' = done, height' = height,
         \A c \in Clients : holder' = c =>
           /\ holder = c
           /\ Len(answer[c]) <= Len(answer'[c])
           /\ pc[c] = "nonce" => pc'[c] = "nonce" \/ Len(answer[c]) < Len(answer'[c])
  PROVE  Placed'
<1> SUFFICES ASSUME NEW s \in Senders, NEW k \in 1..Len(done[s])
             PROVE  /\ done[s][k].height <= height
                    /\ done[s][k].height = height => \A c \in Clients : holder' = c =>
                         \/ done[s][k].pos < Pos(c)'
                         \/ pc'[c] = "nonce" /\ done[s][k].pos = Pos(c)'
  BY DEF Placed
<1>1. done[s][k].height <= height
  BY DEF Placed
<1>2. done[s][k].pos \in Nat
  BY EntryType
<1>3. ASSUME done[s][k].height = height, NEW c \in Clients, holder' = c
      PROVE  \/ done[s][k].pos < Pos(c)'
             \/ pc'[c] = "nonce" /\ done[s][k].pos = Pos(c)'
  <2>1. \/ done[s][k].pos < Pos(c)
        \/ pc[c] = "nonce" /\ done[s][k].pos = Pos(c)
    BY <1>3 DEF Placed
  <2>2. Len(answer[c]) \in Nat /\ Len(answer'[c]) \in Nat
    BY DEF TypeOK
  <2> QED BY <1>2, <1>3, <2>1, <2>2 DEF Pos
<1> QED BY <1>1, <1>3

\* A success is placed at the present position.
LEMMA SuccessPlaced ==
  ASSUME IInv, NEW c \in Clients, HandlerSucceeds(c)
  PROVE  /\ pc[c] = "executing" /\ holder = c
         /\ Tx(c).sender \in Senders /\ Tx(c) \in Txs /\ Pos(c) \in Nat
         /\ done[Tx(c).sender] \in Seq(Success)
         /\ Len(done'[Tx(c).sender]) = Len(done[Tx(c).sender]) + 1
         /\ done'[Tx(c).sender][Len(done[Tx(c).sender]) + 1] = Entry(c)
         /\ \A k \in 1..Len(done[Tx(c).sender]) :
              done'[Tx(c).sender][k] = done[Tx(c).sender][k]
         /\ \A t \in Senders : t # Tx(c).sender => done'[t] = done[t]
<1> DEFINE s == Tx(c).sender
<1>1. pc[c] = "executing" /\ Pos(c) <= Len(block[c]) /\ holder = c
  BY DEF HandlerSucceeds, IInv, Mutex, Inside
<1>2. Tx(c) \in Txs /\ s \in Senders /\ Pos(c) \in Nat
  BY <1>1, TxType DEF IInv
<1>3. Entry(c) \in Success
  BY <1>2 DEF Entry, Success, IInv, TypeOK
<1>4. /\ done'[s] = Append(done[s], Entry(c)) /\ done[s] \in Seq(Success)
      /\ \A t \in Senders : t # s => done'[t] = done[t]
  BY <1>2 DEF HandlerSucceeds, IInv, TypeOK, Entry
<1> HIDE DEF s
<1>5. /\ Len(done'[s]) = Len(done[s]) + 1
      /\ done'[s][Len(done[s]) + 1] = Entry(c)
      /\ \A k \in 1..Len(done[s]) : done'[s][k] = done[s][k]
  BY <1>3, <1>4
<1> QED BY <1>1, <1>2, <1>4, <1>5 DEF s

LEMMA PlacedStep ==
  ASSUME IInv, IInv', Requests, Placed, [Next]_vars
  PROVE  Placed'
<1>1. TypeOK /\ TypeOK'
  BY DEF IInv
<1>2. \A c \in Clients : Len(answer[c]) \in Nat /\ Len(answer'[c]) \in Nat
  BY <1>1 DEF TypeOK
<1>3. ASSUME NEW c \in Clients, NEW txs \in Blocks, Submit(c, txs) PROVE Placed'
  <2>1. \A e \in Clients : pc[e] = "nonce" => pc'[e] = "nonce"
    BY <1>1, <1>3 DEF Submit, TypeOK
  <2> QED BY <1>1, <1>2, <1>3, <2>1, PlacedKept DEF Submit
<1>4. ASSUME NEW c \in Clients, Lock(c) PROVE Placed'
  <2>1. \A s \in Senders : \A k \in 1..Len(done[s]) :
          done[s][k].height \in Nat /\ done[s][k].height <= height
    BY <1>1, EntryType DEF Placed
  <2>2. height \in Nat /\ height' = height + 1 /\ done' = done
    BY <1>1, <1>4 DEF Lock, TypeOK
  <2>3. \A s \in Senders : \A k \in 1..Len(done[s]) :
          done[s][k].height <= height + 1 /\ done[s][k].height # height + 1
    BY <2>1, <2>2
  <2> QED BY <2>2, <2>3 DEF Placed
<1>5. ASSUME NEW c \in Clients, NEW ok \in BOOLEAN, Answered(c, ok),
             pc[c] \in Inside, done' = done, height' = height, holder' = holder
      PROVE  Placed'
  <2>1. holder = c
    BY <1>5 DEF IInv, Mutex
  <2>2. Len(answer'[c]) = Len(answer[c]) + 1
    BY <1>1, <1>5, AnswerGrows
  <2> QED BY <1>1, <1>2, <1>5, <2>1, <2>2, PlacedKept
<1>6. ASSUME NEW c \in Clients, HandlerPanics(c) \/ Commit(c) PROVE Placed'
  <2>1. \A e \in Clients : holder' # e
    BY <1>6, ChainConstants DEF HandlerPanics, Commit
  <2> QED BY <1>1, <1>6, <2>1, PlacedKept DEF HandlerPanics, Commit
<1>7. ASSUME NEW c \in Clients, HandlerSucceeds(c) PROVE Placed'
  <2> DEFINE s == Tx(c).sender
  <2>1. /\ height' = height /\ holder' = c /\ Pos(c)' = Pos(c) /\ pc'[c] = "nonce"
    BY <1>1, <1>7, SuccessPlaced DEF HandlerSucceeds, TypeOK, Pos
  <2>2. Entry(c).height = height /\ Entry(c).pos = Pos(c) /\ height \in Nat
    BY <1>1 DEF Entry, TypeOK
  <2> SUFFICES ASSUME NEW t \in Senders, NEW k \in 1..Len(done'[t])
               PROVE  /\ done'[t][k].height <= height
                      /\ done'[t][k].height = height =>
                           done'[t][k].pos < Pos(c) \/ done'[t][k].pos = Pos(c)
    BY <2>1 DEF Placed
  <2>3. \/ k \in 1..Len(done[t]) /\ done'[t][k] = done[t][k]
        \/ done'[t][k] = Entry(c)
    BY <1>7, SuccessPlaced
  <2>4. CASE k \in 1..Len(done[t]) /\ done'[t][k] = done[t][k]
    BY <2>4, <1>7, SuccessPlaced DEF Placed
  <2>5. CASE done'[t][k] = Entry(c)
    BY <2>5, <2>2
  <2> QED BY <2>3, <2>4, <2>5
<1>8. ASSUME NEW c \in Clients, EndBlock(c) PROVE Placed'
  <2>1. \A e \in Clients : holder' = e => e = c
    BY <1>8 DEF EndBlock, IInv, Mutex, Inside
  <2>2. pc[c] # "nonce"
    BY <1>8 DEF EndBlock
  <2> QED BY <1>1, <1>2, <1>8, <2>1, <2>2, PlacedKept DEF EndBlock
<1>9. ASSUME UNCHANGED <<height, holder, pc, answer, done>> PROVE Placed'
  BY <1>9 DEF Placed, Pos
<1>10. ASSUME NEW c \in Clients, Reject(c) \/ HandlerFails(c) \/ SetNonce(c) PROVE Placed'
  BY <1>5, <1>10 DEF Reject, HandlerFails, SetNonce, Inside
<1>11. ASSUME NEW r \in Readers, ReadEntries(r) \/ ReadHeight(r) PROVE Placed'
  BY <1>9, <1>11 DEF ReadEntries, ReadHeight
<1>12. CASE UNCHANGED vars
  BY <1>9, <1>12 DEF vars
<1> QED BY <1>3, <1>4, <1>6, <1>7, <1>8, <1>10, <1>11, <1>12 DEF Next

\* The success whose nonce is pending is in its sender's log.
LEMMA PendingStep ==
  ASSUME IInv, PendingIsPlaced, [Next]_vars
  PROVE  PendingIsPlaced'
<1>1. TypeOK /\ Mutex
  BY DEF IInv
<1>2. ASSUME \A e \in Clients : pc'[e] = "nonce" =>
               pc[e] = "nonce" /\ answer'[e] = answer[e] /\ block'[e] = block[e],
             done' = done, height' = height
      PROVE  PendingIsPlaced'
  BY <1>2 DEF PendingIsPlaced, Entry, Tx, Pos
<1>3. ASSUME NEW c \in Clients, NEW txs \in Blocks, Submit(c, txs) PROVE PendingIsPlaced'
  <2>1. \A e \in Clients : pc'[e] = "nonce" => pc[e] = "nonce" /\ block'[e] = block[e]
    BY <1>1, <1>3 DEF Submit, TypeOK
  <2> QED BY <1>2, <1>3, <2>1 DEF Submit
<1>4. ASSUME NEW c \in Clients, Lock(c) PROVE PendingIsPlaced'
  <2>1. \A e \in Clients : pc'[e] # "nonce"
    BY <1>1, <1>4, ChainConstants DEF Lock, TypeOK, Mutex, Inside
  <2> QED BY <2>1 DEF PendingIsPlaced
<1>5. ASSUME NEW c \in Clients,
             \/ Reject(c) \/ HandlerFails(c) \/ HandlerPanics(c) \/ SetNonce(c)
             \/ EndBlock(c) \/ Commit(c)
      PROVE  PendingIsPlaced'
  <2>1. \A e \in Clients : pc'[e] # "nonce"
    <3>1. pc[c] \in Inside /\ pc'[c] # "nonce"
          /\ \A e \in Clients : e # c => pc'[e] = pc[e]
      BY <1>1, <1>5 DEF Reject, HandlerFails, HandlerPanics, SetNonce, EndBlock, Commit,
                        TypeOK, Inside
    <3> QED BY <1>1, <3>1 DEF Mutex, Inside
  <2> QED BY <2>1 DEF PendingIsPlaced
<1>6. ASSUME NEW c \in Clients, HandlerSucceeds(c) PROVE PendingIsPlaced'
  <2>1. \A e \in Clients : pc'[e] = "nonce" => e = c
    BY <1>1, <1>6 DEF HandlerSucceeds, TypeOK, Mutex, Inside
  <2>2. Entry(c)' = Entry(c) /\ Tx(c)' = Tx(c)
    BY <1>6 DEF HandlerSucceeds, Entry, Tx, Pos
  <2>3. \E k \in 1..Len(done'[Tx(c).sender]) : done'[Tx(c).sender][k] = Entry(c)
    <3>1. Len(done[Tx(c).sender]) \in Nat
      BY <1>6, SuccessPlaced
    <3>2. Len(done[Tx(c).sender]) + 1 \in 1..Len(done'[Tx(c).sender])
      BY <1>6, <3>1, SuccessPlaced
    <3> QED BY <1>6, <3>2, SuccessPlaced
  <2> QED BY <2>1, <2>2, <2>3 DEF PendingIsPlaced
<1>7. ASSUME NEW r \in Readers, ReadEntries(r) \/ ReadHeight(r) PROVE PendingIsPlaced'
  BY <1>2, <1>7 DEF ReadEntries, ReadHeight
<1>8. CASE UNCHANGED vars
  BY <1>2, <1>8 DEF vars
<1> QED BY <1>3, <1>4, <1>5, <1>6, <1>7, <1>8 DEF Next

\* Steps that leave the answers of the open block and the logs alone.
LEMMA ToldKept ==
  ASSUME Told, done' = done, height' = height,
         \A c \in Clients : pc'[c] \in Inside =>
           pc[c] \in Inside /\ answer'[c] = answer[c] /\ block'[c] = block[c]
  PROVE  Told'
<1> SUFFICES ASSUME NEW c \in Clients, pc'[c] \in Inside, NEW i \in 1..Len(answer'[c])
             PROVE  answer'[c][i] <=> TookEffect(c, i)'
  BY DEF Told
<1>1. TookEffect(c, i)' <=> TookEffect(c, i)
  BY DEF TookEffect
<1>2. answer[c][i] <=> TookEffect(c, i)
  BY DEF Told
<1> QED BY <1>1, <1>2

\* A result is added that tells whether its transaction took effect.
LEMMA ToldAnswered ==
  ASSUME IInv, IInv', Told, NEW c \in Clients, NEW ok \in BOOLEAN, Answered(c, ok),
         pc[c] \in Inside, done' = done, height' = height, block' = block,
         ok <=> TookEffect(c, Pos(c)),
         \A e \in Clients : e # c => pc'[e] = pc[e]
  PROVE  Told'
<1>1. TypeOK
  BY DEF IInv
<1> SUFFICES ASSUME NEW e \in Clients, pc'[e] \in Inside, NEW i \in 1..Len(answer'[e])
             PROVE  answer'[e][i] <=> TookEffect(e, i)'
  BY DEF Told
<1>2. e = c
  BY DEF IInv, Mutex
<1>3. TookEffect(e, i)' <=> TookEffect(e, i)
  BY DEF TookEffect
<1>4. CASE i \in 1..Len(answer[c])
  <2>1. answer'[c][i] = answer[c][i]
    BY <1>1, <1>4, AnswerGrows
  <2>2. answer[c][i] <=> TookEffect(c, i)
    BY <1>4 DEF Told
  <2> QED BY <1>2, <1>3, <2>1, <2>2
<1>5. CASE i = Pos(c)
  <2>1. answer'[c][i] = ok
    BY <1>1, <1>5, AnswerGrows DEF Pos
  <2> QED BY <1>2, <1>3, <1>5, <2>1
<1>6. i \in 1..Len(answer[c]) \/ i = Pos(c)
  BY <1>1, <1>2, AnswerGrows DEF Pos
<1> QED BY <1>4, <1>5, <1>6

LEMMA ToldStep ==
  ASSUME IInv, IInv', Requests, Placed, PendingIsPlaced, Told, [Next]_vars
  PROVE  Told'
<1>1. TypeOK /\ Mutex
  BY DEF IInv
<1>2. ASSUME NEW c \in Clients, NEW txs \in Blocks, Submit(c, txs) PROVE Told'
  <2>1. \A e \in Clients : pc'[e] \in Inside => pc[e] \in Inside /\ block'[e] = block[e]
    BY <1>1, <1>2 DEF Submit, TypeOK, Inside
  <2> QED BY <1>2, <2>1, ToldKept DEF Submit
<1>3. ASSUME NEW c \in Clients, Lock(c) PROVE Told'
  <2>1. \A e \in Clients : pc'[e] \in Inside => e = c
    BY <1>1, <1>3, ChainConstants DEF Lock, TypeOK, Mutex, Inside
  <2>2. answer'[c] = <<>>
    BY <1>3 DEF Lock, Requests, Inside
  <2> QED BY <2>1, <2>2 DEF Told
<1>4. ASSUME NEW c \in Clients, Reject(c) \/ HandlerFails(c) PROVE Told'
  <2>1. /\ Answered(c, FALSE) /\ pc[c] = "executing" /\ Pos(c) <= Len(block[c])
        /\ done' = done /\ height' = height /\ block' = block /\ pc' = pc
    BY <1>4 DEF Reject, HandlerFails
  <2>2. holder = c /\ block[c][Pos(c)].sender \in Senders
    BY <1>1, <2>1, TxType DEF Mutex, Inside, Tx
  <2>3. ~TookEffect(c, Pos(c))
    <3> SUFFICES ASSUME NEW k \in 1..Len(done[block[c][Pos(c)].sender]),
                        done[block[c][Pos(c)].sender][k].height = height,
                        done[block[c][Pos(c)].sender][k].pos = Pos(c)
                 PROVE  FALSE
      BY DEF TookEffect
    <3>1. Pos(c) \in Nat
      BY <1>1 DEF TypeOK, Pos
    <3>2. done[block[c][Pos(c)].sender][k].pos < Pos(c)
      BY <2>1, <2>2 DEF Placed
    <3> QED BY <3>1, <3>2
  <2> QED BY <2>1, <2>3, ToldAnswered DEF Inside
<1>5. ASSUME NEW c \in Clients, HandlerPanics(c) \/ EndBlock(c) \/ Commit(c) PROVE Told'
  <2>1. \A e \in Clients : pc'[e] \in Inside =>
          pc[e] \in Inside /\ answer'[e] = answer[e] /\ block'[e] = block[e]
    BY <1>1, <1>5 DEF HandlerPanics, EndBlock, Commit, TypeOK, Inside
  <2> QED BY <1>5, <2>1, ToldKept DEF HandlerPanics, EndBlock, Commit
<1>6. ASSUME NEW c \in Clients, HandlerSucceeds(c) PROVE Told'
  <2>1. /\ answer' = answer /\ block' = block /\ height' = height
        /\ Pos(c) <= Len(block[c]) /\ pc[c] \in Inside
        /\ \A e \in Clients : pc'[e] \in Inside => e = c
    BY <1>1, <1>6, SuccessPlaced DEF HandlerSucceeds, TypeOK, Mutex, Inside
  <2> SUFFICES ASSUME NEW i \in 1..Len(answer[c])
               PROVE  answer[c][i] <=> TookEffect(c, i)'
    BY <2>1 DEF Told
  <2> DEFINE t == block[c][i].sender
             x == [tx |-> block[c][i], client |-> c, height |-> height, pos |-> i]
  <2>2. i < Pos(c) /\ i \in 1..Len(block[c]) /\ i # Pos(c)
    BY <1>1, <2>1 DEF TypeOK, Pos
  <2>3. t \in Senders
    <3>1. block[c][i] \in Txs
      BY <1>1, <2>2 DEF TypeOK
    <3> QED BY <3>1, ChainConstants DEF TxEnvelope
  <2>4. Entry(c) # x
    BY <2>2 DEF Entry
  <2> HIDE DEF t, x
  <2>5. (\E k \in 1..Len(done'[t]) : done'[t][k] = x)
          <=> (\E k \in 1..Len(done[t]) : done[t][k] = x)
    <3>1. CASE t # Tx(c).sender
      BY <1>6, <2>3, <3>1, SuccessPlaced
    <3>2. CASE t = Tx(c).sender
      <4>1. Len(done[t]) \in Nat /\ Len(done'[t]) = Len(done[t]) + 1
        BY <1>6, <3>2, SuccessPlaced
      <4>2. \A k \in 1..Len(done[t]) : done'[t][k] = done[t][k] /\ k \in 1..Len(done'[t])
        BY <1>6, <3>2, <4>1, SuccessPlaced
      <4>3. \A k \in 1..Len(done'[t]) : k \in 1..Len(done[t]) \/ done'[t][k] = Entry(c)
        BY <1>6, <3>2, <4>1, SuccessPlaced
      <4> QED BY <2>4, <4>2, <4>3
    <3> QED BY <3>1, <3>2
  <2>6. (TookEffect(c, i) <=> \E k \in 1..Len(done[t]) : done[t][k] = x)
        /\ (TookEffect(c, i)' <=> \E k \in 1..Len(done'[t]) : done'[t][k] = x)
    BY <2>1 DEF TookEffect, t, x
  <2>7. answer[c][i] <=> TookEffect(c, i)
    BY <2>1 DEF Told
  <2> QED BY <2>5, <2>6, <2>7
<1>7. ASSUME NEW c \in Clients, SetNonce(c) PROVE Told'
  <2>1. /\ Answered(c, TRUE) /\ pc[c] = "nonce"
        /\ done' = done /\ height' = height /\ block' = block
        /\ \A e \in Clients : e # c => pc'[e] = pc[e]
    BY <1>1, <1>7 DEF SetNonce, TypeOK
  <2>2. TookEffect(c, Pos(c))
    BY <2>1 DEF PendingIsPlaced, Entry, TookEffect, Tx
  <2> QED BY <2>1, <2>2, ToldAnswered DEF Inside
<1>8. ASSUME NEW r \in Readers, ReadEntries(r) \/ ReadHeight(r) PROVE Told'
  BY <1>8, ToldKept DEF ReadEntries, ReadHeight
<1>9. CASE UNCHANGED vars
  BY <1>9, ToldKept DEF vars
<1> QED BY <1>2, <1>3, <1>4, <1>5, <1>6, <1>7, <1>8, <1>9 DEF Next

(* The inductive invariant of the answers and of the refinement.           *)
LInv == IInv /\ Requests /\ Placed /\ PendingIsPlaced /\ Told

LEMMA LInvInit == Init => LInv
<1> SUFFICES ASSUME Init PROVE LInv
  OBVIOUS
<1>1. IInv
  BY InvInit
<1>2. Requests
  BY ChainConstants DEF Init, Requests
<1>3. Placed /\ PendingIsPlaced /\ Told
  BY DEF Init, Placed, PendingIsPlaced, Told, Inside
<1> QED BY <1>1, <1>2, <1>3 DEF LInv

LEMMA LInvStep ==
  ASSUME LInv, [Next]_vars
  PROVE  LInv'
<1> USE DEF LInv
<1>1. IInv'
  BY InvStep
<1>2. Requests' /\ PendingIsPlaced'
  BY RequestsStep, PendingStep
<1>3. Placed' /\ Told'
  BY <1>1, PlacedStep, ToldStep
<1> QED BY <1>1, <1>2, <1>3

\* A client is told code 0 for exactly the transactions of its block that took
\* effect there.  It rests on Placed: at the position being answered nothing took
\* effect yet, unless it is the success whose nonce is pending.
THEOREM AnswersCorrect == Spec => []AnswersAreTrue
<1>1. LInv => AnswersAreTrue
  <2> SUFFICES ASSUME LInv, NEW c \in Clients, NEW i \in 1..Len(answer[c]),
                      pc[c] \in {"executing", "committing"}
               PROVE  answer[c][i] <=> TookEffect(c, i)
    BY DEF AnswersAreTrue, TookEffect
  <2> QED BY DEF LInv, Told, Inside
<1> QED BY <1>1, LInvInit, LInvStep, PTL DEF Spec

\* A handler's success is the next entry of the ledger: of its sender, since the
\* stored nonce counts the log when nothing is pending, and in its block.
LEMMA SuccessIsAccept ==
  ASSUME LInv, NEW c \in Clients, HandlerSucceeds(c)
  PROVE  L!Accept(Tx(c).sender, Tx(c), Pos(c)) /\ Pos(c) \in 1..MaxTxs
<1> DEFINE s == Tx(c).sender
<1>1. TypeOK /\ Mutex /\ Counted /\ Requests /\ Placed
  BY DEF LInv, IInv
<1>2. pc[c] = "executing" /\ holder = c /\ s \in Senders /\ Tx(c) \in Txs
  BY SuccessPlaced DEF LInv
<1>3. holder # NoOne
  BY <1>2, ChainConstants
<1>4. Tx(c).nonce = Len(done[s])
  <2>1. Tx(c).nonce = nonce[s]
    BY DEF HandlerSucceeds, Admissible, NonceMatches
  <2>2. ~Pending(s)
    BY <1>1, <1>2 DEF Mutex, Inside, Pending
  <2> QED BY <1>1, <1>2, <2>1, <2>2 DEF Counted
<1>5. Tx(c).timeoutHeight > 0 => height <= Tx(c).timeoutHeight
  <2>1. Tx(c).timeoutHeight \in Nat /\ height \in Nat
    BY <1>1, <1>2, ChainConstants DEF TxEnvelope, TypeOK
  <2> QED BY <2>1 DEF HandlerSucceeds, Admissible, TimedOut
<1>6. L!Before(Pos(c))
  BY <1>1, <1>2 DEF L!Before, Placed
<1>7. /\ done' = [done EXCEPT ![s] =
           Append(@, [tx |-> Tx(c), client |-> holder, height |-> height, pos |-> Pos(c)])]
      /\ UNCHANGED <<holder, height, committed>>
  BY <1>2 DEF HandlerSucceeds
<1>8. L!Accept(s, Tx(c), Pos(c))
  BY <1>3, <1>4, <1>5, <1>6, <1>7 DEF L!Accept
<1>9. Pos(c) \in 1..MaxTxs
  <2>1. Len(answer[c]) \in Nat /\ Len(block[c]) \in Nat
    BY <1>1 DEF TypeOK
  <2>2. Pos(c) <= Len(block[c]) /\ Len(block[c]) <= MaxTxs
    BY <1>1 DEF HandlerSucceeds, Requests
  <2> QED BY <2>1, <2>2, ChainConstants DEF Pos
<1> QED BY <1>8, <1>9

\* A commit seals the ledger: nothing is pending, so the stored nonces are the
\* lengths of the logs.
LEMMA CommitIsSeal ==
  ASSUME LInv, NEW c \in Clients, Commit(c)
  PROVE  L!Seal
<1>1. TypeOK /\ Mutex /\ Counted
  BY DEF LInv, IInv
<1>2. pc[c] = "committing" /\ holder = c
  BY <1>1 DEF Commit, Mutex, Inside
<1>3. \A s \in Senders : ~Pending(s)
  BY <1>1, <1>2 DEF Mutex, Inside, Pending
<1>4. \A s \in Senders : nonce[s] = Len(done[s])
  BY <1>1, <1>3 DEF Counted
<1>5. nonce = [s \in Senders |-> Len(done[s])]
  BY <1>1, <1>4 DEF TypeOK
<1>6. committed'.nonce = nonce /\ holder' = NoOne /\ done' = done /\ height' = height
  BY DEF Commit
<1>7. holder # NoOne
  BY <1>2, ChainConstants
<1> QED BY <1>5, <1>6, <1>7 DEF L!Seal

\* Every step of the daemon is a step of the ledger or leaves it alone.
LEMMA StepRefines ==
  ASSUME LInv, [Next]_vars
  PROVE  [L!Next]_(L!vars)
<1> USE DEF L!vars
<1> DEFINE Goal == [L!Next]_(L!vars)
<1>1. ASSUME NEW c \in Clients, NEW txs \in Blocks, Submit(c, txs) PROVE Goal
  BY <1>1 DEF Submit
<1>2. ASSUME NEW c \in Clients, Lock(c) PROVE Goal
  BY <1>2 DEF Lock, L!Next, L!Open
<1>3. ASSUME NEW c \in Clients, HandlerSucceeds(c) PROVE Goal
  <2>1. Tx(c).sender \in Senders /\ Tx(c) \in Txs
    BY <1>3, SuccessPlaced DEF LInv
  <2> QED BY <1>3, <2>1, SuccessIsAccept DEF L!Next
<1>4. ASSUME NEW c \in Clients, Commit(c) PROVE Goal
  BY <1>4, CommitIsSeal DEF L!Next
<1>5. ASSUME NEW c \in Clients, HandlerPanics(c) PROVE Goal
  <2>1. holder # NoOne
    BY <1>5, ChainConstants DEF HandlerPanics, LInv, IInv, Mutex, Inside
  <2> QED BY <1>5, <2>1 DEF HandlerPanics, L!Next, L!Abandon
<1>6. ASSUME NEW c \in Clients, Reject(c) \/ HandlerFails(c) \/ SetNonce(c) \/ EndBlock(c)
      PROVE  Goal
  BY <1>6 DEF Reject, HandlerFails, SetNonce, EndBlock
<1>7. ASSUME NEW r \in Readers, ReadEntries(r) \/ ReadHeight(r) PROVE Goal
  BY <1>7 DEF ReadEntries, ReadHeight
<1>8. ASSUME UNCHANGED vars PROVE Goal
  BY <1>8 DEF vars
<1> QED BY <1>1, <1>2, <1>3, <1>4, <1>5, <1>6, <1>7, <1>8 DEF Next

\* The daemon, with its goroutines, mutex, stored nonces and commits, implements
\* the ledger, for any number of clients and any transactions.
THEOREM Refinement == Spec => ImplementsLedger
<1>1. Init => L!Init
  BY DEF Init, L!Init
<1>2. LInv /\ [Next]_vars => [L!Next]_(L!vars)
  BY StepRefines
<1> QED BY <1>1, <1>2, LInvInit, LInvStep, PTL DEF Spec, ImplementsLedger, L!Spec

-----------------------------------------------------------------------------
(* Every block opened so far has committed or panicked, but for the open   *)
(* one; and with no block open the app hash is that of the store, unless   *)
(* the last one panicked.                                                  *)
Versions ==
  /\ IsFiniteSet(abandoned) /\ abandoned \subseteq 1..height
  /\ committed.version + Cardinality(abandoned) =
       IF holder = NoOne THEN height + 1 ELSE height
  /\ holder # NoOne => height > 0 /\ height \notin abandoned

Covered ==
  holder = NoOne /\ height \notin abandoned =>
    committed.writes = writes /\ committed.nonce = nonce

LEMMA VersionsStep ==
  ASSUME IInv, Versions, Covered, [Next]_vars
  PROVE  Versions' /\ Covered'
<1> DEFINE Goal == Versions' /\ Covered'
<1>1. /\ TypeOK /\ Mutex /\ height \in Nat /\ committed.version \in Nat
      /\ Cardinality(abandoned) \in Nat
  BY FS_CardinalityType DEF IInv, TypeOK, Versions
<1>2. ASSUME UNCHANGED <<height, holder, committed, abandoned, writes, nonce>> PROVE Goal
  BY <1>2 DEF Versions, Covered
<1>3. ASSUME UNCHANGED <<height, holder, committed, abandoned>>, holder # NoOne PROVE Goal
  BY <1>3 DEF Versions, Covered
<1>4. ASSUME NEW c \in Clients, NEW txs \in Blocks, Submit(c, txs) PROVE Goal
  BY <1>2, <1>4 DEF Submit
<1>5. ASSUME NEW c \in Clients, Lock(c) PROVE Goal
  <2>1. /\ holder = NoOne /\ holder' # NoOne /\ height' = height + 1
        /\ committed' = committed /\ abandoned' = abandoned
    BY <1>5, ChainConstants DEF Lock
  <2>2. abandoned \subseteq 1..(height + 1) /\ height + 1 \notin abandoned
    BY <1>1 DEF Versions
  <2> QED BY <1>1, <2>1, <2>2 DEF Versions, Covered
<1>6. \A c \in Clients : pc[c] \in Inside => holder = c /\ holder # NoOne
  BY <1>1, ChainConstants DEF Mutex
<1>7. ASSUME NEW c \in Clients,
             \/ Reject(c) \/ HandlerFails(c) \/ HandlerSucceeds(c) \/ SetNonce(c)
             \/ EndBlock(c)
      PROVE  Goal
  <2>1. holder # NoOne
    BY <1>6, <1>7 DEF Reject, HandlerFails, HandlerSucceeds, SetNonce, EndBlock, Inside
  <2>2. UNCHANGED <<height, holder, committed, abandoned>>
    BY <1>7 DEF Reject, HandlerFails, HandlerSucceeds, SetNonce, EndBlock
  <2> QED BY <1>3, <2>1, <2>2
<1>8. ASSUME NEW c \in Clients, HandlerPanics(c) PROVE Goal
  <2>1. /\ holder # NoOne /\ holder' = NoOne /\ height' = height
        /\ committed' = committed /\ abandoned' = abandoned \cup {height}
    BY <1>6, <1>8 DEF HandlerPanics, Inside
  <2>2. height \notin abandoned /\ IsFiniteSet(abandoned)
    BY <2>1 DEF Versions
  <2>3. /\ IsFiniteSet(abandoned')
        /\ Cardinality(abandoned') = Cardinality(abandoned) + 1
    BY <2>1, <2>2, FS_AddElement
  <2>4. height \in 1..height
    BY <1>1, <2>1 DEF Versions
  <2> QED BY <1>1, <2>1, <2>3, <2>4 DEF Versions, Covered
<1>9. ASSUME NEW c \in Clients, Commit(c) PROVE Goal
  <2>1. /\ holder # NoOne /\ holder' = NoOne
        /\ UNCHANGED <<height, abandoned, writes, nonce>>
        /\ committed' = [writes |-> writes, nonce |-> nonce,
                         version |-> committed.version + 1]
    BY <1>6, <1>9 DEF Commit, Inside
  <2>2. /\ committed'.version = committed.version + 1
        /\ committed'.writes = writes /\ committed'.nonce = nonce
    BY <2>1
  <2> QED BY <1>1, <2>1, <2>2 DEF Versions, Covered
<1>10. ASSUME NEW r \in Readers, ReadEntries(r) \/ ReadHeight(r) PROVE Goal
  BY <1>2, <1>10 DEF ReadEntries, ReadHeight
<1>11. CASE UNCHANGED vars
  BY <1>2, <1>11 DEF vars
<1> QED BY <1>4, <1>5, <1>7, <1>8, <1>9, <1>10, <1>11 DEF Next

\* Whenever the mutex is free, the app hash covers the whole store unless the
\* last block panicked, and the store's version counts the blocks that committed.
THEOREM HashCorrect == Spec => []HashCoversStore
<1>1. Init => Versions /\ Covered
  <2> SUFFICES ASSUME Init PROVE Versions /\ Covered
    OBVIOUS
  <2>1. /\ height = 0 /\ holder = NoOne /\ abandoned = {} /\ writes = {}
        /\ committed.version = 1 /\ committed.writes = {} /\ committed.nonce = nonce
    BY DEF Init
  <2>2. IsFiniteSet(abandoned) /\ Cardinality(abandoned) = 0
    BY <2>1, FS_EmptySet
  <2> QED BY <2>1, <2>2 DEF Versions, Covered
<1>2. IInv /\ Versions /\ Covered /\ [Next]_vars => Versions' /\ Covered'
  BY VersionsStep
<1>3. IInv /\ Versions /\ Covered => HashCoversStore
  <2> SUFFICES ASSUME IInv, Versions, Covered, holder = NoOne
               PROVE  /\ committed.version = height + 1 - Cardinality(abandoned)
                      /\ height \notin abandoned =>
                           committed.writes = writes /\ committed.nonce = nonce
    BY DEF HashCoversStore
  <2>1. /\ height \in Nat /\ committed.version \in Nat /\ Cardinality(abandoned) \in Nat
        /\ committed.version + Cardinality(abandoned) = height + 1
    BY FS_CardinalityType DEF IInv, TypeOK, Versions
  <2> QED BY <2>1 DEF Covered
<1> QED BY <1>1, <1>2, <1>3, InvInit, InvStep, PTL DEF Spec
=============================================================================
