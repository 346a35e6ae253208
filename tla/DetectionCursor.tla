--------------------------- MODULE DetectionCursor ---------------------------
(***************************************************************************)
(* Which blocks the detection engine has looked at.  The engine asks the   *)
(* wallet for the transfers of a window of blocks and of the mempool,      *)
(* records them in one database transaction, and then moves its checkpoint *)
(* in Redis.  Every process runs an engine.  A lease in Redis is meant to  *)
(* let one of them work at a time, but it runs out by itself, however long *)
(* the cycle takes, so it may always have run out: here an engine begins a *)
(* cycle whenever it likes.  In between the chain grows and is             *)
(* reorganised, and calls to the wallet, to Redis and to the database      *)
(* fail.                                                                   *)
(*                                                                         *)
(* What becomes of a recorded payment is the subject of Settlement.        *)
(***************************************************************************)
EXTENDS Integers, FiniteSets

CONSTANTS
  Tx,           \* transactions that pay to an invoice
  Engine,       \* the processes that run detection_engine_loop
  ReorgBuffer,  \* REORG_BUFFER
  DeepBlocks,   \* DEEP_SCAN_BLOCKS
  MaxReorg,     \* how many blocks the chain may lose
  MaxHeight,    \* bound: the height of the chain
  MaxFailures,  \* bound: failing calls and cycles
  MaxReorgs     \* bound: how often blocks are lost

\* The buffer is one block more than what the chain loses: the wallet leaves
\* out the first block of a window.
ASSUME ReorgAssumption ==
  /\ ReorgBuffer \in Nat /\ DeepBlocks \in Nat
  /\ MaxReorg \in Nat /\ MaxReorg < ReorgBuffer
ASSUME CursorBounds == MaxHeight \in Nat \ {0} /\ MaxFailures \in Nat /\ MaxReorgs \in Nat

VARIABLES
  height,      \* wallet: how many blocks there are
  peak,        \* wallet: how many there have been at most
  at,          \* wallet: the block of a transaction, 0 if it is in none
  pool,        \* wallet: the transactions in the mempool
  recorded,    \* database: the transactions with a payment row
  last,        \* Redis: ghostbill:last_scanned_height
  phase,       \* phase[e]: how far e is in its cycle
  current,     \* current[e]: current_height
  scanned,     \* scanned[e]: last_scanned
  checkpoint,  \* checkpoint[e]: checkpoint_to_save, 0 for None
  found,       \* found[e]: the rows e has added in its open transaction
  skipped,     \* history: transfers that a scan that failed would have returned
  failures, reorgs

chain == <<height, peak, at, pool>>
cycle == <<phase, current, scanned, checkpoint, found>>
vars  == <<chain, recorded, last, cycle, skipped, failures, reorgs>>

Height == 0 .. MaxHeight

TypeOK ==
  /\ height \in Height \ {0} /\ peak \in height .. MaxHeight
  /\ at \in [Tx -> Height] /\ pool \subseteq Tx
  /\ recorded \subseteq Tx /\ skipped \subseteq Tx
  /\ last \in Height
  /\ phase \in [Engine -> {"idle", "read", "scan", "deep", "commit", "save"}]
  /\ current \in [Engine -> Height] /\ scanned \in [Engine -> Height]
  /\ checkpoint \in [Engine -> Height]
  /\ found \in [Engine -> SUBSET Tx]
  /\ failures \in 0 .. MaxFailures /\ reorgs \in 0 .. MaxReorgs

Init ==
  /\ height = 1 /\ peak = 1
  /\ at = [t \in Tx |-> 0] /\ pool = {}
  /\ recorded = {} /\ last = 0
  /\ phase = [e \in Engine |-> "idle"]
  /\ current = [e \in Engine |-> 0] /\ scanned = [e \in Engine |-> 0]
  /\ checkpoint = [e \in Engine |-> 0]
  /\ found = [e \in Engine |-> {}]
  /\ skipped = {} /\ failures = 0 /\ reorgs = 0

-----------------------------------------------------------------------------
(* The chain, as the wallet shows it. *)

Broadcast(t) ==
  /\ at[t] = 0 /\ t \notin pool
  /\ pool' = pool \cup {t}
  /\ UNCHANGED <<height, peak, at, recorded, last, cycle, skipped, failures, reorgs>>

Vanish(t) ==
  /\ t \in pool
  /\ pool' = pool \ {t}
  /\ UNCHANGED <<height, peak, at, recorded, last, cycle, skipped, failures, reorgs>>

\* The next block, number "height", takes S from the mempool.
Mine(S) ==
  /\ height < MaxHeight /\ S \subseteq pool
  /\ at' = [t \in Tx |-> IF t \in S THEN height ELSE at[t]]
  /\ pool' = pool \ S
  /\ height' = height + 1
  /\ peak' = IF height' > peak THEN height' ELSE peak
  /\ UNCHANGED <<recorded, last, cycle, skipped, failures, reorgs>>

\* The blocks from number h on are gone, and their transactions are pending
\* again.  Bound: the chain grows again beyond what it was.
Reorg(h) ==
  /\ reorgs < MaxReorgs /\ peak < MaxHeight
  /\ h \in 1 .. height - 1 /\ h + MaxReorg >= peak
  /\ reorgs' = reorgs + 1
  /\ height' = h
  /\ at' = [t \in Tx |-> IF at[t] < h THEN at[t] ELSE 0]
  /\ pool' = pool \cup {t \in Tx : at[t] >= h}
  /\ UNCHANGED <<peak, recorded, last, cycle, skipped, failures>>

\* MoneroRPC.get_transfers: the mempool, and the blocks above "from" up to "to".
Transfers(from, to) == pool \cup {t \in Tx : at[t] > from /\ at[t] <= to}

-----------------------------------------------------------------------------
(* detection_engine_loop. *)

Fails == failures < MaxFailures /\ failures' = failures + 1

\* acquire_task_lease and get_height; without a height there is no cycle.
Begin(e) ==
  /\ phase[e] = "idle"
  /\ phase' = [phase EXCEPT ![e] = "read"]
  /\ current' = [current EXCEPT ![e] = height]
  /\ UNCHANGED <<chain, recorded, last, scanned, checkpoint, found, skipped, failures, reorgs>>

\* get_last_scanned_height: 0 if Redis fails.
ReadLast(e) ==
  /\ phase[e] = "read"
  /\ phase' = [phase EXCEPT ![e] = "scan"]
  /\ \/ scanned' = [scanned EXCEPT ![e] = last] /\ UNCHANGED failures
     \/ scanned' = [scanned EXCEPT ![e] = 0] /\ Fails
  /\ UNCHANGED <<chain, recorded, last, current, checkpoint, found, skipped, reorgs>>

\* _scan_transfers adds the transfers that are new to the transaction.  When
\* the wallet does not answer or a transfer raises, the error is logged and
\* the cycle goes on without what it missed.
ScanTransfers(e, from) ==
  LET new == Transfers(from, current[e]) \ (recorded \cup found[e]) IN
  \/ /\ found' = [found EXCEPT ![e] = found[e] \cup new]
     /\ UNCHANGED <<skipped, failures>>
  \/ \E missed \in (SUBSET new) \ {{}} :
       /\ Fails
       /\ found' = [found EXCEPT ![e] = found[e] \cup (new \ missed)]
       /\ skipped' = skipped \cup missed

Back(h, n) == IF h > n THEN h - n ELSE 0

\* Mutant: the checkpoint is saved before the commit.
Scan_SavesAtOnce(e) ==
  /\ phase[e] = "scan"
  /\ phase' = [phase EXCEPT ![e] = "deep"] /\ scanned' = [scanned EXCEPT ![e] = 0]
  /\ IF current[e] > scanned[e]
     THEN /\ ScanTransfers(e, Back(scanned[e], ReorgBuffer))
          /\ last' = current[e]
     ELSE UNCHANGED <<last, found, skipped, failures>>
  /\ UNCHANGED <<chain, recorded, checkpoint, current, reorgs>>

\* The regular scan, if there is a new block.  (last_scanned is not needed after.)
Scan(e) ==
  /\ phase[e] = "scan"
  /\ phase' = [phase EXCEPT ![e] = "deep"] /\ scanned' = [scanned EXCEPT ![e] = 0]
  /\ IF current[e] > scanned[e]
     THEN /\ ScanTransfers(e, Back(scanned[e], ReorgBuffer))
          /\ checkpoint' = [checkpoint EXCEPT ![e] = current[e]]
     ELSE UNCHANGED <<checkpoint, found, skipped, failures>>
  /\ UNCHANGED <<chain, recorded, last, current, reorgs>>

\* The deep scan.  It is due when DEEP_SCAN_INTERVAL has passed since the last
\* one, or since the process started; it counts as done also when it failed.
\* Mutant: it looks no further back than the regular scan.
DeepScan_Buffer(e) ==
  /\ phase[e] = "deep"
  /\ phase' = [phase EXCEPT ![e] = "commit"]
  /\ ScanTransfers(e, Back(current[e], ReorgBuffer))
  /\ UNCHANGED <<chain, recorded, last, current, scanned, checkpoint, reorgs>>
DeepScan(e) ==
  /\ phase[e] = "deep"
  /\ phase' = [phase EXCEPT ![e] = "commit"]
  /\ ScanTransfers(e, Back(current[e], DeepBlocks))
  /\ UNCHANGED <<chain, recorded, last, current, scanned, checkpoint, reorgs>>

DeepScanNotDue(e) ==
  /\ phase[e] = "deep"
  /\ phase' = [phase EXCEPT ![e] = "commit"]
  /\ UNCHANGED <<chain, recorded, last, current, scanned, checkpoint, found,
                 skipped, failures, reorgs>>

\* The cycle is over, and nothing of it is left.
Ends(e) ==
  /\ phase' = [phase EXCEPT ![e] = "idle"]
  /\ current' = [current EXCEPT ![e] = 0]
  /\ scanned' = [scanned EXCEPT ![e] = 0]
  /\ checkpoint' = [checkpoint EXCEPT ![e] = 0]
  /\ found' = [found EXCEPT ![e] = {}]

\* The commit.  A row that some other engine has added meanwhile breaks the
\* unique constraint and with it the whole cycle.
Commit(e) ==
  /\ phase[e] = "commit"
  /\ \/ /\ found[e] \cap recorded = {}
        /\ recorded' = recorded \cup found[e]
        /\ phase' = [phase EXCEPT ![e] = "save"]
        /\ UNCHANGED <<current, scanned, checkpoint, found>>
     \/ /\ found[e] \cap recorded # {}
        /\ Ends(e)
        /\ UNCHANGED recorded
  /\ UNCHANGED <<chain, last, skipped, failures, reorgs>>

\* save_last_scanned_height, if there has been a scan; Redis may fail.
Save(e) ==
  /\ phase[e] = "save"
  /\ \/ last' = (IF checkpoint[e] # 0 THEN checkpoint[e] ELSE last) /\ UNCHANGED failures
     \/ Fails /\ UNCHANGED last
  /\ Ends(e)
  /\ UNCHANGED <<chain, recorded, skipped, reorgs>>

\* An exception ends the cycle, or the process dies and is started again.
Abort(e) ==
  /\ phase[e] # "idle" /\ Fails
  /\ Ends(e)
  /\ UNCHANGED <<chain, recorded, last, skipped, reorgs>>

Next ==
  \/ \E t \in Tx : Broadcast(t) \/ Vanish(t)
  \/ \E S \in SUBSET pool : Mine(S)
  \/ \E h \in Height : Reorg(h)
  \/ \E e \in Engine :
       \/ Begin(e) \/ ReadLast(e) \/ Scan(e) \/ DeepScan(e) \/ DeepScanNotDue(e)
       \/ Commit(e) \/ Save(e) \/ Abort(e)

Spec == Init /\ [][Next]_vars

\* Some engine gets the lease and carries its cycle through, every so often
\* with a deep scan, and blocks keep coming.
Fairness ==
  /\ WF_vars(\E S \in SUBSET pool : Mine(S))
  /\ WF_vars(\E e \in Engine : Begin(e))
  /\ SF_vars(\E e \in Engine : DeepScan(e))
  /\ \A e \in Engine :
       /\ WF_vars(ReadLast(e)) /\ WF_vars(Scan(e))
       /\ WF_vars(DeepScan(e) \/ DeepScanNotDue(e))
       /\ WF_vars(Commit(e)) /\ WF_vars(Save(e))

FairSpec == Spec /\ Fairness

-----------------------------------------------------------------------------
(* Properties *)

\* What lies below the next window has been recorded, but for what a scan
\* that failed would have returned.  This holds whichever cycle crashes between
\* commit and checkpoint, with any number of engines at work at a time, and
\* across reorganisations less deep than the buffer.
CheckpointSound ==
  \A t \in Tx : at[t] > 0 /\ at[t] + ReorgBuffer <= last => t \in recorded \cup skipped

\* A payment in a block is in the end recorded, unless the block is lost.  If
\* a scan that should have returned it failed, the deep scan has to come before
\* the chain has left the payment too far behind.
MinedIsRecorded ==
  \A t \in Tx : at[t] > 0 ~>
    \/ at[t] = 0 \/ t \in recorded
    \/ t \in skipped /\ at[t] + DeepBlocks <= height
=============================================================================
