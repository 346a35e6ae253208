------------------------ MODULE DetectionCursorProofs ------------------------
(***************************************************************************)
(* Proofs about DetectionCursor, for any number of transactions and        *)
(* engines, any height, and any buffer deeper than the reorganisations.    *)
(***************************************************************************)
EXTENDS DetectionCursor, TLAPS

\* Below the window that starts at n everything is in the database, was missed
\* by a failing scan, or is among C.
Sound(n, C) ==
  \A t \in Tx : at[t] > 0 /\ at[t] + ReorgBuffer <= n => t \in recorded \cup skipped \cup C

\* Nobody has seen a height the chain never had, and the chain has not fallen
\* more than MaxReorg blocks behind its peak.
HeightsSeen ==
  /\ peak <= height + MaxReorg /\ last <= peak
  /\ \A e \in Engine : current[e] <= peak /\ scanned[e] <= peak /\ checkpoint[e] <= peak

\* The checkpoint is sound; so is the one an engine has read and, given the
\* rows of its open transaction, the one it is going to save.
WindowsSound ==
  /\ Sound(last, {})
  /\ \A e \in Engine :
       /\ Sound(scanned[e], {}) /\ Sound(checkpoint[e], found[e])
       /\ phase[e] = "save" => found[e] \subseteq recorded

CursorInv == TypeOK /\ HeightsSeen /\ WindowsSound

USE ReorgAssumption, CursorBounds

\* Nothing is scanned and nothing is in a block at the start.
LEMMA CursorInit == Init => CursorInv
BY DEF Init, CursorInv, TypeOK, HeightsSeen, WindowsSound, Sound, Height

-----------------------------------------------------------------------------
\* No step of the chain puts a payment below a window that was sound: a new
\* block is above every window.
LEMMA SoundStays ==
  ASSUME CursorInv, [Next]_vars, NEW n \in Height, n <= peak, NEW C, Sound(n, C)
  PROVE  \A t \in Tx : at'[t] > 0 /\ at'[t] + ReorgBuffer <= n =>
                         t \in recorded' \cup skipped' \cup C
<1> USE DEF CursorInv
<1>1. recorded \subseteq recorded' /\ skipped \subseteq skipped'
  BY DEF Next, vars, chain, cycle, Broadcast, Vanish, Mine, Reorg, Begin, ReadLast, Scan, DeepScan,
         DeepScanNotDue, Commit, Save, Abort, ScanTransfers
<1>2. CASE at' = at
  BY <1>1, <1>2 DEF Sound
<1>3. ASSUME NEW S \in SUBSET pool, Mine(S), NEW t \in Tx, at'[t] + ReorgBuffer <= n
      PROVE  at'[t] = at[t]
  <2>1. height + ReorgBuffer > n
    BY DEF TypeOK, HeightsSeen, Height
  <2> QED BY <1>3, <2>1 DEF Mine, TypeOK, Height
<1>4. ASSUME NEW h \in Height, Reorg(h), NEW t \in Tx, at'[t] > 0
      PROVE  at'[t] = at[t]
  BY <1>4 DEF Reorg
<1>5. CASE \E S \in SUBSET pool : Mine(S)
  BY <1>1, <1>3, <1>5 DEF Sound
<1>6. CASE \E h \in Height : Reorg(h)
  BY <1>1, <1>4, <1>6 DEF Sound
<1> QED
  BY <1>2, <1>5, <1>6 DEF Next, vars, chain, Broadcast, Vanish, Begin, ReadLast, Scan, DeepScan,
         DeepScanNotDue, Commit, Save, Abort

\* The steps of the chain leave the engines alone.
LEMMA ChainStep ==
  ASSUME CursorInv,
         (\E t \in Tx : Broadcast(t) \/ Vanish(t)) \/ (\E S \in SUBSET pool : Mine(S))
           \/ (\E h \in Height : Reorg(h))
  PROVE  CursorInv'
<1> USE DEF CursorInv
<1>1. UNCHANGED <<recorded, last, cycle, skipped, failures>>
  BY DEF Broadcast, Vanish, Mine, Reorg
<1>2. [Next]_vars
  BY DEF Next
<1>3. TypeOK' /\ peak' <= height' + MaxReorg /\ peak <= peak'
  <2>1. CASE \E t \in Tx : Broadcast(t) \/ Vanish(t)
    BY <1>1, <2>1 DEF TypeOK, HeightsSeen, Broadcast, Vanish, cycle, Height
  <2>2. ASSUME NEW S \in SUBSET pool, Mine(S)
        PROVE  TypeOK' /\ peak' <= height' + MaxReorg /\ peak <= peak'
    BY <1>1, <2>2 DEF TypeOK, HeightsSeen, Mine, cycle, Height
  <2>3. ASSUME NEW h \in Height, Reorg(h)
        PROVE  TypeOK' /\ peak' <= height' + MaxReorg /\ peak <= peak'
    BY <1>1, <2>3 DEF TypeOK, HeightsSeen, Reorg, cycle, Height
  <2> QED BY <2>1, <2>2, <2>3
<1>4. HeightsSeen'
  <2>1. peak \in Int /\ peak' \in Int /\ last \in Int
    BY <1>3 DEF TypeOK, Height
  <2>2. last' <= peak'
    BY <1>1, <1>3, <2>1 DEF HeightsSeen
  <2>3. ASSUME NEW e \in Engine
        PROVE  current'[e] <= peak' /\ scanned'[e] <= peak' /\ checkpoint'[e] <= peak'
    <3>1. current[e] \in Int /\ scanned[e] \in Int /\ checkpoint[e] \in Int
      BY DEF TypeOK, Height
    <3>2. current[e] <= peak /\ scanned[e] <= peak /\ checkpoint[e] <= peak
      BY DEF HeightsSeen
    <3> QED BY <1>1, <1>3, <2>1, <3>1, <3>2 DEF cycle
  <2> QED BY <1>3, <2>2, <2>3 DEF HeightsSeen
<1>5. WindowsSound'
  <2>1. Sound(last, {})'
    BY <1>1, <1>2, SoundStays DEF WindowsSound, Sound, TypeOK, HeightsSeen
  <2>2. ASSUME NEW e \in Engine
        PROVE  Sound(scanned[e], {})' /\ Sound(checkpoint[e], found[e])'
    <3>1. Sound(scanned[e], {})'
      BY <1>1, <1>2, SoundStays DEF WindowsSound, Sound, TypeOK, HeightsSeen, cycle
    <3>2. Sound(checkpoint[e], found[e])'
      BY <1>1, <1>2, SoundStays DEF WindowsSound, Sound, TypeOK, HeightsSeen, cycle
    <3> QED BY <3>1, <3>2
  <2> QED BY <1>1, <2>1, <2>2 DEF WindowsSound, cycle
<1> QED BY <1>3, <1>4, <1>5

-----------------------------------------------------------------------------
\* A step of engine e that leaves the chain alone keeps what the other engines
\* and the checkpoint rely on.
LEMMA EngineStep ==
  ASSUME CursorInv, [Next]_vars, NEW e \in Engine, UNCHANGED chain,
         \A d \in Engine \ {e} : /\ phase'[d] = phase[d] /\ current'[d] = current[d]
                                 /\ scanned'[d] = scanned[d] /\ checkpoint'[d] = checkpoint[d]
                                 /\ found'[d] = found[d],
         TypeOK', last' <= peak, Sound(last, {})',
         current'[e] <= peak, scanned'[e] <= peak, checkpoint'[e] <= peak,
         Sound(scanned[e], {})', Sound(checkpoint[e], found[e])',
         phase'[e] = "save" => found'[e] \subseteq recorded'
  PROVE  CursorInv'
<1> USE DEF CursorInv
<1>1. recorded \subseteq recorded'
  BY DEF Next, vars, chain, cycle, Broadcast, Vanish, Mine, Reorg, Begin, ReadLast, Scan, DeepScan,
         DeepScanNotDue, Commit, Save, Abort, ScanTransfers
<1>2. HeightsSeen'
  BY DEF HeightsSeen, chain
<1>3. ASSUME NEW d \in Engine \ {e}
      PROVE  Sound(scanned[d], {})' /\ Sound(checkpoint[d], found[d])'
  <2>1. Sound(scanned[d], {})'
    BY SoundStays DEF WindowsSound, Sound, TypeOK, HeightsSeen
  <2>2. Sound(checkpoint[d], found[d])'
    BY SoundStays DEF WindowsSound, Sound, TypeOK, HeightsSeen
  <2> QED BY <2>1, <2>2
<1>4. WindowsSound'
  BY <1>1, <1>3 DEF WindowsSound
<1> QED BY <1>2, <1>4

\* A sound window stays sound, when it and what is to be added stay.
LEMMA KeepsSound ==
  ASSUME CursorInv, [Next]_vars
  PROVE  /\ last' = last => Sound(last, {})'
         /\ \A e \in Engine : scanned'[e] = scanned[e] => Sound(scanned[e], {})'
         /\ \A e \in Engine : checkpoint'[e] = checkpoint[e] /\ found[e] \subseteq found'[e] =>
              Sound(checkpoint[e], found[e])'
         /\ \A e \in Engine : scanned'[e] = 0 => Sound(scanned[e], {})'
         /\ \A e \in Engine : checkpoint'[e] = 0 => Sound(checkpoint[e], found[e])'
<1> USE DEF CursorInv
<1>1. last' = last => Sound(last, {})'
  BY SoundStays DEF WindowsSound, Sound, TypeOK, HeightsSeen
<1>2. ASSUME NEW e \in Engine, scanned'[e] = scanned[e]
      PROVE  Sound(scanned[e], {})'
  BY <1>2, SoundStays DEF WindowsSound, Sound, TypeOK, HeightsSeen
<1>3. ASSUME NEW e \in Engine, checkpoint'[e] = checkpoint[e], found[e] \subseteq found'[e]
      PROVE  Sound(checkpoint[e], found[e])'
  BY <1>3, SoundStays DEF WindowsSound, Sound, TypeOK, HeightsSeen
<1>4. \A t \in Tx : at'[t] > 0 => ~ (at'[t] + ReorgBuffer <= 0)
  <2>1. \A t \in Tx : at[t] \in Int /\ height \in Int
    BY DEF TypeOK, Height
  <2>2. \A t \in Tx : at'[t] \in {at[t], height, 0}
    BY DEF TypeOK, Next, vars, chain, Broadcast, Vanish, Mine, Reorg, Begin, ReadLast, Scan,
           DeepScan, DeepScanNotDue, Commit, Save, Abort
  <2>3. \A t \in Tx : at'[t] \in Int
    BY <2>1, <2>2
  <2> QED BY <2>3
<1> QED BY <1>1, <1>2, <1>3, <1>4 DEF Sound

\* A cycle begins with the height of the chain as it is.
LEMMA BeginStep ==
  ASSUME CursorInv, NEW e \in Engine, Begin(e)
  PROVE  CursorInv'
<1> USE DEF CursorInv, Begin
<1>1. [Next]_vars
  BY DEF Next
<1>2. TypeOK' /\ current'[e] <= peak
  BY DEF TypeOK, chain, Height
<1> QED
  BY <1>1, <1>2, EngineStep, KeepsSound DEF TypeOK, HeightsSeen, WindowsSound

\* The window read is the one of the checkpoint, or reaches down to 0.
LEMMA ReadLastStep ==
  ASSUME CursorInv, NEW e \in Engine, ReadLast(e)
  PROVE  CursorInv'
<1> USE DEF CursorInv, ReadLast
<1>1. [Next]_vars
  BY DEF Next
<1>2. TypeOK'
  BY DEF TypeOK, chain, Height, Fails
<1>3. scanned'[e] \in {last, 0} /\ scanned'[e] <= peak
  BY DEF TypeOK, HeightsSeen, Height
<1>4. Sound(last, {})' /\ last' = last
  BY <1>1, KeepsSound
<1>5. Sound(scanned[e], {})'
  BY <1>1, <1>3, <1>4, KeepsSound DEF Sound
<1> QED
  BY <1>1, <1>2, <1>3, <1>4, <1>5, EngineStep, KeepsSound DEF TypeOK, HeightsSeen, WindowsSound

\* A scan keeps the types and takes back nothing that was found.
LEMMA ScanTypes ==
  ASSUME TypeOK, NEW e \in Engine, NEW from, ScanTransfers(e, from),
         UNCHANGED <<recorded>>
  PROVE  /\ found' \in [Engine -> SUBSET Tx] /\ skipped' \subseteq Tx
         /\ failures' \in 0 .. MaxFailures
         /\ found[e] \subseteq found'[e] /\ skipped \subseteq skipped'
         /\ \A d \in Engine \ {e} : found'[d] = found[d]
         /\ Transfers(from, current[e]) \subseteq recorded' \cup skipped' \cup found'[e]
<1> DEFINE new == Transfers(from, current[e]) \ (recorded \cup found[e])
<1>1. new \subseteq Tx
  BY DEF TypeOK, Transfers
<1>2. \E missed \in SUBSET new :
        /\ found' = [found EXCEPT ![e] = found[e] \cup (new \ missed)]
        /\ skipped' = skipped \cup missed
  <2>1. CASE found' = [found EXCEPT ![e] = found[e] \cup new] /\ skipped' = skipped
    <3> WITNESS {} \in SUBSET new
    <3> QED BY <2>1
  <2> QED BY <2>1 DEF ScanTransfers
<1>3. failures' \in 0 .. MaxFailures
  BY DEF ScanTransfers, Fails, TypeOK
<1> HIDE DEF new
<1>4. /\ found' \in [Engine -> SUBSET Tx] /\ skipped' \subseteq Tx
      /\ found[e] \subseteq found'[e] /\ skipped \subseteq skipped'
      /\ \A d \in Engine \ {e} : found'[d] = found[d]
      /\ new \subseteq skipped' \cup found'[e]
  BY <1>1, <1>2 DEF TypeOK
<1> QED BY <1>3, <1>4 DEF new

\* The regular scan closes the gap between its window and the height.
LEMMA ScanStep ==
  ASSUME CursorInv, NEW e \in Engine, Scan(e)
  PROVE  CursorInv'
<1> USE DEF CursorInv
<1>1. [Next]_vars
  BY DEF Next
<1>2. CASE current[e] > scanned[e]
  <2>1. /\ ScanTransfers(e, Back(scanned[e], ReorgBuffer)) /\ checkpoint' = [checkpoint EXCEPT ![e] = current[e]]
        /\ phase' = [phase EXCEPT ![e] = "deep"] /\ scanned' = [scanned EXCEPT ![e] = 0]
        /\ UNCHANGED <<chain, recorded, last, current, reorgs>>
    BY <1>2 DEF Scan
  <2>2. /\ found' \in [Engine -> SUBSET Tx] /\ skipped' \subseteq Tx
        /\ failures' \in 0 .. MaxFailures
        /\ found[e] \subseteq found'[e] /\ skipped \subseteq skipped'
        /\ \A d \in Engine \ {e} : found'[d] = found[d]
        /\ Transfers(Back(scanned[e], ReorgBuffer), current[e]) \subseteq recorded' \cup skipped' \cup found'[e]
    BY <2>1, ScanTypes
  <2>3. TypeOK'
    <3>1. /\ checkpoint' \in [Engine -> Height] /\ scanned' \in [Engine -> Height]
          /\ phase' \in [Engine -> {"idle", "read", "scan", "deep", "commit", "save"}]
      BY <2>1 DEF TypeOK, Height
    <3>2. found' \in [Engine -> SUBSET Tx] /\ skipped' \subseteq Tx /\ failures' \in 0 .. MaxFailures
      BY <2>2
    <3>3. UNCHANGED <<height, peak, at, pool, recorded, last, current, reorgs>>
      BY <2>1 DEF chain
    <3> QED BY <3>1, <3>2, <3>3 DEF TypeOK
  <2>4. ASSUME NEW t \in Tx, at[t] > 0, at[t] + ReorgBuffer <= current[e]
        PROVE  t \in recorded' \cup skipped' \cup found'[e]
    <3>1. at[t] \in Int /\ scanned[e] \in Int /\ current[e] \in Int
      BY DEF TypeOK, Height
    <3>2. CASE at[t] + ReorgBuffer <= scanned[e]
      BY <2>1, <2>2, <2>4, <3>2 DEF WindowsSound, Sound
    <3>3. CASE ~ (at[t] + ReorgBuffer <= scanned[e])
      <4>1. at[t] > Back(scanned[e], ReorgBuffer) /\ at[t] <= current[e]
        BY <2>4, <3>1, <3>3 DEF Back
      <4> QED BY <2>2, <4>1 DEF Transfers
    <3> QED BY <3>2, <3>3
  <2>5. Sound(checkpoint[e], found[e])'
    BY <2>1, <2>4 DEF Sound, chain, TypeOK
  <2>6. phase'[e] # "save" /\ current'[e] <= peak /\ checkpoint'[e] <= peak /\ scanned'[e] = 0 /\ 0 <= peak
    BY <2>1 DEF TypeOK, HeightsSeen, Height
  <2>7. last' <= peak /\ Sound(last, {})' /\ Sound(scanned[e], {})'
    BY <1>1, <2>1, <2>6, KeepsSound DEF HeightsSeen
  <2> QED
    BY <1>1, <2>1, <2>2, <2>3, <2>5, <2>6, <2>7, EngineStep DEF TypeOK
<1>3. CASE ~ (current[e] > scanned[e])
  <2>1. /\ UNCHANGED <<checkpoint, found, skipped, failures, chain, recorded, last, current, reorgs>>
        /\ phase' = [phase EXCEPT ![e] = "deep"] /\ scanned' = [scanned EXCEPT ![e] = 0]
    BY <1>3 DEF Scan
  <2>2. TypeOK' /\ phase'[e] # "save" /\ scanned'[e] = 0 /\ 0 <= peak
    BY <2>1 DEF TypeOK, chain, Height
  <2> QED
    BY <1>1, <2>1, <2>2, EngineStep, KeepsSound DEF TypeOK, HeightsSeen
<1> QED BY <1>2, <1>3

\* The deep scan only adds.
LEMMA DeepScanStep ==
  ASSUME CursorInv, NEW e \in Engine, DeepScan(e) \/ DeepScanNotDue(e)
  PROVE  CursorInv'
<1> USE DEF CursorInv
<1>1. [Next]_vars
  BY DEF Next
<1>2. /\ found' \in [Engine -> SUBSET Tx] /\ skipped' \subseteq Tx
      /\ failures' \in 0 .. MaxFailures
      /\ found[e] \subseteq found'[e]
      /\ \A d \in Engine \ {e} : found'[d] = found[d]
  BY ScanTypes DEF DeepScan, DeepScanNotDue, TypeOK
<1>3. /\ UNCHANGED <<chain, recorded, last, current, scanned, checkpoint, reorgs>>
      /\ phase' = [phase EXCEPT ![e] = "commit"]
  BY DEF DeepScan, DeepScanNotDue
<1>4. TypeOK' /\ phase'[e] # "save"
  BY <1>2, <1>3 DEF TypeOK, chain, Height
<1>5. last' <= peak /\ Sound(last, {})' /\ Sound(scanned[e], {})' /\ Sound(checkpoint[e], found[e])'
  BY <1>1, <1>2, <1>3, KeepsSound DEF HeightsSeen
<1> QED
  BY <1>1, <1>2, <1>3, <1>4, <1>5, EngineStep DEF TypeOK, HeightsSeen

\* The end of a cycle: what matters is that the new checkpoint is sound.
LEMMA EndsStep ==
  ASSUME CursorInv, [Next]_vars, NEW e \in Engine, Ends(e),
         UNCHANGED <<chain, recorded, skipped, reorgs>>, failures' \in 0 .. MaxFailures,
         last' \in Height, last' <= peak, Sound(last, {})'
  PROVE  CursorInv'
<1> USE DEF CursorInv
<1>1. TypeOK'
  BY DEF TypeOK, Ends, chain, Height
<1>2. /\ phase'[e] # "save" /\ current'[e] = 0 /\ scanned'[e] = 0 /\ checkpoint'[e] = 0
      /\ 0 <= peak
  BY DEF TypeOK, Ends, Height
<1>3. Sound(scanned[e], {})' /\ Sound(checkpoint[e], found[e])'
  BY <1>2, KeepsSound
<1> QED
  BY <1>1, <1>2, <1>3, EngineStep DEF TypeOK, Ends

\* What was found is recorded, or the whole cycle is given up.
LEMMA CommitStep ==
  ASSUME CursorInv, NEW e \in Engine, Commit(e)
  PROVE  CursorInv'
<1> USE DEF CursorInv
<1>1. [Next]_vars
  BY DEF Next
<1>2. last' = last /\ last \in Height /\ last <= peak /\ Sound(last, {})'
  BY <1>1, KeepsSound DEF Commit, HeightsSeen, TypeOK
<1>3. CASE found[e] \cap recorded = {}
  <2>1. /\ recorded' = recorded \cup found[e] /\ phase' = [phase EXCEPT ![e] = "save"]
        /\ UNCHANGED <<current, scanned, checkpoint, found, chain, last, skipped, failures, reorgs>>
    BY <1>3 DEF Commit
  <2>2. TypeOK' /\ found'[e] \subseteq recorded'
    BY <2>1 DEF TypeOK, chain, Height
  <2>3. Sound(scanned[e], {})' /\ Sound(checkpoint[e], found[e])'
    BY <1>1, <2>1, KeepsSound
  <2> QED
    BY <1>1, <1>2, <2>1, <2>2, <2>3, EngineStep DEF TypeOK, HeightsSeen
<1>4. CASE found[e] \cap recorded # {}
  BY <1>1, <1>2, <1>4, EndsStep DEF Commit, TypeOK
<1> QED BY <1>3, <1>4

\* The checkpoint moves to a height below which nothing is left out.
LEMMA SaveStep ==
  ASSUME CursorInv, NEW e \in Engine, Save(e)
  PROVE  CursorInv'
<1> USE DEF CursorInv
<1>1. [Next]_vars
  BY DEF Next
<1>2. Sound(checkpoint[e], found[e]) /\ found[e] \subseteq recorded
  BY DEF Save, WindowsSound
<1>3. UNCHANGED <<chain, recorded, skipped, reorgs>> /\ failures' \in 0 .. MaxFailures /\ Ends(e)
  BY DEF Save, Fails, TypeOK
<1>4. CASE last' = last
  BY <1>1, <1>3, <1>4, EndsStep, KeepsSound DEF TypeOK, HeightsSeen
<1>5. CASE last' = checkpoint[e]
  <2>1. Sound(last, {})'
    BY <1>2, <1>3, <1>5 DEF Sound, chain
  <2> QED
    BY <1>1, <1>3, <1>5, <2>1, EndsStep DEF TypeOK, HeightsSeen
<1> QED BY <1>4, <1>5 DEF Save

\* A cycle that fails leaves the checkpoint as it is.
LEMMA AbortStep ==
  ASSUME CursorInv, NEW e \in Engine, Abort(e)
  PROVE  CursorInv'
<1> USE DEF CursorInv
<1>1. [Next]_vars
  BY DEF Next
<1>2. last' = last /\ Sound(last, {})' /\ failures' \in 0 .. MaxFailures
  BY <1>1, KeepsSound DEF Abort, Fails, TypeOK
<1> QED
  BY <1>1, <1>2, EndsStep DEF Abort, TypeOK, HeightsSeen

\* The invariant of the cursor is inductive.
LEMMA CursorStep == CursorInv /\ [Next]_vars => CursorInv'
<1> SUFFICES ASSUME CursorInv, [Next]_vars PROVE CursorInv'
  OBVIOUS
<1>1. CASE UNCHANGED vars
  BY <1>1 DEF vars, chain, cycle, CursorInv, TypeOK, HeightsSeen, WindowsSound, Sound
<1>2. CASE Next
  BY <1>2, ChainStep, BeginStep, ReadLastStep, ScanStep, DeepScanStep, CommitStep, SaveStep,
     AbortStep DEF Next
<1> QED BY <1>1, <1>2

\* So it always holds.
LEMMA CursorInvariant == Spec => []CursorInv
BY CursorInit, CursorStep, PTL DEF Spec

-----------------------------------------------------------------------------
\* The variables keep their types: no checkpoint is beyond the chain.
THEOREM CursorTypeCorrect == Spec => []TypeOK
<1>1. CursorInv => TypeOK
  BY DEF CursorInv
<1> QED BY <1>1, CursorInvariant, PTL

\* However many engines work at a time and wherever their cycles crash, what
\* lies below the window of the saved checkpoint is recorded or was missed by
\* a scan that failed, as long as the chain never loses as many blocks as the
\* buffer has.
THEOREM NothingBelowTheWindow == Spec => []CheckpointSound
<1>1. CursorInv => CheckpointSound
  BY DEF CursorInv, WindowsSound, Sound, CheckpointSound
<1> QED BY <1>1, CursorInvariant, PTL
=============================================================================
