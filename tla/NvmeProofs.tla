------------------------------ MODULE NvmeProofs ------------------------------
(* Theorems about the NVMe queue pair for every ring size, number of CIDs, *)
(* set of requests and number of timeouts.                                 *)
EXTENDS Nvme, SequenceTheorems, TLAPS

LEMMA ModSmall ==
  ASSUME NEW n \in Nat \ {0}, NEW a \in 0 .. n - 1
  PROVE  a % n = a
  OBVIOUS

LEMMA ModOnce ==
  ASSUME NEW n \in Nat \ {0}, NEW a \in n .. 2 * n - 1
  PROVE  a % n = a - n
  OBVIOUS

\* The next slot of a ring, and the entries between two, without modulus.
LEMMA NextSlotValue ==
  ASSUME NEW i \in Slots
  PROVE  NextSlot(i) = IF i + 1 = QUEUE_SIZE THEN 0 ELSE i + 1
  <1>1. QUEUE_SIZE \in Nat \ {0}
    BY RingAssumption
  <1>2. CASE i + 1 = QUEUE_SIZE
    <2>1. i + 1 \in QUEUE_SIZE .. 2 * QUEUE_SIZE - 1
      BY <1>1, <1>2
    <2> QED BY <1>1, <1>2, <2>1, ModOnce DEF NextSlot
  <1>3. CASE i + 1 # QUEUE_SIZE
    <2>1. i + 1 \in 0 .. QUEUE_SIZE - 1
      BY <1>1, <1>3 DEF Slots
    <2> QED BY <1>1, <1>3, <2>1, ModSmall DEF NextSlot
  <1> QED BY <1>2, <1>3

LEMMA NextSlotType ==
  ASSUME NEW i \in Slots
  PROVE  NextSlot(i) \in Slots
  BY NextSlotValue, RingAssumption DEF Slots

LEMMA DistanceValue ==
  ASSUME NEW i \in Slots, NEW j \in Slots
  PROVE  Distance(i, j) = IF i <= j THEN j - i ELSE j + QUEUE_SIZE - i
  <1>1. QUEUE_SIZE \in Nat \ {0}
    BY RingAssumption
  <1>2. CASE i <= j
    <2>1. j + QUEUE_SIZE - i \in QUEUE_SIZE .. 2 * QUEUE_SIZE - 1
      BY <1>1, <1>2 DEF Slots
    <2> QED BY <1>1, <1>2, <2>1, ModOnce DEF Distance, Slots
  <1>3. CASE ~(i <= j)
    <2>1. j + QUEUE_SIZE - i \in 0 .. QUEUE_SIZE - 1
      BY <1>1, <1>3 DEF Slots
    <2> QED BY <1>1, <1>3, <2>1, ModSmall DEF Distance, Slots
  <1> QED BY <1>2, <1>3

\* RemoveAt drops one element of a sequence and keeps the others.
LEMMA RemoveAtProperties ==
  ASSUME NEW S, NEW s \in Seq(S), NEW i \in 1 .. Len(s)
  PROVE  /\ RemoveAt(s, i) \in Seq(S)
         /\ Len(RemoveAt(s, i)) = Len(s) - 1
         /\ \A k \in 1 .. Len(s) - 1 :
              RemoveAt(s, i)[k] = IF k < i THEN s[k] ELSE s[k + 1]
  <1> DEFINE front == SubSeq(s, 1, i - 1)
             rest == SubSeq(s, i + 1, Len(s))
  <1>1. /\ front \in Seq(S) /\ Len(front) = i - 1
        /\ \A k \in 1 .. i - 1 : front[k] = s[k]
    <2>1. 1 <= i /\ i <= Len(s) /\ i \in Nat
      BY LenProperties
    <2>2. \A k \in 1 .. i - 1 : s[k] \in S
      BY <2>1, ElementOfSeq, LenProperties
    <2> QED BY <2>1, <2>2, SubSeqProperties, LenProperties
  <1>2. /\ rest \in Seq(S) /\ Len(rest) = Len(s) - i
        /\ \A k \in 1 .. Len(s) - i : rest[k] = s[i + k]
    <2>1. 1 <= i /\ i <= Len(s) /\ i \in Nat /\ Len(s) \in Nat
      BY LenProperties
    <2>2. \A k \in i + 1 .. Len(s) : s[k] \in S
      BY <2>1, ElementOfSeq, LenProperties
    <2> QED BY <2>1, <2>2, SubSeqProperties, LenProperties
  <1> HIDE DEF front, rest
  <1>3. RemoveAt(s, i) = front \o rest
    BY DEF RemoveAt, front, rest
  <1>4. /\ front \o rest \in Seq(S)
        /\ Len(front \o rest) = Len(front) + Len(rest)
        /\ \A k \in 1 .. Len(front) + Len(rest) :
             (front \o rest)[k] = IF k <= Len(front) THEN front[k]
                                  ELSE rest[k - Len(front)]
    BY <1>1, <1>2, ConcatProperties
  <1> QED BY <1>1, <1>2, <1>3, <1>4, LenProperties

\* The length of a command is one less than the count, but for a count of 0.
LEMMA NlbValue ==
  ASSUME NEW n \in 0 .. COUNT_LIMIT - 1
  PROVE  /\ Nlb(n) \in 0 .. COUNT_LIMIT - 1
         /\ Nlb(n) = IF n = 0 THEN COUNT_LIMIT - 1 ELSE n - 1
  <1>1. COUNT_LIMIT \in Nat \ {0} /\ COUNT_LIMIT > 1
    BY RingAssumption
  <1>2. CASE n = 0
    BY <1>1, <1>2 DEF Nlb
  <1>3. CASE n # 0
    <2>1. n - 1 \in 0 .. COUNT_LIMIT - 1
      BY <1>1, <1>3
    <2> QED BY <1>1, <1>3, <2>1, ModSmall DEF Nlb
  <1> QED BY <1>2, <1>3

\* What the arithmetic of a call that fits the bounce frame gives.
LEMMA RequestFacts ==
  ASSUME NEW r \in Requests
  PROVE  /\ r.count \in 0 .. COUNT_LIMIT - 1 /\ r.count \in Nat /\ r.lba \in Nat
         /\ r.op \in {"read", "write"}
         /\ r.data \in Seq(Data \cup {None}) /\ Len(r.data) \in Nat
         /\ r # None
         /\ ~TooSmall(r) =>
              /\ r.count <= MaxCount /\ r.count <= Len(r.data)
              /\ \A o \in 1 .. r.count : r.lba + o - 1 \in Lbas
              /\ \A o \in 1 .. r.count :
                   o \in Offsets /\ r.data[o] \in Data \cup {None}
  <1>1. r \in [op : {"read", "write"}, lba : Nat, count : 0 .. COUNT_LIMIT - 1,
               data : Seq(Data \cup {None})]
    BY RequestsAssumption
  <1>2. /\ r # None
        /\ r.count <= MaxCount => r.lba .. (r.lba + r.count - 1) \subseteq Lbas
    BY RequestsAssumption
  <1>3. Len(r.data) \in Nat /\ r.count \in Nat
    BY <1>1, LenProperties
  <1>4. ASSUME ~TooSmall(r)
        PROVE  r.count <= MaxCount /\ r.count <= Len(r.data)
    BY <1>1, <1>3, <1>4, RingAssumption DEF TooSmall
  <1>5. ASSUME ~TooSmall(r), NEW o \in 1 .. r.count
        PROVE  r.lba + o - 1 \in Lbas
    BY <1>1, <1>2, <1>4, <1>5, RingAssumption
  <1>6. ASSUME ~TooSmall(r), NEW o \in 1 .. r.count
        PROVE  o \in Offsets /\ r.data[o] \in Data \cup {None}
    <2>1. o \in 1 .. Len(r.data) /\ o \in Offsets
      BY <1>1, <1>3, <1>4, <1>6, RingAssumption DEF Offsets
    <2> QED BY <1>1, <2>1, ElementOfSeq
  <1> QED BY <1>1, <1>2, <1>3, <1>4, <1>5, <1>6

-----------------------------------------------------------------------------
(* Type correctness.                                                       *)

LEMMA TypeInit == Init => TypeOK
  BY RingAssumption
  DEF Init, TypeOK, Slots, Cids, Commands, ZeroCommand

\* A completion or a rejection ends the call.
LEMMA OutcomeEndsCall ==
  ASSUME NEW cqe, Outcome(cqe)
  PROVE  req' = None /\ pc' = "idle"
  BY DEF Outcome, Return

\* One sector of DMA leaves contents in the frame and on the disk.
LEMMA TransferTypes ==
  ASSUME TypeOK, NEW i \in DOMAIN running, NEW o \in running[i].left, Transfer(i, o)
  PROVE  bounce' \in [Offsets -> Data \cup {None}] /\ disk' \in [Lbas -> Data \cup {None}]
  <1> DEFINE s == running[i].cmd.lba + o - 1
             C == Data \cup {None}
  <1>1. s \in Lbas /\ bounce \in [Offsets -> C] /\ disk \in [Lbas -> C]
    BY DEF Transfer, TypeOK
  <1>2. \/ UNCHANGED disk /\ bounce' = bounce
        \/ UNCHANGED disk /\ o \in Offsets /\ bounce' = [bounce EXCEPT ![o] = disk[s]]
        \/ UNCHANGED bounce /\ o \in Offsets /\ disk' = [disk EXCEPT ![s] = bounce[o]]
        \/ UNCHANGED bounce /\ \E d \in Data : disk' = [disk EXCEPT ![s] = d]
    BY DEF Transfer
  <1> HIDE DEF s, C
  <1>3. ASSUME UNCHANGED bounce, NEW d \in Data, disk' = [disk EXCEPT ![s] = d]
        PROVE  bounce' \in [Offsets -> C] /\ disk' \in [Lbas -> C]
    <2>1. d \in C
      BY <1>3 DEF C
    <2> QED BY <1>1, <1>3, <2>1
  <1> QED BY <1>1, <1>2, <1>3 DEF C

LEMMA TypeStep ==
  ASSUME TypeOK, [Next]_vars
  PROVE  TypeOK'
  <1> USE RingAssumption DEF TypeOK, Slots, Cids
  <1>1. /\ NextSlot(tail) \in Slots
        /\ NextSlot(sqHead) \in Slots
        /\ NextSlot(cqTail) \in Slots
    BY NextSlotType
  <1>2. ASSUME NEW r \in Requests, Call(r)
        PROVE  TypeOK'
    <2>1. bounce' \in [Offsets -> Data \cup {None}]
      <3>1. CASE r.op = "write" /\ ~TooSmall(r)
        <4>1. \A o \in Offsets : o <= r.count => r.data[o] \in Data \cup {None}
          <5>1. \A o \in Offsets : o <= r.count => o \in 1 .. r.count
            BY RequestFacts DEF Offsets
          <5>2. \A o \in 1 .. r.count : r.data[o] \in Data \cup {None}
            BY <3>1, RequestFacts
          <5> QED BY <5>1, <5>2
        <4>2. bounce' = [o \in Offsets |-> IF o <= r.count THEN r.data[o] ELSE bounce[o]]
          BY <1>2, <3>1 DEF Call
        <4>3. bounce \in [Offsets -> Data \cup {None}]
          OBVIOUS
        <4> QED BY <4>1, <4>2, <4>3
      <3>2. CASE ~(r.op = "write" /\ ~TooSmall(r))
        BY <1>2, <3>2 DEF Call
      <3> QED BY <3>1, <3>2
    <2> QED BY <1>2, <2>1, RequestsAssumption DEF Call, ctlVars
  <1>3. CASE Reject
    BY <1>3 DEF Reject, Return, ctlVars
  <1>4. CASE Panic
    BY <1>4 DEF Panic, ctlVars
  <1>5. CASE Submit
    <2>1. req \in Requests /\ req # None
      BY <1>5 DEF Submit
    <2>2. NewCommand \in Commands
      BY <2>1, RequestFacts, NlbValue DEF Commands, NewCommand
    <2>3. (cid_counter + 1) % CID_LIMIT \in Cids
      OBVIOUS
    <2> QED BY <1>1, <1>5, <2>1, <2>2, <2>3 DEF Submit, ctlVars
  <1>6. CASE Complete
    <2>1. req' = None /\ pc' = "idle"
      BY <1>6, OutcomeEndsCall DEF Complete
    <2>2. head' \in Slots
      BY <1>6 DEF Complete, Advance
    <2>3. phase' \in BOOLEAN
      BY <1>6, Zenon DEF Complete, Advance
    <2> QED BY <1>6, <2>1, <2>2, <2>3 DEF Complete, ctlVars
  <1>7. CASE Timeout
    BY <1>7 DEF Timeout, Return, ctlVars
  <1>8. CASE Fetch
    <2>1. [cmd |-> sq[sqHead], left |-> Sectors(sq[sqHead])]
            \in [cmd : Commands, left : SUBSET Nat]
      BY DEF Commands, Sectors
    <2>2. running' \in Seq([cmd : Commands, left : SUBSET Nat])
      BY <1>8, <2>1, AppendProperties DEF Fetch
    <2> QED BY <1>1, <1>8, <2>2 DEF Fetch, driverVars
  <1>9. ASSUME NEW i \in DOMAIN running, NEW o \in running[i].left, Transfer(i, o)
        PROVE  TypeOK'
    <2>1. running[i] \in [cmd : Commands, left : SUBSET Nat]
      BY ElementOfSeq, LenProperties
    <2>2. [running[i] EXCEPT !.left = running[i].left \ {o}]
            \in [cmd : Commands, left : SUBSET Nat]
      BY <2>1
    <2>3. running' = [running EXCEPT ![i] =
                        [running[i] EXCEPT !.left = running[i].left \ {o}]]
      BY <1>9 DEF Transfer
    <2>4. running' \in Seq([cmd : Commands, left : SUBSET Nat])
      <3> DEFINE S == [cmd : Commands, left : SUBSET Nat]
                 e == [running[i] EXCEPT !.left = running[i].left \ {o}]
      <3>1. running \in Seq(S) /\ e \in S /\ i \in 1 .. Len(running)
        BY <2>2, LenProperties
      <3> HIDE DEF S, e
      <3>2. [running EXCEPT ![i] = e] \in Seq(S)
        BY <3>1, ExceptSeq
      <3> QED BY <2>3, <3>2 DEF S, e
    <2>5. bounce' \in [Offsets -> Data \cup {None}] /\ disk' \in [Lbas -> Data \cup {None}]
      BY <1>9, TransferTypes
    <2> QED BY <1>9, <2>4, <2>5 DEF Transfer, driverVars
  <1>10. ASSUME NEW i \in DOMAIN running, NEW st \in {0, 1}, PostStatus(i, st)
        PROVE  TypeOK'
    <2>1. running[i] \in [cmd : Commands, left : SUBSET Nat]
      BY ElementOfSeq, LenProperties
    <2>2. running' \in Seq([cmd : Commands, left : SUBSET Nat])
      BY <1>10, RemoveAtProperties, LenProperties DEF PostStatus
    <2>3. [cid |-> running[i].cmd.cid, status |-> st, phase |-> ctlPhase]
            \in [cid : Cids, status : {0, 1}, phase : BOOLEAN]
      BY <2>1 DEF Commands
    <2> QED BY <1>1, <1>10, <2>2, <2>3 DEF PostStatus, driverVars
  <1>11. CASE UNCHANGED vars
    BY <1>11 DEF vars
  <1> QED
    BY <1>2, <1>3, <1>5, <1>6, <1>7, <1>8, <1>9, <1>10, <1>11, <1>4
    DEF Next, Driver, Controller, Post, PostError

\* Every variable keeps its type, whatever the ring size and however many
\* calls time out.
THEOREM TypeCorrect == Spec => []TypeOK
  BY TypeInit, TypeStep, PTL DEF Spec

-----------------------------------------------------------------------------
(* The phase bit.  The completion ring is split at the controller's slot:  *)
(* below it entries carry the controller's phase, from it on the opposite  *)
(* one.  The driver is at most one lap behind, and its phase says whether  *)
(* it is on the same lap.                                                  *)
PhaseInv ==
  /\ \A i \in Slots : (cq[i].phase = ctlPhase) <=> (i < cqTail)
  /\ IF phase = ctlPhase THEN head <= cqTail ELSE cqTail < head

LEMMA PhaseInvMeans ==
  ASSUME TypeOK, PhaseInv
  PROVE  PhaseTellsPosted
  <1>1. CASE phase = ctlPhase
    BY <1>1 DEF TypeOK, PhaseInv, PhaseTellsPosted, Fresh, Slots
  <1>2. CASE phase # ctlPhase
    <2>1. ~(head < cqTail) /\ head # cqTail
      BY <1>2 DEF TypeOK, PhaseInv, Slots
    <2>2. cq[head].phase # ctlPhase
      BY <2>1 DEF TypeOK, PhaseInv
    <2>3. cq[head].phase \in BOOLEAN /\ phase \in BOOLEAN /\ ctlPhase \in BOOLEAN
      BY DEF TypeOK
    <2>4. cq[head].phase = phase
      BY <1>2, <2>2, <2>3, Zenon
    <2> QED BY <2>1, <2>4 DEF PhaseTellsPosted, Fresh
  <1> QED BY <1>1, <1>2

LEMMA PhaseInit == Init => PhaseInv
  <1> SUFFICES ASSUME Init PROVE PhaseInv
    OBVIOUS
  <1>1. head = 0 /\ cqTail = 0 /\ phase = ctlPhase
    BY DEF Init
  <1>2. \A i \in Slots : cq[i].phase # ctlPhase
    BY DEF Init
  <1>3. \A i \in Slots : ~(i < cqTail)
    BY <1>1 DEF Slots
  <1> QED BY <1>1, <1>2, <1>3 DEF PhaseInv

LEMMA PhaseStep ==
  ASSUME TypeOK, PhaseInv, [Next]_vars
  PROVE  PhaseInv'
  <1>0. /\ QUEUE_SIZE \in Nat /\ QUEUE_SIZE >= 2
        /\ head \in 0 .. QUEUE_SIZE - 1 /\ cqTail \in 0 .. QUEUE_SIZE - 1
        /\ phase \in BOOLEAN /\ ctlPhase \in BOOLEAN
        /\ \A i \in Slots : cq[i].phase \in BOOLEAN
    BY RingAssumption DEF TypeOK, Slots
  <1>1. CASE UNCHANGED <<cq, head, phase, cqTail, ctlPhase>>
    BY <1>1 DEF PhaseInv
  <1>2. CASE Complete
    <2>0. UNCHANGED <<cq, cqTail, ctlPhase>>
      BY <1>2 DEF Complete, ctlVars
    <2>1. head # cqTail
      BY <1>2, PhaseInvMeans DEF Complete, PhaseTellsPosted
    <2>2. CASE head + 1 >= QUEUE_SIZE
      <3>1. head' = 0 /\ phase' = ~phase
        BY <1>2, <2>2 DEF Complete, Advance
      <3>2. phase # ctlPhase
        BY <1>0, <2>1, <2>2 DEF PhaseInv
      <3>3. phase' = ctlPhase
        BY <1>0, <3>1, <3>2, Zenon
      <3> QED BY <1>0, <2>0, <3>1, <3>3 DEF PhaseInv
    <2>3. CASE ~(head + 1 >= QUEUE_SIZE)
      <3>1. head' = head + 1 /\ phase' = phase
        BY <1>2, <2>3 DEF Complete, Advance
      <3>2. CASE phase = ctlPhase
        BY <1>0, <2>0, <2>1, <3>1, <3>2 DEF PhaseInv
      <3>3. CASE phase # ctlPhase
        BY <1>0, <2>0, <3>1, <3>3 DEF PhaseInv
      <3> QED BY <3>2, <3>3
    <2> QED BY <2>2, <2>3
  <1>3. ASSUME NEW k \in DOMAIN running, NEW st \in {0, 1}, PostStatus(k, st)
        PROVE  PhaseInv'
    <2>0. UNCHANGED <<head, phase>>
      BY <1>3 DEF PostStatus, driverVars
    <2>1. /\ NextSlot(cqTail) # head
          /\ cqTail' = NextSlot(cqTail)
      BY <1>3 DEF PostStatus
    <2>2. NextSlot(cqTail) = IF cqTail + 1 = QUEUE_SIZE THEN 0 ELSE cqTail + 1
      BY <1>0, NextSlotValue DEF Slots
    <2>3. \A i \in Slots :
            cq'[i].phase = IF i = cqTail THEN ctlPhase ELSE cq[i].phase
      BY <1>3 DEF PostStatus, TypeOK
    <2>4. CASE cqTail + 1 = QUEUE_SIZE
      <3>1. cqTail' = 0 /\ ctlPhase' = ~ctlPhase /\ head # 0
        BY <1>3, <2>1, <2>2, <2>4 DEF PostStatus
      <3>2. \A i \in Slots : i = cqTail \/ i < cqTail
        BY <1>0, <2>4 DEF Slots
      <3>3. \A i \in Slots : cq'[i].phase = ctlPhase
        BY <2>3, <3>2 DEF PhaseInv
      <3>4. ctlPhase # ctlPhase'
        BY <1>0, <3>1, Zenon
      <3>5. \A i \in Slots : ~(i < cqTail')
        BY <3>1 DEF Slots
      <3>6. phase = ctlPhase
        BY <1>0, <2>4 DEF PhaseInv
      <3>7. phase' # ctlPhase' /\ cqTail' < head'
        BY <1>0, <2>0, <3>1, <3>4, <3>6
      <3>8. \A i \in Slots : (cq'[i].phase = ctlPhase') <=> (i < cqTail')
        BY <3>3, <3>4, <3>5
      <3> QED BY <3>7, <3>8 DEF PhaseInv
    <2>5. CASE cqTail + 1 # QUEUE_SIZE
      <3>1. cqTail' = cqTail + 1 /\ ctlPhase' = ctlPhase /\ head # cqTail + 1
        BY <1>3, <2>1, <2>2, <2>5 DEF PostStatus
      <3>2. \A i \in Slots : (cq'[i].phase = ctlPhase') <=> (i < cqTail')
        BY <1>0, <2>3, <3>1 DEF PhaseInv, Slots
      <3>3. IF phase' = ctlPhase' THEN head' <= cqTail' ELSE cqTail' < head'
        BY <1>0, <2>0, <3>1 DEF PhaseInv
      <3> QED BY <3>2, <3>3 DEF PhaseInv
    <2> QED BY <2>4, <2>5
  <1> QED
    BY <1>1, <1>2, <1>3
    DEF Next, Driver, Controller, Call, Reject, Panic, Submit, Timeout, Fetch, Transfer,
        Post, PostError, vars, driverVars, ctlVars

\* poll takes an entry exactly when the controller has posted one the driver
\* has not taken, for every ring size, every order of completion and any number
\* of timeouts: the phase bit needs no help from the CIDs.
THEOREM PhaseCorrect == Spec => []PhaseTellsPosted
  <1>1. Init => TypeOK /\ PhaseInv
    BY TypeInit, PhaseInit
  <1>2. TypeOK /\ PhaseInv /\ [Next]_vars => (TypeOK /\ PhaseInv)'
    BY TypeStep, PhaseStep
  <1>3. TypeOK /\ PhaseInv => PhaseTellsPosted
    BY PhaseInvMeans
  <1> QED BY <1>1, <1>2, <1>3, PTL DEF Spec

-----------------------------------------------------------------------------
(* DMA stays in bounds because every command in the ring was built from a  *)
(* request that passed the size test.                                      *)
SafeCommand(c) ==
  c.nlb # COUNT_LIMIT - 1 =>
    \A o \in Sectors(c) : o \in Offsets /\ c.lba + o - 1 \in Lbas

DmaInv ==
  /\ \A i \in Slots : SafeCommand(sq[i])
  /\ \A i \in DOMAIN running :
       /\ SafeCommand(running[i].cmd)
       /\ running[i].left \subseteq Sectors(running[i].cmd)

LEMMA DmaInvMeans ==
  ASSUME TypeOK, DmaInv
  PROVE  DmaInBounds
  BY DEF DmaInv, SafeCommand, DmaInBounds

LEMMA DmaInit == Init => DmaInv
  <1> SUFFICES ASSUME Init PROVE DmaInv
    OBVIOUS
  <1>1. SafeCommand(ZeroCommand)
    BY DEF SafeCommand, ZeroCommand, Sectors
  <1>2. \A i \in Slots : sq[i] = ZeroCommand
    BY DEF Init
  <1>3. running = <<>>
    BY DEF Init
  <1> QED BY <1>1, <1>2, <1>3 DEF DmaInv

\* The command of a call that fits names the call's sectors.
LEMMA NewCommandFacts ==
  ASSUME req \in Requests, ~TooSmall(req)
  PROVE  /\ NewCommand.nlb = Nlb(req.count)
         /\ SafeCommand(NewCommand)
  <1>1. /\ NewCommand.nlb = Nlb(req.count) /\ NewCommand.lba = req.lba
        /\ NewCommand.op = req.op
    BY DEF NewCommand
  <1>2. ASSUME NewCommand.nlb # COUNT_LIMIT - 1
        PROVE  Sectors(NewCommand) = 1 .. req.count
    <2>1. req.count \in 0 .. COUNT_LIMIT - 1 /\ req.op \in {"read", "write"}
      BY RequestFacts
    <2>2. NewCommand.nlb + 1 = req.count
      BY <1>1, <1>2, <2>1, NlbValue
    <2> QED BY <1>1, <2>1, <2>2 DEF Sectors
  <1>3. \A o \in 1 .. req.count : o \in Offsets /\ req.lba + o - 1 \in Lbas
    BY RequestFacts
  <1> QED BY <1>1, <1>2, <1>3 DEF SafeCommand

LEMMA DmaStep ==
  ASSUME TypeOK, DmaInv, [Next]_vars
  PROVE  DmaInv'
  <1>1. CASE UNCHANGED <<sq, running>>
    BY <1>1 DEF DmaInv
  <1>2. CASE Submit
    <2> DEFINE c == NewCommand
    <2>1. req \in Requests /\ ~TooSmall(req)
      BY <1>2 DEF Submit, TypeOK
    <2>5. SafeCommand(c)
      BY <2>1, NewCommandFacts
    <2> HIDE DEF c
    <2>6. sq' = [sq EXCEPT ![tail] = c] /\ running' = running
      BY <1>2 DEF Submit, ctlVars, c
    <2>7. \A i \in Slots : SafeCommand(sq'[i])
      BY <2>5, <2>6 DEF DmaInv, TypeOK
    <2> QED BY <2>6, <2>7 DEF DmaInv
  <1>3. CASE Fetch
    <2> DEFINE e == [cmd |-> sq[sqHead], left |-> Sectors(sq[sqHead])]
    <2>1. SafeCommand(e.cmd) /\ e.left \subseteq Sectors(e.cmd)
      BY DEF DmaInv, TypeOK
    <2>2. e \in [cmd : Commands, left : SUBSET Nat]
      BY DEF TypeOK, Commands, Sectors
    <2> HIDE DEF e
    <2>3. running' = Append(running, e) /\ sq' = sq
      BY <1>3 DEF Fetch, e
    <2>4. \A i \in DOMAIN running' :
            \/ i \in DOMAIN running /\ running'[i] = running[i]
            \/ running'[i] = e
      BY <2>2, <2>3, AppendProperties, LenProperties DEF TypeOK
    <2>5. ASSUME NEW i \in DOMAIN running'
          PROVE  /\ SafeCommand(running'[i].cmd)
                 /\ running'[i].left \subseteq Sectors(running'[i].cmd)
      BY <2>1, <2>4 DEF DmaInv
    <2> QED BY <2>3, <2>5 DEF DmaInv
  <1>4. ASSUME NEW k \in DOMAIN running, NEW o \in running[k].left, Transfer(k, o)
        PROVE  DmaInv'
    <2>1. running' = [running EXCEPT ![k].left = running[k].left \ {o}] /\ sq' = sq
      BY <1>4 DEF Transfer
    <2>2. \A i \in DOMAIN running : running[i] \in [cmd : Commands, left : SUBSET Nat]
      BY ElementOfSeq, LenProperties DEF TypeOK
    <2>3. \A i \in DOMAIN running' :
            /\ i \in DOMAIN running
            /\ running'[i].cmd = running[i].cmd
            /\ running'[i].left \subseteq running[i].left
      BY <2>1, <2>2
    <2> QED BY <2>1, <2>3 DEF DmaInv
  <1>5. ASSUME NEW k \in DOMAIN running, NEW st \in {0, 1}, PostStatus(k, st)
        PROVE  DmaInv'
    <2>1. running' = RemoveAt(running, k) /\ sq' = sq
      BY <1>5 DEF PostStatus
    <2>2. \A i \in DOMAIN running' :
            \E j \in DOMAIN running : running'[i] = running[j]
      <3>1. DOMAIN running = 1 .. Len(running) /\ Len(running) \in Nat
        BY LenProperties DEF TypeOK
      <3>2. /\ DOMAIN running' = 1 .. Len(running) - 1
            /\ \A i \in 1 .. Len(running) - 1 :
                 running'[i] = IF i < k THEN running[i] ELSE running[i + 1]
        <4> DEFINE S == [cmd : Commands, left : SUBSET Nat]
        <4>1. running \in Seq(S) /\ k \in 1 .. Len(running)
          BY <3>1 DEF TypeOK
        <4> HIDE DEF S
        <4>2. /\ Len(RemoveAt(running, k)) = Len(running) - 1
              /\ RemoveAt(running, k) \in Seq(S)
              /\ \A i \in 1 .. Len(running) - 1 :
                   RemoveAt(running, k)[i] = IF i < k THEN running[i] ELSE running[i + 1]
          BY <4>1, RemoveAtProperties
        <4>3. DOMAIN RemoveAt(running, k) = 1 .. Len(RemoveAt(running, k))
          BY <4>2, LenProperties
        <4> QED BY <2>1, <4>2, <4>3
      <3>3. \A i \in 1 .. Len(running) - 1 : i \in DOMAIN running /\ i + 1 \in DOMAIN running
        BY <3>1
      <3> QED BY <3>2, <3>3
    <2> QED BY <2>1, <2>2 DEF DmaInv
  <1> QED
    BY <1>1, <1>2, <1>3, <1>4, <1>5
    DEF Next, Driver, Controller, Call, Reject, Panic, Complete, Timeout, Post, PostError,
        vars, ctlVars

\* No command, not even one that outlived the call that submitted it, makes the
\* controller touch memory outside the bounce frame or sectors outside the
\* request, whatever the counts of the calls: but for the length that a call for no
\* sectors wraps to where the build lets it.
THEOREM DmaSafe == Spec => []DmaInBounds
  <1>1. Init => TypeOK /\ DmaInv
    BY TypeInit, DmaInit
  <1>2. TypeOK /\ DmaInv /\ [Next]_vars => (TypeOK /\ DmaInv)'
    BY TypeStep, DmaStep
  <1>3. TypeOK /\ DmaInv => DmaInBounds
    BY DmaInvMeans
  <1> QED BY <1>1, <1>2, <1>3, PTL DEF Spec

-----------------------------------------------------------------------------
(* Conservation of completions.                                            *)
LEMMA DistanceGrows ==
  ASSUME NEW i \in Slots, NEW j \in Slots, NextSlot(j) # i
  PROVE  Distance(i, NextSlot(j)) = Distance(i, j) + 1
  <1>1. NextSlot(j) \in Slots /\ NextSlot(j) = IF j + 1 = QUEUE_SIZE THEN 0 ELSE j + 1
    BY NextSlotType, NextSlotValue
  <1>2. Distance(i, j) = IF i <= j THEN j - i ELSE j + QUEUE_SIZE - i
    BY DistanceValue
  <1>3. Distance(i, NextSlot(j)) = IF i <= NextSlot(j) THEN NextSlot(j) - i
                                   ELSE NextSlot(j) + QUEUE_SIZE - i
    BY <1>1, DistanceValue
  <1> QED BY <1>1, <1>2, <1>3, RingAssumption DEF Slots

LEMMA DistanceShrinks ==
  ASSUME NEW i \in Slots, NEW j \in Slots, i # j
  PROVE  Distance(NextSlot(i), j) = Distance(i, j) - 1
  <1>1. NextSlot(i) \in Slots /\ NextSlot(i) = IF i + 1 = QUEUE_SIZE THEN 0 ELSE i + 1
    BY NextSlotType, NextSlotValue
  <1>2. Distance(i, j) = IF i <= j THEN j - i ELSE j + QUEUE_SIZE - i
    BY DistanceValue
  <1>3. Distance(NextSlot(i), j) = IF NextSlot(i) <= j THEN j - NextSlot(i)
                                   ELSE j + QUEUE_SIZE - NextSlot(i)
    BY <1>1, DistanceValue
  <1> QED BY <1>1, <1>2, <1>3, RingAssumption DEF Slots

LEMMA DistanceType ==
  ASSUME NEW i \in Slots, NEW j \in Slots
  PROVE  /\ Distance(i, j) \in 0 .. QUEUE_SIZE - 1
         /\ NextSlot(j) = i => Distance(i, j) = QUEUE_SIZE - 1
  BY NextSlotValue, DistanceValue, RingAssumption DEF Slots

LEMMA OwesInit == Init => OwesOnePerTimeout
  <1> SUFFICES ASSUME Init PROVE OwesOnePerTimeout
    OBVIOUS
  <1>1. 0 \in Slots /\ Distance(0, 0) = 0
    BY RingAssumption, DistanceValue DEF Slots
  <1>2. Len(running) = 0
    BY DEF Init
  <1> QED BY <1>1, <1>2 DEF Init, OwesOnePerTimeout, Outstanding

LEMMA OwesStep ==
  ASSUME pc # "idle" => timeouts + 1 < QUEUE_SIZE,
         TypeOK, PhaseInv, OwesOnePerTimeout, [Next]_vars
  PROVE  OwesOnePerTimeout'
  <1> DEFINE inSq == Distance(sqHead, tail)
             inCq == Distance(head, cqTail)
  <1>1. /\ inSq \in Nat /\ inCq \in Nat /\ Len(running) \in Nat
        /\ tail \in Slots /\ sqHead \in Slots /\ head \in Slots /\ cqTail \in Slots
        /\ timeouts \in Nat /\ timeouts <= MaxTimeouts
        /\ MaxTimeouts \in Nat /\ QUEUE_SIZE \in Nat
    <2>1. tail \in Slots /\ sqHead \in Slots /\ head \in Slots /\ cqTail \in Slots
      BY DEF TypeOK
    <2>2. inSq \in 0 .. QUEUE_SIZE - 1 /\ inCq \in 0 .. QUEUE_SIZE - 1
      BY <2>1, DistanceType
    <2>3. Len(running) \in Nat
      BY LenProperties DEF TypeOK
    <2>4. timeouts \in Nat /\ timeouts <= MaxTimeouts
      BY RingAssumption DEF TypeOK
    <2> HIDE DEF inSq, inCq
    <2> QED BY <2>1, <2>2, <2>3, <2>4, RingAssumption
  <1>2. inSq + Len(running) + inCq = timeouts + (IF pc = "wait" THEN 1 ELSE 0)
    BY DEF OwesOnePerTimeout, Outstanding
  <1> HIDE DEF inSq, inCq
  <1>3. ASSUME NEW r \in Requests, Call(r)
        PROVE  OwesOnePerTimeout'
    BY <1>2, <1>3 DEF Call, ctlVars, OwesOnePerTimeout, Outstanding, inSq, inCq
  <1>4. CASE Reject
    BY <1>2, <1>4 DEF Reject, Return, ctlVars, OwesOnePerTimeout, Outstanding, inSq, inCq
  <1>5. CASE Panic
    BY <1>2, <1>5 DEF Panic, ctlVars, OwesOnePerTimeout, Outstanding, inSq, inCq
  <1>6. CASE Submit
    <2>1. pc = "submit" /\ pc' = "wait"
      BY <1>6 DEF Submit
    <2>2. inSq < QUEUE_SIZE - 1
      BY <1>1, <1>2, <2>1
    <2>3. NextSlot(tail) # sqHead
      BY <1>1, <2>2, DistanceType DEF inSq
    <2>4. inSq' = inSq + 1
      BY <1>1, <1>6, <2>3, DistanceGrows DEF Submit, inSq, ctlVars
    <2>5. UNCHANGED <<running, timeouts>> /\ inCq' = inCq
      BY <1>6 DEF Submit, inCq, ctlVars
    <2> QED BY <1>1, <1>2, <2>1, <2>4, <2>5 DEF OwesOnePerTimeout, Outstanding, inSq, inCq
  <1>7. CASE Complete
    <2>1. pc = "wait" /\ pc' = "idle"
      BY <1>7, OutcomeEndsCall DEF Complete
    <2>2. head # cqTail
      BY <1>7, PhaseInvMeans DEF Complete, PhaseTellsPosted
    <2>3. head' = NextSlot(head)
      BY <1>1, <1>7, NextSlotValue DEF Complete, Advance, Slots
    <2>4. inCq' = inCq - 1
      BY <1>1, <1>7, <2>2, <2>3, DistanceShrinks DEF Complete, inCq, ctlVars
    <2>5. UNCHANGED <<running, timeouts>> /\ inSq' = inSq
      BY <1>7 DEF Complete, inSq, ctlVars
    <2> QED BY <1>1, <1>2, <2>1, <2>4, <2>5 DEF OwesOnePerTimeout, Outstanding, inSq, inCq
  <1>8. CASE Timeout
    <2>1. pc = "wait" /\ pc' = "idle" /\ timeouts' = timeouts + 1
      BY <1>8 DEF Timeout, Return
    <2>2. UNCHANGED running /\ inSq' = inSq /\ inCq' = inCq
      BY <1>8 DEF Timeout, inSq, inCq, ctlVars
    <2> QED BY <1>1, <1>2, <2>1, <2>2 DEF OwesOnePerTimeout, Outstanding, inSq, inCq
  <1>9. CASE Fetch
    <2>1. inSq' = inSq - 1
      BY <1>1, <1>9, DistanceShrinks DEF Fetch, inSq, driverVars
    <2>2. Len(running') = Len(running) + 1
      BY <1>9 DEF Fetch, TypeOK
    <2>3. UNCHANGED <<pc, timeouts>> /\ inCq' = inCq
      BY <1>9 DEF Fetch, inCq, driverVars
    <2> QED BY <1>1, <1>2, <2>1, <2>2, <2>3 DEF OwesOnePerTimeout, Outstanding, inSq, inCq
  <1>10. ASSUME NEW k \in DOMAIN running, NEW o \in running[k].left, Transfer(k, o)
        PROVE  OwesOnePerTimeout'
    <2>1. Len(running') = Len(running)
      BY <1>10, LenProperties DEF Transfer, TypeOK
    <2>2. UNCHANGED <<pc, timeouts>> /\ inSq' = inSq /\ inCq' = inCq
      BY <1>10 DEF Transfer, inSq, inCq, driverVars
    <2> QED BY <1>1, <1>2, <2>1, <2>2 DEF OwesOnePerTimeout, Outstanding, inSq, inCq
  <1>11. ASSUME NEW k \in DOMAIN running, NEW st \in {0, 1}, PostStatus(k, st)
        PROVE  OwesOnePerTimeout'
    <2>1. inCq' = inCq + 1
      BY <1>1, <1>11, DistanceGrows DEF PostStatus, inCq, driverVars
    <2>2. Len(running') = Len(running) - 1
      BY <1>11, RemoveAtProperties, LenProperties DEF PostStatus, TypeOK
    <2>3. UNCHANGED <<pc, timeouts>> /\ inSq' = inSq
      BY <1>11 DEF PostStatus, inSq, driverVars
    <2> QED BY <1>1, <1>2, <2>1, <2>2, <2>3 DEF OwesOnePerTimeout, Outstanding, inSq, inCq
  <1>12. CASE UNCHANGED vars
    BY <1>2, <1>12 DEF vars, OwesOnePerTimeout, Outstanding, inSq, inCq
  <1> QED
    BY <1>3, <1>4, <1>6, <1>7, <1>8, <1>9, <1>10, <1>11, <1>12, <1>5
    DEF Next, Driver, Controller, Post, PostError

\* As long as fewer calls have timed out than the ring has entries, none is lost
\* and none is answered twice: what is outstanding is one completion for each
\* call that timed out and one for the call that waits.
THEOREM Conservation ==
  MaxTimeouts < QUEUE_SIZE => (Spec => []OwesOnePerTimeout)
  <1> SUFFICES ASSUME MaxTimeouts < QUEUE_SIZE
               PROVE  Spec => []OwesOnePerTimeout
    OBVIOUS
  <1> DEFINE IInv == TypeOK /\ PhaseInv /\ OwesOnePerTimeout
  <1>1. Init => IInv
    BY TypeInit, PhaseInit, OwesInit
  <1>2. IInv /\ [Next]_vars => IInv'
    <2> SUFFICES ASSUME IInv, [Next]_vars PROVE IInv'
      OBVIOUS
    <2>1. pc # "idle" => timeouts + 1 < QUEUE_SIZE
      BY RingAssumption DEF TypeOK
    <2> QED BY <2>1, TypeStep, PhaseStep, OwesStep
  <1>3. IInv => OwesOnePerTimeout
    OBVIOUS
  <1> QED BY <1>1, <1>2, <1>3, PTL DEF Spec

-----------------------------------------------------------------------------
(* The refinement.  The driver implements SectorStore; until a call times  *)
(* out the invariant follows the one outstanding command through the       *)
(* submission ring, the controller and the completion ring.                *)

\* Sector o of the call in progress has been moved.
Moved(o) ==
  LET s == req.lba + o - 1 IN
  IF req.op = "read" THEN bounce[o] = disk[s] ELSE disk[s] = req.data[o]

\* Command c is the one that was built for the call in progress.
IsCurrent(c) ==
  /\ c.op = req.op /\ c.lba = req.lba /\ c.nlb = Nlb(req.count)
  /\ (c.cid + 1) % CID_LIMIT = cid_counter

CommandInv ==
  /\ Distance(sqHead, tail) # 0 => IsCurrent(sq[sqHead])
  /\ \A i \in DOMAIN running :
       /\ IsCurrent(running[i].cmd)
       /\ \A o \in 1 .. req.count : o \notin running[i].left => Moved(o)
  /\ head # cqTail =>
       /\ (cq[head].cid + 1) % CID_LIMIT = cid_counter
       /\ cq[head].status = 0 => \A o \in 1 .. req.count : Moved(o)

ServeInv ==
  /\ pc \in {"submit", "wait"} /\ ~TooSmall(req) /\ req.op = "write" =>
       \A o \in 1 .. req.count : bounce[o] = req.data[o]
  /\ pc = "wait" => CommandInv

\* A call that waits passed the size test.
WaitsFitting == pc = "wait" => ~TooSmall(req)

IInv ==
  /\ TypeOK /\ PhaseInv /\ DmaInv /\ WaitsFitting
  /\ timeouts = 0 => OwesOnePerTimeout /\ ServeInv

LEMMA FittingStep ==
  ASSUME WaitsFitting, [Next]_vars
  PROVE  WaitsFitting'
  BY OutcomeEndsCall
  DEF WaitsFitting, TooSmall, Next, Driver, Controller, Call, Reject, Panic, Submit, Complete,
      Timeout, Return, Fetch, Transfer, Post, PostError, PostStatus, vars, driverVars

\* The current command names the sectors of the call, if there are any.
LEMMA CurrentSectors ==
  ASSUME req \in Requests, NEW c, IsCurrent(c)
  PROVE  /\ 1 .. req.count \subseteq Sectors(c)
         /\ req.count > 0 => Sectors(c) = 1 .. req.count
  <1>1. /\ req.count \in 0 .. COUNT_LIMIT - 1 /\ c.op # "flush"
        /\ c.nlb = Nlb(req.count)
    BY RequestFacts DEF IsCurrent
  <1>2. req.count > 0 => c.nlb + 1 = req.count
    BY <1>1, NlbValue
  <1>3. req.count > 0 => Sectors(c) = 1 .. req.count
    BY <1>1, <1>2 DEF Sectors
  <1>4. req.count = 0 => 1 .. req.count = {}
    OBVIOUS
  <1> QED BY <1>1, <1>3, <1>4

\* A call that timed out is never forgotten.
LEMMA TimeoutsGrow ==
  ASSUME TypeOK, [Next]_vars, timeouts' = 0
  PROVE  timeouts = 0
  BY RingAssumption
  DEF TypeOK, Next, Driver, Controller, Call, Reject, Panic, Submit, Complete, Timeout,
      Fetch, Transfer, Post, PostError, PostStatus, vars

-----------------------------------------------------------------------------
\* Before the first timeout nothing is outstanding between calls, and one
\* command is during a call.
LEMMA OneOutstanding ==
  ASSUME timeouts = 0, TypeOK, OwesOnePerTimeout
  PROVE  /\ pc # "wait" => sqHead = tail /\ Len(running) = 0 /\ head = cqTail
         /\ pc = "wait" /\ sqHead # tail => Len(running) = 0 /\ head = cqTail
         /\ pc = "wait" /\ Len(running) # 0 =>
              sqHead = tail /\ Len(running) = 1 /\ head = cqTail
  <1> DEFINE inSq == Distance(sqHead, tail)
             inCq == Distance(head, cqTail)
             n == Len(running)
  <1>1. tail \in Slots /\ sqHead \in Slots /\ head \in Slots /\ cqTail \in Slots
    BY DEF TypeOK
  <1>2. inSq \in Nat /\ (inSq = 0 <=> sqHead = tail)
    BY <1>1, DistanceValue, RingAssumption DEF Slots
  <1>3. inCq \in Nat /\ (inCq = 0 <=> head = cqTail)
    BY <1>1, DistanceValue, RingAssumption DEF Slots
  <1>4. n \in Nat /\ timeouts = 0
    BY LenProperties DEF TypeOK
  <1>5. inSq + n + inCq = timeouts + (IF pc = "wait" THEN 1 ELSE 0)
    BY DEF OwesOnePerTimeout, Outstanding
  <1> HIDE DEF inSq, inCq, n
  <1>6. CASE pc # "wait"
    <2>1. inSq = 0 /\ n = 0 /\ inCq = 0
      BY <1>2, <1>3, <1>4, <1>5, <1>6
    <2> QED BY <1>2, <1>3, <1>6, <2>1 DEF n
  <1>7. CASE pc = "wait"
    <2>1. inSq + n + inCq = 1
      BY <1>2, <1>3, <1>4, <1>5, <1>7
    <2>2. inSq # 0 => n = 0 /\ inCq = 0
      BY <1>2, <1>3, <1>4, <2>1
    <2>3. n # 0 => inSq = 0 /\ n = 1 /\ inCq = 0
      BY <1>2, <1>3, <1>4, <2>1
    <2> QED BY <1>2, <1>3, <1>7, <2>2, <2>3 DEF n
  <1> QED BY <1>6, <1>7

LEMMA ServeInit == Init => ServeInv
  BY DEF Init, ServeInv

LEMMA ServeStep ==
  ASSUME timeouts = 0, IInv, [Next]_vars
  PROVE  ServeInv'
  <1>0. /\ TypeOK /\ PhaseInv /\ DmaInv /\ ServeInv
        /\ pc # "wait" => sqHead = tail /\ Len(running) = 0 /\ head = cqTail
        /\ pc = "wait" /\ sqHead # tail => Len(running) = 0 /\ head = cqTail
        /\ pc = "wait" /\ Len(running) # 0 =>
             sqHead = tail /\ Len(running) = 1 /\ head = cqTail
    BY OneOutstanding DEF IInv
  <1>a. /\ tail \in Slots /\ sqHead \in Slots /\ head \in Slots /\ cqTail \in Slots
        /\ DOMAIN running = 1 .. Len(running) /\ Len(running) \in Nat
        /\ bounce \in [Offsets -> Data \cup {None}]
        /\ disk \in [Lbas -> Data \cup {None}]
        /\ WaitsFitting
    BY <1>0, LenProperties DEF TypeOK, IInv
  <1>b. \A i \in Slots : Distance(i, i) = 0
    BY DistanceValue, RingAssumption DEF Slots
  <1>c. \A i, j \in Slots : Distance(i, j) # 0 => i # j
    BY <1>b
  <1>d. pc # "idle" => req \in Requests /\ req # None
    BY <1>0 DEF TypeOK
  <1>1. ASSUME NEW r \in Requests, Call(r)
        PROVE  ServeInv'
    <2>1. pc' = "submit" /\ req' = r /\ disk' = disk
      BY <1>1 DEF Call
    <2>2. bounce' = IF r.op = "write" /\ ~TooSmall(r)
                    THEN [o \in Offsets |-> IF o <= r.count THEN r.data[o] ELSE bounce[o]]
                    ELSE bounce
      BY <1>1 DEF Call
    <2>3. CASE r.op = "write" /\ ~TooSmall(r)
      <3>1. \A o \in Offsets : o <= r.count => r.data[o] \in Data \cup {None}
        BY <2>3, RequestFacts DEF Offsets
      <3>3. \A o \in 1 .. r.count : bounce'[o] = r.data[o]
        BY <2>2, <2>3, RequestFacts DEF Offsets
      <3> QED BY <2>1, <3>3 DEF ServeInv
    <2>4. CASE ~(r.op = "write" /\ ~TooSmall(r))
      BY <1>a, <2>1, <2>2, <2>4 DEF ServeInv, TooSmall
    <2> QED BY <2>3, <2>4
  <1>2. CASE Reject \/ Panic \/ Complete \/ Timeout
    <2>1. pc' \in {"idle", "panic"} /\ UNCHANGED <<bounce, disk>>
      BY <1>2, OutcomeEndsCall DEF Reject, Panic, Complete, Timeout, Return
    <2> QED BY <1>a, <2>1 DEF ServeInv
  <1>3. CASE Submit
    <2> DEFINE c == NewCommand
    <2>1. /\ pc = "submit" /\ ~TooSmall(req) /\ sq' = [sq EXCEPT ![tail] = c]
          /\ cid_counter' = (cid_counter + 1) % CID_LIMIT
          /\ UNCHANGED <<req, cq, head, bounce, disk, sqHead, running, cqTail>>
      BY <1>3 DEF Submit, ctlVars
    <2>2. IsCurrent(sq[sqHead])'
      <3>1. sqHead = tail /\ sq'[tail] = c
        BY <1>0, <1>a, <2>1 DEF TypeOK
      <3>2. /\ c.op = req.op /\ c.lba = req.lba /\ c.nlb = Nlb(req.count)
            /\ c.cid = cid_counter
        BY DEF NewCommand
      <3> HIDE DEF c
      <3> QED BY <2>1, <3>1, <3>2 DEF IsCurrent
    <2>3. DOMAIN running = {} /\ head = cqTail
      BY <1>0, <1>a, <2>1
    <2>4. CommandInv'
      BY <2>1, <2>2, <2>3 DEF CommandInv
    <2>5. req.op = "write" => \A o \in 1 .. req.count : bounce[o] = req.data[o]
      BY <1>0, <2>1 DEF ServeInv
    <2> QED BY <1>a, <2>1, <2>4, <2>5 DEF ServeInv, TooSmall
  <1>4. CASE Fetch
    <2> DEFINE e == [cmd |-> sq[sqHead], left |-> Sectors(sq[sqHead])]
    <2>1. /\ sqHead # tail /\ running' = Append(running, e)
          /\ sqHead' = NextSlot(sqHead)
          /\ UNCHANGED <<pc, req, tail, cid_counter, cq, head, bounce, disk, cqTail>>
      BY <1>4 DEF Fetch, driverVars
    <2>2. pc = "wait" /\ Len(running) = 0 /\ head = cqTail
      BY <1>0, <2>1 DEF TypeOK
    <2>3. CommandInv /\ ~TooSmall(req)
      BY <1>0, <1>a, <2>2 DEF ServeInv, WaitsFitting
    <2>4. IsCurrent(sq[sqHead])
      <3>1. Distance(sqHead, tail) # 0
        BY <1>a, <2>1, DistanceValue, RingAssumption DEF Slots
      <3> QED BY <2>3, <3>1 DEF CommandInv
    <2>5. DOMAIN running' = {1} /\ running'[1] = e
      BY <1>0, <2>1, <2>2 DEF TypeOK
    <2>6. Distance(sqHead', tail') = 0
      <3>1. Distance(sqHead, tail) = 1
        BY <1>0, <1>a, <2>2, LenProperties, DistanceValue, RingAssumption, <2>1
        DEF IInv, OwesOnePerTimeout, Outstanding, TypeOK, Slots
      <3>2. Distance(sqHead', tail) = Distance(sqHead, tail) - 1
        BY <1>a, <2>1, DistanceShrinks
      <3> QED BY <2>1, <3>1, <3>2
    <2>7. e.cmd = sq[sqHead] /\ 1 .. req.count \subseteq e.left
      BY <1>d, <2>2, <2>4, CurrentSectors
    <2> HIDE DEF e
    <2>8. IsCurrent(running[1].cmd)'
      BY <2>1, <2>4, <2>5, <2>7 DEF IsCurrent
    <2>9. CommandInv'
      BY <2>1, <2>2, <2>5, <2>6, <2>7, <2>8 DEF CommandInv
    <2>10. req.op = "write" => \A o \in 1 .. req.count : bounce[o] = req.data[o]
      BY <1>0, <2>2, <2>3 DEF ServeInv
    <2> QED BY <1>a, <2>1, <2>3, <2>9, <2>10 DEF ServeInv, TooSmall
  <1>5. ASSUME NEW k \in DOMAIN running, NEW o \in running[k].left, Transfer(k, o)
        PROVE  ServeInv'
    <2> DEFINE sec == running[k].cmd.lba + o - 1
    <2>1. /\ running' = [running EXCEPT ![k].left = running[k].left \ {o}]
          /\ UNCHANGED <<pc, req, tail, cid_counter, sq, cq, head, sqHead, cqTail>>
      BY <1>5 DEF Transfer, driverVars
    <2>2. /\ pc = "wait" /\ Len(running) = 1 /\ k = 1
          /\ sqHead = tail /\ head = cqTail
      BY <1>0, <1>a
    <2>3. CommandInv /\ ~TooSmall(req) /\ req \in Requests
      BY <1>0, <1>a, <1>d, <2>2 DEF ServeInv, WaitsFitting
    <2>4. IsCurrent(running[1].cmd) /\ running[1].left \subseteq Sectors(running[1].cmd)
      BY <1>0, <2>2, <2>3 DEF CommandInv, DmaInv
    <2>5. req.count > 0 =>
            /\ o \in 1 .. req.count /\ o \in Offsets /\ o \in Nat
            /\ sec = req.lba + o - 1 /\ sec \in Lbas
            /\ running[k].cmd.op = req.op
      <3> SUFFICES ASSUME req.count > 0
                   PROVE  /\ o \in 1 .. req.count /\ o \in Offsets /\ o \in Nat
                          /\ sec = req.lba + o - 1 /\ sec \in Lbas
                          /\ running[k].cmd.op = req.op
        OBVIOUS
      <3>1. o \in 1 .. req.count
        BY <2>2, <2>3, <2>4, CurrentSectors
      <3>2. running[k].cmd.lba = req.lba /\ running[k].cmd.op = req.op
        BY <2>2, <2>4 DEF IsCurrent
      <3> QED BY <2>3, <3>1, <3>2, RequestFacts
    <2> HIDE DEF sec
    <2>6. req.count > 0 =>
            IF req.op = "read"
            THEN bounce' = [bounce EXCEPT ![o] = disk[sec]] /\ disk' = disk
            ELSE disk' = [disk EXCEPT ![sec] = bounce[o]] /\ bounce' = bounce
      BY <1>5, <2>5 DEF Transfer, sec
    <2>a. \A p \in 1 .. req.count : req.count > 0
      BY <2>3, RequestFacts
    <2>8. req.op = "write" => \A p \in 1 .. req.count : bounce'[p] = req.data[p]
      BY <1>0, <2>a, <2>2, <2>3, <2>6 DEF ServeInv
    <2>9. req.count > 0 => Moved(o)'
      <3> SUFFICES ASSUME req.count > 0 PROVE Moved(o)'
        OBVIOUS
      <3>1. CASE req.op = "read"
        BY <1>a, <2>1, <2>5, <2>6, <3>1 DEF Moved
      <3>2. CASE req.op # "read"
        <4>1. bounce[o] = req.data[o]
          BY <1>0, <2>2, <2>3, <2>5, <3>2, RequestFacts DEF ServeInv
        <4> QED BY <1>a, <2>1, <2>5, <2>6, <3>2, <4>1 DEF Moved
      <3> QED BY <3>1, <3>2
    <2>10. ASSUME NEW p \in 1 .. req.count, p # o, Moved(p)
           PROVE  Moved(p)'
      <3> DEFINE s == req.lba + p - 1
      <3>a. req.lba \in Nat /\ req.count \in Nat /\ p \in Nat /\ req.count > 0
        BY <2>a, <2>3, <2>10, RequestFacts
      <3>b. s \in Lbas /\ p \in Offsets
        BY <2>3, <2>10, RequestFacts
      <3>c. s # sec
        BY <2>5, <2>10, <3>a
      <3>1. s # sec /\ s \in Lbas /\ p \in Offsets
        BY <3>b, <3>c
      <3>2. bounce'[p] = bounce[p] /\ disk'[s] = disk[s]
        <4> HIDE DEF s
        <4> QED BY <1>a, <2>6, <2>10, <3>a, <3>1
      <3> QED BY <2>1, <2>10, <3>2 DEF Moved
    <2>11. /\ DOMAIN running' = {1}
           /\ running'[1].cmd = running[1].cmd
           /\ running'[1].left = running[1].left \ {o}
      <3>1. running[1] \in [cmd : Commands, left : SUBSET Nat]
        BY <1>0, <1>a, <2>2, ElementOfSeq DEF TypeOK
      <3> QED BY <1>a, <2>1, <2>2, <3>1
    <2>12. IsCurrent(running[1].cmd)'
      BY <2>1, <2>4, <2>11 DEF IsCurrent
    <2>13. ASSUME NEW p \in 1 .. req.count, p \notin running'[1].left
           PROVE  Moved(p)'
      <3>1. CASE p = o
        BY <2>a, <2>9, <3>1
      <3>2. CASE p # o
        <4>1. p \notin running[1].left /\ 1 \in DOMAIN running
          BY <1>a, <2>2, <2>11, <2>13, <3>2
        <4>2. Moved(p)
          BY <2>3, <4>1 DEF CommandInv
        <4> QED BY <2>10, <3>2, <4>2
      <3> QED BY <3>1, <3>2
    <2>14. Distance(sqHead, tail)' = 0
      BY <1>a, <1>b, <2>1, <2>2
    <2>15. CommandInv'
      BY <2>1, <2>2, <2>11, <2>12, <2>13, <2>14 DEF CommandInv
    <2> QED BY <2>1, <2>8, <2>15 DEF ServeInv
  <1>6. ASSUME NEW k \in DOMAIN running, NEW st \in {0, 1}, PostStatus(k, st),
               st = 0 => running[k].left = {}
        PROVE  ServeInv'
    <2>1. /\ running' = RemoveAt(running, k) /\ cqTail' = NextSlot(cqTail)
          /\ cq' = [cq EXCEPT ![cqTail] = [cid |-> running[k].cmd.cid, status |-> st,
                                           phase |-> ctlPhase]]
          /\ UNCHANGED <<pc, req, tail, cid_counter, sq, head, sqHead, bounce, disk>>
      BY <1>6 DEF PostStatus, driverVars
    <2>2. /\ pc = "wait" /\ Len(running) = 1 /\ k = 1
          /\ sqHead = tail /\ head = cqTail
      BY <1>0, <1>a
    <2>3. CommandInv /\ ~TooSmall(req)
      BY <1>0, <1>a, <2>2 DEF ServeInv, WaitsFitting
    <2>4. /\ IsCurrent(running[1].cmd)
          /\ st = 0 => \A o \in 1 .. req.count : Moved(o)
      BY <1>6, <1>a, <2>2, <2>3 DEF CommandInv
    <2>5. DOMAIN running' = {}
      <3>1. /\ RemoveAt(running, 1) \in Seq([cmd : Commands, left : SUBSET Nat])
            /\ Len(RemoveAt(running, 1)) = 0
        <4> DEFINE S == [cmd : Commands, left : SUBSET Nat]
        <4>1. running \in Seq(S) /\ 1 \in 1 .. Len(running)
          BY <1>0, <2>2 DEF TypeOK
        <4> HIDE DEF S
        <4>2. RemoveAt(running, 1) \in Seq(S) /\ Len(RemoveAt(running, 1)) = Len(running) - 1
          BY <4>1, RemoveAtProperties
        <4> QED BY <2>2, <4>2 DEF S
      <3>2. DOMAIN running' = 1 .. 0
        BY <2>1, <2>2, <3>1, LenProperties
      <3> QED BY <3>2
    <2>6. cq'[head] = [cid |-> running[1].cmd.cid, status |-> st, phase |-> ctlPhase]
      BY <1>0, <1>a, <2>1, <2>2 DEF TypeOK
    <2>7. Distance(sqHead, tail)' = 0
      BY <1>a, <1>b, <2>1, <2>2
    <2>8. (cq'[head].cid + 1) % CID_LIMIT = cid_counter /\ cq'[head].status = st
      BY <2>4, <2>6 DEF IsCurrent
    <2>9. \A o : Moved(o)' <=> Moved(o)
      BY <2>1 DEF Moved
    <2>10. CommandInv'
      BY <2>1, <2>4, <2>5, <2>7, <2>8, <2>9 DEF CommandInv
    <2>11. req.op = "write" => \A o \in 1 .. req.count : bounce[o] = req.data[o]
      BY <1>0, <2>2, <2>3 DEF ServeInv
    <2> QED BY <1>a, <2>1, <2>3, <2>10, <2>11 DEF ServeInv, TooSmall
  <1>7. CASE UNCHANGED vars
    BY <1>0, <1>7 DEF vars, ServeInv, CommandInv, IsCurrent, Moved, TooSmall
  <1> QED
    BY <1>1, <1>2, <1>3, <1>4, <1>5, <1>6, <1>7
    DEF Next, Driver, Controller, Post, PostError

LEMMA InvInit == Init => IInv
  BY TypeInit, PhaseInit, DmaInit, OwesInit, ServeInit DEF IInv, Init, WaitsFitting

LEMMA InvStep ==
  ASSUME IInv, [Next]_vars
  PROVE  IInv'
  <1>1. (TypeOK /\ PhaseInv /\ DmaInv /\ WaitsFitting)'
    BY TypeStep, PhaseStep, DmaStep, FittingStep DEF IInv
  <1>2. ASSUME timeouts' = 0
        PROVE  (OwesOnePerTimeout /\ ServeInv)'
    <2>1. timeouts = 0
      BY <1>2, TimeoutsGrow DEF IInv
    <2>2. pc # "idle" => timeouts + 1 < QUEUE_SIZE
      BY <2>1, RingAssumption
    <2> QED BY <2>1, <2>2, OwesStep, ServeStep DEF IInv
  <1> QED BY <1>1, <1>2 DEF IInv

\* Until a call times out the driver need not compare CIDs: the completion it
\* takes is its own command's, for every ring size and identifier width.
THEOREM OwnAnswers == Spec => []AnswersOwnCommand
  <1>1. IInv => AnswersOwnCommand
    BY PhaseInvMeans
    DEF IInv, AnswersOwnCommand, ServeInv, CommandInv, PhaseTellsPosted
  <1> QED BY InvInit, InvStep, <1>1, PTL DEF Spec

-----------------------------------------------------------------------------
(* Every step of the driver is a step of the store or leaves it alone.     *)

LEMMA FitsMeans ==
  ASSUME NEW r \in Requests
  PROVE  Store!Fits(r) <=> ~TooSmall(r)
  BY RequestFacts, RingAssumption DEF Store!Fits, TooSmall

LEMMA CompleteRefines ==
  ASSUME timeouts = 0, IInv, Complete
  PROVE  Store!ReturnOk \/ Store!ReturnErr
  <1>1. /\ pc = "wait" /\ Fresh /\ Outcome(cq[head]) /\ UNCHANGED <<disk, timeouts>>
        /\ req \in Requests /\ req # None
    BY DEF Complete, IInv, TypeOK
  <1>2. head # cqTail
    BY <1>1, PhaseInvMeans DEF IInv, PhaseTellsPosted
  <1>3. ~TooSmall(req) /\ Store!Fits(req)
    BY <1>1, FitsMeans DEF IInv, WaitsFitting
  <1>4. CASE cq[head].status # 0
    <2>1. ret' = [status |-> "CommandError", data |-> <<>>] /\ req' = None
      BY <1>1, <1>4 DEF Outcome, Return
    <2> QED BY <1>1, <1>3, <2>1 DEF Store!ReturnErr, Store!Failures
  <1>5. CASE cq[head].status = 0
    <2>1. /\ req' = None
          /\ ret' = [status |-> "Ok",
                     data |-> IF req.op = "read" THEN SubSeq(bounce, 1, req.count)
                              ELSE <<>>]
      BY <1>1, <1>5 DEF Outcome, Return
    <2>2. \A o \in 1 .. req.count : Moved(o)
      BY <1>1, <1>2, <1>5 DEF IInv, ServeInv, CommandInv
    <2>3. /\ req.op \in {"read", "write"} /\ req.count \in Nat
          /\ req.lba \in Nat /\ req.count <= MaxCount
      BY <1>1, <1>3, RequestFacts
    <2>4. CASE req.op = "write"
      <3>1. ASSUME NEW s \in Store!Span(req)
            PROVE  disk[s] = Store!Part(req, s)
        <4>1. s - req.lba + 1 \in 1 .. req.count
          BY <2>3, <3>1 DEF Store!Span
        <4>2. req.lba + (s - req.lba + 1) - 1 = s
          BY <2>3, <3>1 DEF Store!Span
        <4> QED BY <2>2, <2>4, <4>1, <4>2 DEF Moved, Store!Part
      <3> QED BY <1>1, <1>3, <2>1, <2>4, <3>1 DEF Store!ReturnOk
    <2>5. CASE req.op = "read"
      <3>1. SubSeq(bounce, 1, req.count) = [i \in 1 .. req.count |-> disk[req.lba + i - 1]]
        <4>1. SubSeq(bounce, 1, req.count) = [i \in 1 .. req.count |-> bounce[i]]
          BY <2>3
        <4>2. \A i \in 1 .. req.count : bounce[i] = disk[req.lba + i - 1]
          BY <2>2, <2>5 DEF Moved
        <4> QED BY <4>1, <4>2
      <3> QED BY <1>1, <1>3, <2>1, <2>5, <3>1 DEF Store!ReturnOk
    <2> QED BY <2>3, <2>4, <2>5
  <1> QED BY <1>4, <1>5

LEMMA TransferRefines ==
  ASSUME timeouts = 0, IInv, ~(req # None /\ req.count = 0),
         NEW k \in DOMAIN running, NEW o \in running[k].left, Transfer(k, o)
  PROVE  Store!Persist \/ UNCHANGED Store!vars
  <1>1. Len(running) # 0
    BY LenProperties DEF IInv, TypeOK
  <1>2. pc = "wait"
    BY <1>1, OneOutstanding DEF IInv
  <1>3. /\ CommandInv /\ ~TooSmall(req) /\ req \in Requests /\ req # None
        /\ req.op = "write" => \A p \in 1 .. req.count : bounce[p] = req.data[p]
    BY <1>2 DEF IInv, ServeInv, WaitsFitting, TypeOK
  <1>4. IsCurrent(running[k].cmd) /\ o \in 1 .. req.count /\ o \in Offsets
    <2>1. IsCurrent(running[k].cmd) /\ o \in Sectors(running[k].cmd)
      BY <1>3 DEF CommandInv, IInv, DmaInv
    <2>2. req.count > 0
      BY <1>3, RequestFacts
    <2> QED BY <1>3, <2>1, <2>2, CurrentSectors, RequestFacts
  <1>5. /\ UNCHANGED <<req, ret, timeouts>>
        /\ LET s == running[k].cmd.lba + o - 1 IN
           IF running[k].cmd.op = "read"
           THEN bounce' = [bounce EXCEPT ![o] = disk[s]] /\ UNCHANGED disk
           ELSE disk' = [disk EXCEPT ![s] = bounce[o]] /\ UNCHANGED bounce
    BY <1>4 DEF Transfer, driverVars
  <1>6. CASE req.op = "read"
    BY <1>5, <1>4, <1>6 DEF IsCurrent, Store!vars
  <1>7. CASE req.op # "read"
    <2> DEFINE s == req.lba + o - 1
    <2>1. req.op = "write" /\ req.lba \in Nat /\ req.count \in Nat /\ Store!Fits(req)
      BY <1>3, <1>7, RequestFacts, FitsMeans
    <2>2. s \in Store!Span(req) /\ Store!Part(req, s) = req.data[o]
      BY <1>4, <2>1 DEF Store!Span, Store!Part
    <2>3. disk' = [disk EXCEPT ![s] = req.data[o]]
      BY <1>5, <1>3, <1>4, <1>7, <2>1 DEF IsCurrent
    <2> HIDE DEF s
    <2> QED BY <1>5, <1>3, <2>1, <2>2, <2>3 DEF Store!Persist
  <1> QED BY <1>6, <1>7

\* After a timeout a call may be answered by what is not its own, and a command that
\* was left behind may still write.
LEMMA LateCompleteRefines ==
  ASSUME timeouts > 0, IInv, Complete
  PROVE  Store!Next
  <1>1. /\ pc = "wait" /\ Outcome(cq[head]) /\ UNCHANGED <<disk, timeouts>>
        /\ req \in Requests /\ req # None /\ bounce \in [Offsets -> Data \cup {None}]
    BY DEF Complete, IInv, TypeOK
  <1>2. ~TooSmall(req) /\ Store!Fits(req)
    BY <1>1, FitsMeans DEF IInv, WaitsFitting
  <1>3. CASE cq[head].status # 0
    <2>1. ret' = [status |-> "CommandError", data |-> <<>>] /\ req' = None
      BY <1>1, <1>3 DEF Outcome, Return
    <2> QED BY <1>1, <1>2, <2>1 DEF Store!Next, Store!ReturnErr, Store!Failures
  <1>4. CASE cq[head].status = 0
    <2> DEFINE room == SubSeq(bounce, 1, req.count)
               data == [i \in 1 .. req.count |-> IF req.op = "read" THEN room[i] ELSE None]
    <2>1. /\ req' = None
          /\ ret' = [status |-> "Ok", data |-> IF req.op = "read" THEN room ELSE <<>>]
      BY <1>1, <1>4 DEF Outcome, Return
    <2>2. req.count \in Nat /\ req.count <= MaxCount /\ req.op \in {"read", "write"}
      BY <1>1, <1>2, RequestFacts
    <2>3. room = [i \in 1 .. req.count |-> bounce[i]]
      BY <2>2
    <2>4. \A i \in 1 .. req.count : bounce[i] \in Data \cup {None}
      BY <1>1, <2>2, RingAssumption DEF Offsets
    <2>5. data \in [1 .. req.count -> Data \cup {None}]
      BY <2>3, <2>4
    <2>6. req.op = "read" => data = room
      BY <2>3
    <2> HIDE DEF data, room
    <2>7. ret' = [status |-> "Ok", data |-> IF req.op = "write" THEN <<>> ELSE data]
      BY <2>1, <2>2, <2>6
    <2>8. Store!LateOk(data)
      BY <1>1, <1>2, <2>1, <2>7 DEF Store!LateOk
    <2> QED BY <1>1, <2>5, <2>8 DEF Store!Next
  <1> QED BY <1>3, <1>4

LEMMA LateTransferRefines ==
  ASSUME timeouts > 0, IInv,
         NEW k \in DOMAIN running, NEW o \in running[k].left, Transfer(k, o)
  PROVE  Store!Next \/ UNCHANGED Store!vars
  <1> DEFINE s == running[k].cmd.lba + o - 1
             C == Data \cup {None}
  <1>1. s \in Lbas /\ bounce \in [Offsets -> C] /\ UNCHANGED <<req, ret, timeouts>>
    BY DEF Transfer, IInv, TypeOK, driverVars
  <1>2. UNCHANGED disk \/ \E d \in C : disk' = [disk EXCEPT ![s] = d]
    <2>1. \/ UNCHANGED disk
          \/ o \in Offsets /\ disk' = [disk EXCEPT ![s] = bounce[o]]
          \/ \E d \in Data : disk' = [disk EXCEPT ![s] = d]
      BY DEF Transfer
    <2> HIDE DEF s
    <2>2. Data \subseteq C
      OBVIOUS
    <2> HIDE DEF C
    <2> QED BY <1>1, <2>1, <2>2
  <1>3. CASE UNCHANGED disk
    BY <1>1, <1>3 DEF Store!vars
  <1>4. ASSUME NEW d \in C, disk' = [disk EXCEPT ![s] = d] PROVE Store!Next
    <2> HIDE DEF s
    <2>1. Store!LatePersist(s, d)
      BY <1>1, <1>4 DEF Store!LatePersist
    <2> QED BY <1>1, <2>1 DEF Store!Next
  <1> QED BY <1>2, <1>3, <1>4

LEMMA StepRefines ==
  ASSUME IInv, [Next]_vars, ~(req # None /\ req.count = 0)
  PROVE  [Store!Next]_(Store!vars)
  <1>0. timeouts = 0 \/ timeouts > 0
    BY RingAssumption DEF IInv, TypeOK
  <1>1. ASSUME NEW r \in Requests, Call(r)
        PROVE  Store!Next
    BY <1>1 DEF Call, IInv, TypeOK, Store!Next, Store!Call
  <1>2. CASE Reject
    <2>1. req \in Requests /\ req # None /\ TooSmall(req) /\ UNCHANGED timeouts
      BY <1>2 DEF Reject, IInv, TypeOK
    <2>2. ~Store!Fits(req)
      BY <2>1, FitsMeans
    <2> QED BY <1>2, <2>1, <2>2
        DEF Reject, Return, Store!Next, Store!ReturnErr, Store!Failures
  <1>3. CASE Complete
    BY <1>0, <1>3, CompleteRefines, LateCompleteRefines DEF Store!Next
  <1>4. CASE Timeout
    <2>1. /\ req \in Requests /\ req # None /\ ~TooSmall(req) /\ UNCHANGED disk
          /\ timeouts' > 0 /\ req' = None
          /\ ret' = [status |-> "Timeout", data |-> <<>>]
      BY <1>4, RingAssumption DEF Timeout, Return, IInv, TypeOK, WaitsFitting
    <2>2. Store!Fits(req)
      BY <2>1, FitsMeans
    <2> QED BY <2>1, <2>2 DEF Store!Next, Store!ReturnErr, Store!Failures
  <1>5. ASSUME NEW k \in DOMAIN running, NEW o \in running[k].left, Transfer(k, o)
        PROVE  [Store!Next]_(Store!vars)
    BY <1>0, <1>5, TransferRefines, LateTransferRefines DEF Store!Next
  <1>6. CASE UNCHANGED <<disk, req, ret, timeouts>>
    BY <1>6 DEF Store!vars
  <1> QED
    BY <1>1, <1>2, <1>3, <1>4, <1>5, <1>6
    DEF Next, Driver, Controller, Panic, Submit, Fetch, Post, PostError, PostStatus,
        vars, driverVars

\* The rings, the phase bit, the bounce buffer and the DMA together are a sector
\* store that is synchronous until a call times out, for every ring size and every
\* set of calls.
THEOREM StoreRefinement == Spec => IsSectorStore
  <1>1. Init => Store!Init
    BY DEF Init, Store!Init
  <1>2. IInv /\ [Next]_vars => [(req # None /\ req.count = 0) \/ Store!Next]_(Store!vars)
    BY StepRefines
  <1> QED BY InvInit, InvStep, <1>1, <1>2, PTL DEF Spec, IsSectorStore
===============================================================================
