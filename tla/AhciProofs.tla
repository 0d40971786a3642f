------------------------------- MODULE AhciProofs -------------------------------
(* Proofs about Ahci, for any disk, calls, bounce buffer and number of waits  *)
(* that run out.                                                              *)
EXTENDS Ahci, SequenceTheorems, TLAPS

Fitting(r) == r \in Requests /\ ~TooSmall(r)

Cmds ==
  [op : {"none", "identify", "read", "write"}, lba : Nat, count : 0 .. COUNT_LIMIT - 1]
Entries == [dba : {"bounce", "elsewhere"}, room : Nat]

TypeOK ==
  /\ pc \in {"idle", "setup", "zeroed", "fis", "busy", "poll", "panic"}
  /\ req \in Requests \cup {None}
  /\ (pc = "idle") <=> (req = None)
  /\ bounce \in [Offsets -> Data \cup {None}]
  /\ disk \in [Lbas -> Data \cup {None}]
  /\ timeouts \in Nat

\* No call made it past the size test that does not fit the bounce frame.
FitInv == pc \in {"zeroed", "fis", "busy", "poll", "panic"} => ~TooSmall(req)

\* The HBA works only while the bit in PxCI is set and no error has halted it; until a
\* wait runs out the driver refills the slot of an HBA that has nothing to do.
QuietInv ==
  /\ active # None => ci /\ ~err /\ (active.left = {} \/ active.ready)
  /\ timeouts = 0 /\ pc # "poll" => ~ci \/ err

\* A whole command and a whole PRDT entry, each of some call that fits.
SlotWhole ==
  /\ \E r \in Requests : Fitting(r) /\ slot.fis = Fis(r)
  /\ \E r \in Requests : Fitting(r) /\ slot.prdt = Prdt(r)

\* Once a bit of PxCI may be set the slot is not that of IDENTIFY any more, and what
\* the HBA has read outside a refill is whole, though not always of the call in
\* progress, or of one call.
SlotInv ==
  /\ pc \in {"zeroed", "fis"} => req \in Requests
  /\ pc = "fis" => slot.fis = Fis(req)
  /\ pc \in {"busy", "poll"} \/ (pc \in {"idle", "setup"} /\ ci) => SlotWhole

Whole(cmd) == \E r \in Requests : Fitting(r) /\ cmd.cmd = Fis(r)
WholePrdt(cmd) ==
  \E r \in Requests : /\ Fitting(r) /\ cmd.prdt = Prdt(r)
                      /\ cmd.left \subseteq Sectors(cmd.cmd)

ActiveInv ==
  active # None =>
    \/ active.torn /\ timeouts > 0
    \/ Whole(active) /\ (active.ready => WholePrdt(active))

DmaInv == FitInv /\ QuietInv /\ SlotInv /\ ActiveInv

\* Sector o of the call in progress has been moved.
Moved(o) ==
  LET s == req.lba + o - 1 IN
  IF req.op = "read" THEN bounce[o] = disk[s] ELSE disk[s] = req.data[o]

\* Until a wait runs out the HBA works on the call in progress and on nothing else.
ServeInv ==
  /\ pc # "idle" /\ ~TooSmall(req) /\ req.op = "write" =>
       \A o \in 1 .. req.count : bounce[o] = req.data[o]
  /\ pc \in {"fis", "busy", "poll"} => slot.fis = Fis(req)
  /\ pc \in {"busy", "poll"} => slot.prdt = Prdt(req)
  /\ active # None =>
       /\ active.cmd = slot.fis
       /\ active.ready =>
            /\ active.prdt = slot.prdt
            /\ active.left \subseteq Sectors(active.cmd)
            /\ \A o \in 1 .. req.count : o \notin active.left => Moved(o)
  /\ pc = "poll" /\ ~ci /\ ~err => \A o \in 1 .. req.count : Moved(o)

IInv ==
  /\ TypeOK /\ DmaInv
  /\ timeouts = 0 => ServeInv

-----------------------------------------------------------------------------
(* The calls.                                                              *)

LEMMA RequestFacts ==
  ASSUME NEW r \in Requests
  PROVE  /\ r.count \in Nat /\ r.count < COUNT_LIMIT /\ r.lba \in Nat
         /\ r.op \in {"read", "write"}
         /\ r.data \in Seq(Data \cup {None}) /\ Len(r.data) \in Nat
         /\ r # None
         /\ ~TooSmall(r) =>
              /\ r.count <= MaxCount /\ r.count <= Len(r.data)
              /\ \A o \in 1 .. r.count :
                   o \in Offsets /\ r.data[o] \in Data \cup {None}
  <1>1. r \in [op : {"read", "write"}, lba : Nat, count : 0 .. COUNT_LIMIT - 1,
               data : Seq(Data \cup {None})]
    BY AhciRequests
  <1>2. r # None
    BY AhciRequests
  <1>3. Len(r.data) \in Nat /\ MaxCount \in Nat
    BY <1>1, LenProperties, AhciAssumption
  <1>4. ASSUME ~TooSmall(r)
        PROVE  r.count <= MaxCount /\ r.count <= Len(r.data)
    BY <1>1, <1>3, <1>4 DEF TooSmall
  <1>5. ASSUME ~TooSmall(r), NEW o \in 1 .. r.count
        PROVE  o \in Offsets /\ r.data[o] \in Data \cup {None}
    <2>1. o \in 1 .. Len(r.data) /\ o \in Offsets
      BY <1>1, <1>3, <1>4, <1>5 DEF Offsets
    <2> QED BY <1>1, <2>1, ElementOfSeq
  <1> QED BY <1>1, <1>2, <1>3, <1>4, <1>5, AhciAssumption

\* A whole command has a call's sectors, which are all of the disk's, unless its count
\* is 0.
LEMMA WholeInBounds ==
  ASSUME NEW r \in Requests, Fitting(r), NEW cmd, cmd = Fis(r), cmd.count # 0,
         NEW o \in Sectors(cmd)
  PROVE  /\ o \in 1 .. r.count /\ o \in Offsets
         /\ cmd.lba + o - 1 \in Lbas
  <1>1. /\ r.count \in Nat /\ r.lba \in Nat /\ r.count <= MaxCount
        /\ (r.lba % LBA_LIMIT) .. ((r.lba % LBA_LIMIT) + r.count - 1) \subseteq Lbas
        /\ LBA_LIMIT \in Nat \ {0} /\ MaxCount \in Nat
    BY RequestFacts, AhciRequests, AhciAssumption DEF Fitting
  <1> DEFINE m == r.lba % LBA_LIMIT
  <1>2. m \in Nat
    BY <1>1
  <1>3. cmd.lba = m /\ cmd.count = r.count /\ cmd.op = r.op
    BY DEF Fis
  <1>4. o \in 1 .. r.count
    BY <1>3 DEF Sectors
  <1> HIDE DEF m
  <1>5. m + o - 1 \in m .. (m + r.count - 1)
    BY <1>1, <1>2, <1>4
  <1> QED BY <1>1, <1>3, <1>4, <1>5 DEF m, Offsets

-----------------------------------------------------------------------------
(* Types, and the bounds of the DMA.                                       *)

LEMMA TypeInit == Init => TypeOK
  BY DEF Init, TypeOK

LEMMA TransferTypes ==
  ASSUME TypeOK, active # None, NEW o \in active.left, Transfer(o)
  PROVE  /\ bounce' \in [Offsets -> Data \cup {None}]
         /\ disk' \in [Lbas -> Data \cup {None}]
  <1> DEFINE s == active.cmd.lba + o - 1
             V == Data \cup {None}
  <1>1. s \in Lbas /\ bounce \in [Offsets -> V] /\ disk \in [Lbas -> V]
    BY DEF TypeOK, Transfer
  <1>2. \/ bounce' = bounce
        \/ o \in Offsets /\ bounce' = [bounce EXCEPT ![o] = disk[s]]
    BY DEF Transfer, InFrame
  <1>3. disk' = disk \/ \E d \in V : disk' = [disk EXCEPT ![s] = d]
    <2>1. CASE active.cmd.op = "read"
      BY <2>1 DEF Transfer
    <2>2. CASE active.cmd.op # "read" /\ InFrame(o)
      <3>1. disk' = [disk EXCEPT ![s] = bounce[o]] /\ bounce[o] \in V
        BY <1>1, <2>2 DEF Transfer, InFrame
      <3> QED BY <3>1
    <2>3. CASE active.cmd.op # "read" /\ ~InFrame(o)
      BY <2>3 DEF Transfer
    <2> QED BY <2>1, <2>2, <2>3
  <1> HIDE DEF s, V
  <1> QED BY <1>1, <1>2, <1>3 DEF V

LEMMA CallBounce ==
  ASSUME TypeOK, NEW r \in Requests, Call(r)
  PROVE  /\ bounce' \in [Offsets -> Data \cup {None}]
         /\ r.op = "write" /\ ~TooSmall(r) =>
              \A o \in 1 .. r.count : bounce'[o] = r.data[o]
  <1>1. bounce \in [Offsets -> Data \cup {None}]
    BY DEF TypeOK
  <1>2. CASE r.op = "write" /\ ~TooSmall(r)
    <2>1. bounce' = [o \in Offsets |-> IF o <= r.count THEN r.data[o] ELSE bounce[o]]
      BY <1>2 DEF Call
    <2>2. \A o \in Offsets : o <= r.count => r.data[o] \in Data \cup {None}
      BY <1>2, RequestFacts DEF Offsets
    <2>3. \A o \in 1 .. r.count : o \in Offsets /\ o <= r.count
      BY <1>2, RequestFacts DEF Offsets
    <2> QED BY <1>1, <2>1, <2>2, <2>3
  <1>3. CASE ~(r.op = "write" /\ ~TooSmall(r))
    BY <1>1, <1>3 DEF Call
  <1> QED BY <1>2, <1>3

LEMMA TypeStep ==
  ASSUME TypeOK, [Next]_vars
  PROVE  TypeOK'
  <1> USE DEF TypeOK
  <1>1. ASSUME NEW r \in Requests, Call(r) PROVE TypeOK'
    BY <1>1, CallBounce, RequestFacts DEF Call, hbaVars
  <1>2. CASE Reject \/ Complete
    BY <1>2 DEF Reject, Complete, Return, hbaVars
  <1>3. CASE Timeout
    BY <1>3 DEF Timeout, StillBusy, Return, hbaVars
  <1>4. CASE ZeroTable \/ CopyFis \/ SetPrdt \/ Panic \/ Issue
    BY <1>4 DEF ZeroTable, CopyFis, SetPrdt, Panic, Issue, hbaVars
  <1>5. CASE FetchFis \/ FetchPrdt \/ ClearBusy \/ ClearIssue \/ Fail
    BY <1>5 DEF FetchFis, FetchPrdt, ClearBusy, ClearIssue, Fail
  <1>6. ASSUME active # None, NEW o \in active.left, Transfer(o) PROVE TypeOK'
    BY <1>6, TransferTypes DEF Transfer
  <1>7. CASE UNCHANGED vars
    BY <1>7 DEF vars, hbaVars
  <1> QED BY <1>1, <1>2, <1>3, <1>4, <1>5, <1>6, <1>7 DEF Next, Driver, Hba

LEMMA DmaInit == Init => DmaInv
  BY DEF Init, DmaInv, FitInv, QuietInv, SlotInv, ActiveInv

LEMMA FitStep ==
  ASSUME TypeOK, FitInv, [Next]_vars
  PROVE  FitInv'
  BY DEF TypeOK, FitInv, Next, Driver, Hba, Call, Reject, ZeroTable, CopyFis, SetPrdt, Panic,
         Issue, Complete, Timeout, Return, FetchFis, FetchPrdt, Transfer, ClearBusy,
         ClearIssue, Fail, vars, hbaVars, TooSmall

LEMMA QuietStep ==
  ASSUME TypeOK, QuietInv, [Next]_vars
  PROVE  QuietInv'
  <1> USE DEF QuietInv, TypeOK
  <1>1. ASSUME NEW r \in Requests, Call(r) PROVE QuietInv'
    BY <1>1 DEF Call, hbaVars
  <1>2. CASE Reject \/ Complete
    BY <1>2 DEF Reject, Complete, Return, hbaVars
  <1>3. CASE Timeout
    BY <1>3 DEF Timeout, hbaVars
  <1>4. CASE ZeroTable \/ CopyFis \/ SetPrdt \/ Panic \/ Issue
    BY <1>4 DEF ZeroTable, CopyFis, SetPrdt, Panic, Issue, hbaVars
  <1>5. CASE FetchFis \/ FetchPrdt \/ ClearBusy \/ ClearIssue \/ Fail
    BY <1>5 DEF FetchFis, FetchPrdt, ClearBusy, ClearIssue, Fail
  <1>6. ASSUME active # None, NEW o \in active.left, Transfer(o) PROVE QuietInv'
    BY <1>6 DEF Transfer
  <1>7. CASE UNCHANGED vars
    BY <1>7 DEF vars, hbaVars
  <1> QED BY <1>1, <1>2, <1>3, <1>4, <1>5, <1>6, <1>7 DEF Next, Driver, Hba

LEMMA SlotStep ==
  ASSUME TypeOK, FitInv, QuietInv, SlotInv, [Next]_vars
  PROVE  SlotInv'
  <1> USE DEF SlotInv
  <1>1. ASSUME NEW r \in Requests, Call(r) PROVE SlotInv'
    BY <1>1 DEF Call, hbaVars, SlotWhole
  <1>2. CASE Reject \/ Complete
    BY <1>2 DEF Reject, Complete, Return, hbaVars, SlotWhole
  <1>3. CASE Timeout
    BY <1>3 DEF Timeout, StillBusy, Return, hbaVars, SlotWhole
  <1>4. CASE ZeroTable \/ Panic
    BY <1>4 DEF ZeroTable, Panic, TypeOK
  <1>5. CASE CopyFis
    BY <1>5 DEF CopyFis, TypeOK
  <1>6. CASE SetPrdt
    <2>1. /\ slot'.fis = slot.fis /\ slot'.prdt = Prdt(req) /\ Fitting(req)
          /\ pc' = "busy" /\ slot.fis = Fis(req) /\ req \in Requests
      BY <1>6 DEF SetPrdt, FitInv, TypeOK, Fitting
    <2>2. SlotWhole'
      BY <2>1 DEF SlotWhole
    <2> QED BY <2>1, <2>2
  <1>7. CASE Issue
    BY <1>7 DEF Issue, SlotWhole
  <1>8. CASE FetchFis \/ FetchPrdt \/ ClearBusy \/ ClearIssue \/ Fail
    BY <1>8 DEF FetchFis, FetchPrdt, ClearBusy, ClearIssue, Fail, SlotWhole
  <1>9. ASSUME active # None, NEW o \in active.left, Transfer(o) PROVE SlotInv'
    BY <1>9 DEF Transfer, SlotWhole
  <1>10. CASE UNCHANGED vars
    BY <1>10 DEF vars, hbaVars, SlotWhole
  <1> QED BY <1>1, <1>2, <1>3, <1>4, <1>5, <1>6, <1>7, <1>8, <1>9, <1>10
          DEF Next, Driver, Hba

\* Outside a refill the HBA reads the slot as it is, with the bit in PxCI set.
LEMMA ReadsWhole ==
  ASSUME TypeOK, SlotInv, ci, ~Refilling
  PROVE  SlotWhole /\ FisSeen = {slot.fis} /\ PrdtSeen = {slot.prdt}
  <1>1. ~(pc = "setup" /\ ~TooSmall(req)) /\ pc \notin {"zeroed", "fis", "panic"}
    BY DEF Refilling
  <1>2. pc \in {"idle", "setup", "busy", "poll"}
    BY <1>1 DEF TypeOK
  <1> QED BY <1>1, <1>2 DEF SlotInv, FisSeen, PrdtSeen

LEMMA ActiveStep ==
  ASSUME TypeOK, FitInv, QuietInv, SlotInv, ActiveInv, [Next]_vars
  PROVE  ActiveInv'
  <1>0. ASSUME UNCHANGED <<active, timeouts>> PROVE ActiveInv'
    BY <1>0 DEF ActiveInv, Whole, WholePrdt
  <1>1. CASE Timeout
    BY <1>1 DEF Timeout, hbaVars, ActiveInv, Whole, WholePrdt, TypeOK
  <1>2. CASE FetchFis
    <2>1. PICK fis \in FisSeen :
            active' = [cmd |-> fis, prdt |-> ZeroPrdt, ready |-> FALSE, left |-> {},
                       torn |-> Refilling]
      BY <1>2 DEF FetchFis
    <2>2. ci /\ ~err /\ UNCHANGED timeouts
      BY <1>2 DEF FetchFis
    <2>3. CASE Refilling
      <3>1. timeouts > 0
        BY <2>2, <2>3 DEF QuietInv, TypeOK, Refilling
      <3> QED BY <2>1, <2>2, <2>3, <3>1 DEF ActiveInv
    <2>4. CASE ~Refilling
      <3>1. SlotWhole /\ fis = slot.fis
        BY <2>1, <2>2, <2>4, ReadsWhole
      <3>2. active'.cmd = slot.fis /\ ~active'.ready
        BY <2>1, <3>1
      <3> QED BY <3>1, <3>2 DEF ActiveInv, SlotWhole, Whole
    <2> QED BY <2>3, <2>4
  <1>3. CASE FetchPrdt
    <2>1. PICK prdt \in PrdtSeen :
            active' = [cmd |-> active.cmd, prdt |-> prdt, ready |-> TRUE,
                       left |-> {o \in Sectors(active.cmd) : o <= prdt.room},
                       torn |-> active.torn \/ Refilling]
      BY <1>3 DEF FetchPrdt
    <2>2. active # None /\ ci /\ ~err /\ UNCHANGED timeouts
      BY <1>3 DEF FetchPrdt, QuietInv
    <2>3. CASE Refilling
      <3>1. timeouts > 0
        BY <2>2, <2>3 DEF QuietInv, TypeOK, Refilling
      <3> QED BY <2>1, <2>2, <2>3, <3>1 DEF ActiveInv
    <2>4. CASE ~Refilling
      <3>1. SlotWhole /\ prdt = slot.prdt
        BY <2>1, <2>2, <2>4, ReadsWhole
      <3>2. /\ active'.cmd = active.cmd /\ active'.prdt = slot.prdt
            /\ active'.left \subseteq Sectors(active'.cmd)
            /\ active'.torn = (active.torn \/ Refilling)
        BY <2>1, <3>1
      <3>3. WholePrdt(active')
        BY <3>1, <3>2 DEF SlotWhole, WholePrdt
      <3>4. CASE active.torn /\ timeouts > 0
        BY <2>2, <3>2, <3>4 DEF ActiveInv
      <3>5. CASE Whole(active)
        <4>1. Whole(active')
          BY <3>2, <3>5 DEF Whole
        <4> QED BY <3>3, <4>1 DEF ActiveInv, Whole, WholePrdt
      <3> QED BY <2>2, <3>4, <3>5 DEF ActiveInv
    <2> QED BY <2>3, <2>4
  <1>4. ASSUME active # None, NEW o \in active.left, Transfer(o) PROVE ActiveInv'
    <2>1. active' = [active EXCEPT !.left = active.left \ {o}] /\ UNCHANGED timeouts
      BY <1>4 DEF Transfer
    <2>2. CASE active.torn /\ timeouts > 0
      BY <2>1, <2>2 DEF ActiveInv
    <2>3. CASE Whole(active) /\ (active.ready => WholePrdt(active))
      BY <2>1, <2>3 DEF ActiveInv, Whole, WholePrdt
    <2> QED BY <1>4, <2>2, <2>3 DEF ActiveInv
  <1>5. CASE ClearIssue \/ Fail
    BY <1>5 DEF ClearIssue, Fail, ActiveInv
  <1> QED
    BY <1>0, <1>1, <1>2, <1>3, <1>4, <1>5
    DEF Next, Driver, Hba, Call, Reject, ZeroTable, CopyFis, SetPrdt, Panic, Issue, Complete,
        ClearBusy, vars, hbaVars

LEMMA DmaStep ==
  ASSUME TypeOK, DmaInv, [Next]_vars
  PROVE  DmaInv'
  BY FitStep, QuietStep, SlotStep, ActiveStep DEF DmaInv

-----------------------------------------------------------------------------
(* Until a wait runs out.  A command carries 48 bits of its call's address: *)
(* the calls of the store are those whose address it can carry.             *)

WholeAddresses == \A r \in Requests : r.lba < LBA_LIMIT

LEMMA FisOfCall ==
  ASSUME WholeAddresses, NEW r \in Requests
  PROVE  /\ Fis(r).op = r.op /\ Fis(r).lba = r.lba /\ Fis(r).count = r.count
         /\ ~TooSmall(r) => \A o \in 1 .. r.count : r.lba + o - 1 \in Lbas
         /\ r.count # 0 => Sectors(Fis(r)) = 1 .. r.count
         /\ 1 .. r.count \subseteq Sectors(Fis(r))
  <1>1. r.lba \in Nat /\ r.lba < LBA_LIMIT /\ LBA_LIMIT \in Nat /\ r.count \in Nat
    BY RequestFacts, AhciAssumption DEF WholeAddresses
  <1>2. r.lba % LBA_LIMIT = r.lba
    BY <1>1
  <1>3. ~TooSmall(r) => r.lba .. (r.lba + r.count - 1) \subseteq Lbas
    BY <1>2, RequestFacts, AhciRequests
  <1>4. ASSUME ~TooSmall(r), NEW o \in 1 .. r.count PROVE r.lba + o - 1 \in Lbas
    <2>1. r.lba + o - 1 \in r.lba .. (r.lba + r.count - 1)
      BY <1>1
    <2> QED BY <1>3, <1>4, <2>1
  <1>5. Fis(r).op = r.op /\ Fis(r).lba = r.lba /\ Fis(r).count = r.count
    BY <1>2 DEF Fis
  <1>6. r.op \in {"read", "write"}
    BY RequestFacts
  <1> QED BY <1>1, <1>4, <1>5, <1>6 DEF Sectors

LEMMA TimeoutsGrow ==
  ASSUME TypeOK, [Next]_vars, timeouts' = 0
  PROVE  timeouts = 0
  BY DEF TypeOK, Next, Driver, Hba, Call, Reject, ZeroTable, CopyFis, SetPrdt, Panic, Issue,
         Complete, Timeout, FetchFis, FetchPrdt, Transfer, ClearBusy, ClearIssue, Fail, vars

LEMMA ServeInit == Init => ServeInv
  BY DEF Init, ServeInv

\* The call for no sectors aside, moving a sector of the call in progress leaves those
\* moved before as they are.
LEMMA TransferServes ==
  ASSUME WholeAddresses, TypeOK, DmaInv, ServeInv, timeouts = 0, req.count # 0,
         active # None, active.ready, NEW o \in active.left, Transfer(o)
  PROVE  /\ pc = "poll" /\ req \in Requests /\ ~TooSmall(req) /\ req # None
         /\ o \in 1 .. req.count
         /\ Moved(o)'
         /\ \A p \in 1 .. req.count : Moved(p) => Moved(p)'
         /\ req.op = "write" =>
              /\ disk' = [disk EXCEPT ![req.lba + o - 1] = req.data[o]]
              /\ bounce' = bounce
         /\ req.op = "read" => disk' = disk
  <1> DEFINE s(p) == req.lba + p - 1
  <1>1. /\ pc = "poll" /\ req \in Requests /\ req # None /\ ~TooSmall(req)
        /\ active.cmd = Fis(req) /\ active.prdt = Prdt(req)
    <2>1. pc = "poll"
      BY DEF DmaInv, QuietInv
    <2> QED BY <2>1 DEF ServeInv, TypeOK, DmaInv, FitInv
  <1>2. active.cmd.op = req.op /\ active.cmd.lba = req.lba /\ active.cmd.count = req.count
    BY <1>1, FisOfCall
  <1>3. o \in 1 .. req.count
    <2>1. active.left \subseteq Sectors(Fis(req))
      BY <1>1 DEF ServeInv
    <2> QED BY <1>1, <2>1, FisOfCall
  <1>4. /\ \A p \in 1 .. req.count : s(p) \in Lbas /\ p \in Offsets
        /\ req.lba \in Nat /\ req.count \in Nat /\ req.op \in {"read", "write"}
    BY <1>1, FisOfCall, RequestFacts
  <1>5. \A p \in 1 .. req.count : p # o => s(p) # s(o)
    BY <1>3, <1>4
  <1>6. /\ bounce \in [Offsets -> Data \cup {None}] /\ disk \in [Lbas -> Data \cup {None}]
        /\ req' = req
        /\ IF req.op = "read"
           THEN bounce' = [bounce EXCEPT ![o] = disk[s(o)]] /\ disk' = disk
           ELSE disk' = [disk EXCEPT ![s(o)] = bounce[o]] /\ bounce' = bounce
    <2>1. InFrame(o)
      BY <1>1, <1>3, <1>4 DEF InFrame, Prdt
    <2>2. /\ req' = req
          /\ IF req.op = "read"
             THEN bounce' = [bounce EXCEPT ![o] = disk[s(o)]] /\ disk' = disk
             ELSE disk' = [disk EXCEPT ![s(o)] = bounce[o]] /\ bounce' = bounce
      BY <1>2, <2>1 DEF Transfer
    <2> QED BY <2>2 DEF TypeOK
  <1>7. req.op = "write" => bounce[o] = req.data[o]
    BY <1>1, <1>3 DEF ServeInv
  <1>8. \A p : /\ Moved(p) <=> IF req.op = "read" THEN bounce[p] = disk[s(p)]
                               ELSE disk[s(p)] = req.data[p]
               /\ Moved(p)' <=> IF req.op = "read" THEN bounce'[p] = disk'[s(p)]
                                ELSE disk'[s(p)] = req.data[p]
    BY <1>6 DEF Moved
  <1> HIDE DEF s
  <1>9. CASE req.op = "read"
    BY <1>1, <1>3, <1>4, <1>5, <1>6, <1>8, <1>9
  <1>10. CASE req.op = "write"
    <2>1. disk' = [disk EXCEPT ![s(o)] = req.data[o]] /\ bounce' = bounce
      BY <1>6, <1>7, <1>10
    <2>2. disk'[s(o)] = req.data[o] /\ s(o) \in Lbas
      BY <1>3, <1>4, <1>6, <2>1
    <2>3. \A p \in 1 .. req.count : p # o => disk'[s(p)] = disk[s(p)]
      BY <1>4, <1>5, <1>6, <2>1
    <2>4. Moved(o)' /\ \A p \in 1 .. req.count : Moved(p) => Moved(p)'
      BY <1>8, <1>10, <2>2, <2>3
    <2> QED BY <1>1, <1>3, <1>10, <2>1, <2>4 DEF s
  <1> QED BY <1>4, <1>9, <1>10

LEMMA MovedSame ==
  ASSUME UNCHANGED <<req, bounce, disk>>
  PROVE  \A o : Moved(o)' <=> Moved(o)
  BY DEF Moved

LEMMA ServeStep ==
  ASSUME WholeAddresses, timeouts = 0, timeouts' = 0, IInv, [Next]_vars
  PROVE  ServeInv'
  <1>0. TypeOK /\ DmaInv /\ ServeInv /\ (pc = "idle" <=> req = None)
    BY DEF IInv, TypeOK
  <1>1. ASSUME NEW r \in Requests, Call(r) PROVE ServeInv'
    <2>1. /\ pc = "idle" /\ pc' = "setup" /\ req' = r
          /\ UNCHANGED <<ci, err, active, disk>>
      BY <1>1 DEF Call, hbaVars
    <2>2. r.op = "write" /\ ~TooSmall(r) => \A o \in 1 .. r.count : bounce'[o] = r.data[o]
      BY <1>0, <1>1, CallBounce
    <2>3. active = None
      BY <1>0, <2>1 DEF DmaInv, QuietInv
    <2> QED BY <2>1, <2>2, <2>3 DEF ServeInv, TooSmall
  <1>2. CASE Reject
    <2>1. pc = "setup" /\ pc' = "idle" /\ UNCHANGED <<ci, err, active>>
      BY <1>2 DEF Reject, Return, hbaVars
    <2>2. active = None
      BY <1>0, <2>1 DEF DmaInv, QuietInv
    <2> QED BY <2>1, <2>2 DEF ServeInv
  <1>3. CASE ZeroTable \/ CopyFis \/ SetPrdt \/ Panic
    <2>1. /\ UNCHANGED <<req, ci, err, active, bounce>> /\ pc # "poll" /\ pc' # "poll"
          /\ pc # "idle"
      BY <1>3 DEF ZeroTable, CopyFis, SetPrdt, Panic, hbaVars
    <2>2. active = None
      BY <1>0, <2>1 DEF DmaInv, QuietInv
    <2>3. ~TooSmall(req) /\ req.op = "write" =>
            \A o \in 1 .. req.count : bounce[o] = req.data[o]
      BY <1>0, <2>1 DEF ServeInv
    <2>4. /\ pc' \in {"fis", "busy", "poll"} => slot'.fis = Fis(req)
          /\ pc' \in {"busy", "poll"} => slot'.prdt = Prdt(req)
      <3>1. CASE ZeroTable
        BY <3>1 DEF ZeroTable
      <3>2. CASE CopyFis
        <4>1. slot' = [slot EXCEPT !.fis = Fis(req)] /\ pc' = "fis"
          BY <3>2 DEF CopyFis
        <4>2. slot'.fis = Fis(req)
          BY <1>0, <1>3, <4>1, SlotStep DEF DmaInv, SlotInv, Next, Driver, TypeOK
        <4> QED BY <4>1, <4>2
      <3>3. CASE SetPrdt
        <4>1. slot' = [slot EXCEPT !.prdt = Prdt(req)] /\ pc = "fis" /\ pc' = "busy"
          BY <3>3 DEF SetPrdt
        <4> QED BY <1>0, <4>1 DEF ServeInv
      <3>4. CASE Panic
        BY <3>4 DEF Panic
      <3> QED BY <1>3, <3>1, <3>2, <3>3, <3>4
    <2> QED BY <2>1, <2>2, <2>3, <2>4 DEF ServeInv, TooSmall, Fis, Prdt
  <1>4. CASE Issue
    <2>1. /\ pc = "busy" /\ ci' /\ pc' = "poll"
          /\ UNCHANGED <<req, slot, active, bounce>>
      BY <1>4 DEF Issue
    <2>2. slot.fis = Fis(req) /\ slot.prdt = Prdt(req) /\ active = None
      BY <1>0, <2>1 DEF ServeInv, DmaInv, QuietInv
    <2>3. ~TooSmall(req) /\ req.op = "write" =>
            \A o \in 1 .. req.count : bounce[o] = req.data[o]
      BY <1>0, <2>1 DEF ServeInv
    <2> QED BY <2>1, <2>2, <2>3 DEF ServeInv, TooSmall, Fis, Prdt
  <1>5. CASE Complete
    <2>1. active = None \/ (ci /\ ~err)
      BY <1>0 DEF DmaInv, QuietInv
    <2> QED BY <1>0, <1>5, <2>1 DEF Complete, Return, hbaVars, ServeInv
  <1>6. CASE Timeout
    BY <1>0, <1>6 DEF Timeout
  <1>7. CASE FetchFis
    <2>1. ci /\ ~err /\ UNCHANGED <<pc, req, slot, ci, err, bounce, disk>>
      BY <1>7 DEF FetchFis
    <2>2. pc = "poll"
      BY <1>0, <2>1 DEF DmaInv, QuietInv
    <2>3. active'.cmd = slot.fis /\ ~active'.ready
      <3>1. FisSeen = {slot.fis}
        BY <2>2 DEF FisSeen
      <3> QED BY <1>7, <3>1 DEF FetchFis
    <2> QED BY <1>0, <2>1, <2>2, <2>3 DEF ServeInv, TooSmall, Fis, Prdt
  <1>8. CASE FetchPrdt
    <2>1. active # None /\ UNCHANGED <<pc, req, slot, ci, err, bounce, disk>>
      BY <1>8 DEF FetchPrdt
    <2>2. pc = "poll" /\ ci /\ slot.fis = Fis(req) /\ slot.prdt = Prdt(req)
          /\ active.cmd = slot.fis
      BY <1>0, <2>1 DEF DmaInv, QuietInv, ServeInv
    <2>3. /\ active'.cmd = slot.fis /\ active'.prdt = slot.prdt
          /\ active'.left = {o \in Sectors(slot.fis) : o <= slot.prdt.room}
      <3>1. PrdtSeen = {slot.prdt}
        BY <2>2 DEF PrdtSeen
      <3> QED BY <1>8, <2>2, <3>1 DEF FetchPrdt
    <2>4. req \in Requests
      BY <1>0, <2>2 DEF TypeOK
    <2>5. \A o \in 1 .. req.count : o \in active'.left
      <3>1. 1 .. req.count \subseteq Sectors(slot.fis)
        BY <2>2, <2>4, FisOfCall
      <3>2. \A o \in 1 .. req.count : o <= slot.prdt.room
        BY <2>2, <2>4, RequestFacts DEF Prdt
      <3> QED BY <2>3, <3>1, <3>2
    <2>6. active'.left \subseteq Sectors(active'.cmd)
      BY <2>3
    <2> QED BY <1>0, <2>1, <2>2, <2>3, <2>5, <2>6 DEF ServeInv, TooSmall, Fis, Prdt
  <1>9. ASSUME active # None, NEW o \in active.left, Transfer(o) PROVE ServeInv'
    <2>1. /\ active' = [active EXCEPT !.left = active.left \ {o}]
          /\ UNCHANGED <<pc, req, slot, ci, err>>
      BY <1>9 DEF Transfer
    <2>2. active.ready
      BY <1>0, <1>9 DEF DmaInv, QuietInv
    <2>3. pc = "poll" /\ ci /\ slot.fis = Fis(req) /\ slot.prdt = Prdt(req)
          /\ req \in Requests /\ active.cmd = slot.fis /\ active.prdt = slot.prdt
          /\ active.left \subseteq Sectors(active.cmd)
      BY <1>0, <1>9, <2>2 DEF DmaInv, QuietInv, ServeInv, TypeOK
    <2>4. /\ active'.cmd = slot.fis /\ active'.prdt = slot.prdt
          /\ active'.left \subseteq Sectors(active'.cmd)
          /\ \A p : p \notin active'.left => p = o \/ p \notin active.left
      BY <2>1, <2>3
    <2>5. CASE req.count = 0
      <3>1. \A p : p \notin 1 .. req.count
        BY <2>5
      <3> QED BY <1>0, <2>1, <2>3, <2>4, <3>1 DEF ServeInv, TooSmall, Fis, Prdt
    <2>6. CASE req.count # 0
      <3>1. /\ ~TooSmall(req)
            /\ Moved(o)' /\ \A p \in 1 .. req.count : Moved(p) => Moved(p)'
            /\ req.op = "write" => bounce' = bounce
        BY <1>0, <1>9, <2>2, <2>6, TransferServes
      <3>2. req.op = "write" => \A p \in 1 .. req.count : bounce'[p] = req.data[p]
        BY <1>0, <2>3, <3>1 DEF ServeInv
      <3>3. \A p \in 1 .. req.count : p \notin active'.left => Moved(p)'
        BY <1>0, <1>9, <2>2, <2>4, <3>1 DEF ServeInv
      <3> QED BY <2>1, <2>3, <2>4, <3>2, <3>3 DEF ServeInv, TooSmall, Fis, Prdt
    <2> QED BY <2>5, <2>6
  <1>10. CASE ClearBusy
    BY <1>0, <1>10, MovedSame DEF ClearBusy, ServeInv, TooSmall, Fis, Prdt
  <1>11. CASE ClearIssue
    <2>1. /\ active # None /\ active.ready /\ active.left = {} /\ ~ci' /\ active' = None
          /\ UNCHANGED <<pc, req, slot, err, bounce, disk>>
      BY <1>11 DEF ClearIssue, Done
    <2>2. pc = "poll" /\ slot.fis = Fis(req) /\ slot.prdt = Prdt(req)
      BY <1>0, <2>1 DEF ServeInv, DmaInv, QuietInv
    <2>3. /\ ~TooSmall(req) /\ req.op = "write" =>
               \A o \in 1 .. req.count : bounce[o] = req.data[o]
          /\ \A o \in 1 .. req.count : Moved(o)
      BY <1>0, <2>1, <2>2 DEF ServeInv
    <2>4. \A o \in 1 .. req'.count : Moved(o)'
      BY <2>1, <2>3, MovedSame
    <2> QED BY <2>1, <2>2, <2>3, <2>4 DEF ServeInv, TooSmall, Fis, Prdt
  <1>12. CASE Fail
    BY <1>0, <1>12 DEF Fail, ServeInv
  <1>13. CASE UNCHANGED vars
    BY <1>0, <1>13, MovedSame DEF vars, hbaVars, ServeInv, TooSmall, Fis, Prdt
  <1> QED BY <1>1, <1>2, <1>3, <1>4, <1>5, <1>6, <1>7, <1>8, <1>9, <1>10, <1>11, <1>12, <1>13
          DEF Next, Driver, Hba

LEMMA InvInit == Init => IInv
  BY TypeInit, DmaInit, ServeInit DEF IInv

LEMMA BoundsStep == TypeOK /\ DmaInv /\ [Next]_vars => (TypeOK /\ DmaInv)'
  BY TypeStep, DmaStep

LEMMA InvStep ==
  ASSUME WholeAddresses, IInv, [Next]_vars
  PROVE  IInv'
  <1>1. (TypeOK /\ DmaInv)'
    BY BoundsStep DEF IInv
  <1>2. ASSUME timeouts' = 0 PROVE ServeInv'
    <2>1. timeouts = 0
      BY <1>2, TimeoutsGrow DEF IInv
    <2> QED BY <1>2, <2>1, ServeStep
  <1> QED BY <1>1, <1>2 DEF IInv

\* The HBA moves sectors between the bounce frame and sectors some caller named only,
\* for any number of waits that run out and commands that fail.
THEOREM DmaStaysInBounds == Spec => []DmaInBounds
  <1>1. Init => TypeOK /\ DmaInv
    BY TypeInit, DmaInit
  <1>2. TypeOK /\ DmaInv => DmaInBounds
    <2> SUFFICES ASSUME DmaInv, active # None, active.ready,
                        ~(active.torn /\ timeouts > 0), active.cmd.count # 0
                 PROVE  /\ active.prdt.dba = "bounce"
                        /\ \A o \in active.left :
                             o \in Offsets /\ active.cmd.lba + o - 1 \in Lbas
      BY DEF DmaInBounds
    <2>1. Whole(active) /\ WholePrdt(active)
      BY DEF DmaInv, ActiveInv
    <2>2. active.prdt.dba = "bounce" /\ active.left \subseteq Sectors(active.cmd)
      BY <2>1 DEF WholePrdt, Prdt
    <2>3. PICK r \in Requests : Fitting(r) /\ active.cmd = Fis(r)
      BY <2>1 DEF Whole
    <2> QED BY <2>2, <2>3, WholeInBounds
  <1> QED BY <1>1, <1>2, BoundsStep, PTL DEF Spec

-----------------------------------------------------------------------------
(* Every step of the driver is a step of the store or leaves it alone.     *)

LEMMA FitsMeans ==
  ASSUME NEW r \in Requests
  PROVE  Store!Fits(r) <=> ~TooSmall(r)
  BY RequestFacts, AhciAssumption DEF Store!Fits, TooSmall

LEMMA CompleteRefines ==
  ASSUME WholeAddresses, timeouts = 0, IInv, Complete
  PROVE  Store!ReturnOk \/ Store!ReturnErr
  <1>1. /\ pc = "poll" /\ UNCHANGED <<disk, timeouts>>
        /\ req \in Requests /\ req # None /\ req' = None /\ ~TooSmall(req)
    BY DEF Complete, Return, hbaVars, IInv, TypeOK, DmaInv, FitInv
  <1>2. Store!Fits(req)
    BY <1>1, FitsMeans
  <1>3. CASE err
    <2>1. ret' = [status |-> "CommandError", data |-> <<>>]
      BY <1>3 DEF Complete, Return
    <2> QED BY <1>1, <1>2, <2>1 DEF Store!ReturnErr, Store!Failures
  <1>4. CASE ~err
    <2>1. /\ ~ci
          /\ ret' = [status |-> "Ok",
                     data |-> IF req.op = "read" THEN SubSeq(bounce, 1, req.count)
                              ELSE <<>>]
      BY <1>4 DEF Complete, Return
    <2>2. \A o \in 1 .. req.count : Moved(o)
      BY <1>1, <1>4, <2>1 DEF IInv, ServeInv
    <2>3. /\ req.op \in {"read", "write"} /\ req.count \in Nat /\ req.lba \in Nat
      BY <1>1, RequestFacts
    <2>4. CASE req.op = "write"
      <3>1. ASSUME NEW s \in Store!Span(req)
            PROVE  disk[s] = Store!Part(req, s)
        <4>1. /\ s - req.lba + 1 \in 1 .. req.count
              /\ req.lba + (s - req.lba + 1) - 1 = s
          BY <2>3, <3>1 DEF Store!Span
        <4> QED BY <2>2, <2>4, <4>1 DEF Moved, Store!Part
      <3> QED BY <1>1, <1>2, <2>1, <2>4, <3>1 DEF Store!ReturnOk
    <2>5. CASE req.op = "read"
      <3>1. SubSeq(bounce, 1, req.count) = [i \in 1 .. req.count |-> bounce[i]]
        BY <2>3
      <3>2. \A i \in 1 .. req.count : bounce[i] = disk[req.lba + i - 1]
        BY <2>2, <2>5 DEF Moved
      <3>3. SubSeq(bounce, 1, req.count) = [i \in 1 .. req.count |-> disk[req.lba + i - 1]]
        BY <3>1, <3>2
      <3> QED BY <1>1, <1>2, <2>1, <2>5, <3>3 DEF Store!ReturnOk
    <2> QED BY <2>3, <2>4, <2>5
  <1> QED BY <1>3, <1>4

LEMMA TransferRefines ==
  ASSUME WholeAddresses, timeouts = 0, IInv, ~(req # None /\ req.count = 0),
         active # None, NEW o \in active.left, Transfer(o)
  PROVE  Store!Persist \/ UNCHANGED Store!vars
  <1> DEFINE s == req.lba + o - 1
  <1>1. UNCHANGED <<req, ret, timeouts>>
    BY DEF Transfer
  <1>2. /\ req \in Requests /\ req # None /\ ~TooSmall(req) /\ o \in 1 .. req.count
        /\ req.op = "write" => disk' = [disk EXCEPT ![s] = req.data[o]]
        /\ req.op = "read" => disk' = disk
    <2>1. /\ TypeOK /\ DmaInv /\ ServeInv /\ active.ready /\ pc = "poll"
      BY DEF IInv, DmaInv, QuietInv
    <2>2. req.count # 0
      BY <2>1 DEF TypeOK
    <2> QED BY <2>1, <2>2, TransferServes
  <1>3. /\ req.op \in {"read", "write"} /\ req.lba \in Nat /\ req.count \in Nat
        /\ Store!Fits(req)
    BY <1>2, RequestFacts, FitsMeans
  <1>4. CASE req.op = "read"
    BY <1>1, <1>2, <1>4 DEF Store!vars
  <1>5. CASE req.op = "write"
    <2>1. s \in Store!Span(req) /\ Store!Part(req, s) = req.data[o]
      BY <1>2, <1>3 DEF Store!Span, Store!Part
    <2> HIDE DEF s
    <2> QED BY <1>1, <1>2, <1>3, <1>5, <2>1 DEF Store!Persist
  <1> QED BY <1>3, <1>4, <1>5

\* After a wait has run out a call may be answered by what is not its own, and the HBA
\* may move what it put together from two of them.
LEMMA LateCompleteRefines ==
  ASSUME timeouts > 0, IInv, Complete
  PROVE  Store!Next
  <1>1. /\ pc = "poll" /\ UNCHANGED <<disk, timeouts>> /\ ~TooSmall(req) /\ req' = None
        /\ req \in Requests /\ req # None /\ bounce \in [Offsets -> Data \cup {None}]
    BY DEF Complete, Return, hbaVars, IInv, TypeOK, DmaInv, FitInv
  <1>2. Store!Fits(req)
    BY <1>1, FitsMeans
  <1>3. CASE ret' = [status |-> "CommandError", data |-> <<>>]
    BY <1>1, <1>2, <1>3 DEF Store!Next, Store!ReturnErr, Store!Failures
  <1>4. CASE ret' = [status |-> "Ok",
                     data |-> IF req.op = "read" THEN SubSeq(bounce, 1, req.count)
                              ELSE <<>>]
    <2> DEFINE room == SubSeq(bounce, 1, req.count)
               data == [i \in 1 .. req.count |-> IF req.op = "read" THEN room[i] ELSE None]
    <2>1. req.count \in Nat /\ req.count <= MaxCount /\ req.op \in {"read", "write"}
      BY <1>1, RequestFacts
    <2>2. room = [i \in 1 .. req.count |-> bounce[i]]
      BY <2>1
    <2>3. \A i \in 1 .. req.count : bounce[i] \in Data \cup {None}
      BY <1>1, <2>1, AhciAssumption DEF Offsets
    <2>4. data \in [1 .. req.count -> Data \cup {None}]
      BY <2>2, <2>3
    <2>5. req.op = "read" => data = room
      BY <2>2
    <2> HIDE DEF data, room
    <2>6. ret' = [status |-> "Ok", data |-> IF req.op = "write" THEN <<>> ELSE data]
      BY <1>4, <2>1, <2>5 DEF room
    <2>7. Store!LateOk(data)
      BY <1>1, <1>2, <2>6 DEF Store!LateOk
    <2> QED BY <1>1, <2>4, <2>7 DEF Store!Next
  <1> QED BY <1>3, <1>4 DEF Complete, Return

LEMMA LateTransferRefines ==
  ASSUME timeouts > 0, IInv, active # None, NEW o \in active.left, Transfer(o)
  PROVE  Store!Next \/ UNCHANGED Store!vars
  <1> DEFINE s == active.cmd.lba + o - 1
             C == Data \cup {None}
  <1>1. s \in Lbas /\ bounce \in [Offsets -> C] /\ UNCHANGED <<req, ret, timeouts>>
    BY DEF Transfer, IInv, TypeOK
  <1>2. UNCHANGED disk \/ \E d \in C : disk' = [disk EXCEPT ![s] = d]
    <2>1. \/ UNCHANGED disk
          \/ o \in Offsets /\ disk' = [disk EXCEPT ![s] = bounce[o]]
          \/ \E d \in Data : disk' = [disk EXCEPT ![s] = d]
      BY DEF Transfer, InFrame
    <2> HIDE DEF s
    <2>2. Data \subseteq C
      OBVIOUS
    <2> HIDE DEF C
    <2> QED BY <1>1, <2>1, <2>2
  <1>3. CASE UNCHANGED disk
    BY <1>1, <1>3 DEF Store!vars
  <1>4. ASSUME NEW d \in C, disk' = [disk EXCEPT ![s] = d] PROVE Store!Next
    <2> HIDE DEF s
    <2>1. Store!LatePersist(s, d)
      BY <1>1, <1>4 DEF Store!LatePersist
    <2> QED BY <1>1, <2>1 DEF Store!Next
  <1> QED BY <1>2, <1>3, <1>4

LEMMA StepRefines ==
  ASSUME WholeAddresses, IInv, [Next]_vars, ~(req # None /\ req.count = 0)
  PROVE  [Store!Next]_(Store!vars)
  <1>0. timeouts = 0 \/ timeouts > 0
    BY DEF IInv, TypeOK
  <1>1. ASSUME NEW r \in Requests, Call(r)
        PROVE  Store!Next
    BY <1>1 DEF Call, hbaVars, IInv, TypeOK, Store!Next, Store!Call
  <1>2. CASE Reject
    <2>1. req \in Requests /\ req # None /\ TooSmall(req) /\ UNCHANGED timeouts
      BY <1>2 DEF Reject, IInv, TypeOK
    <2>2. ~Store!Fits(req)
      BY <2>1, FitsMeans
    <2> QED BY <1>2, <2>1, <2>2
        DEF Reject, Return, hbaVars, Store!Next, Store!ReturnErr, Store!Failures
  <1>3. CASE Complete
    BY <1>0, <1>3, CompleteRefines, LateCompleteRefines DEF Store!Next
  <1>4. CASE Timeout
    <2>1. /\ req \in Requests /\ req # None /\ ~TooSmall(req) /\ UNCHANGED disk
          /\ timeouts' > 0 /\ req' = None
          /\ ret' = [status |-> "Timeout", data |-> <<>>]
      BY <1>4 DEF Timeout, StillBusy, Return, hbaVars, IInv, TypeOK, DmaInv, FitInv
    <2>2. Store!Fits(req)
      BY <2>1, FitsMeans
    <2> QED BY <2>1, <2>2 DEF Store!Next, Store!ReturnErr, Store!Failures
  <1>5. ASSUME active # None, NEW o \in active.left, Transfer(o)
        PROVE  [Store!Next]_(Store!vars)
    BY <1>0, <1>5, TransferRefines, LateTransferRefines DEF Store!Next
  <1>6. CASE UNCHANGED <<disk, req, ret, timeouts>>
    BY <1>6 DEF Store!vars
  <1> QED
    BY <1>1, <1>2, <1>3, <1>4, <1>5, <1>6
    DEF Next, Driver, Hba, ZeroTable, CopyFis, SetPrdt, Panic, Issue, FetchFis, FetchPrdt,
        ClearBusy, ClearIssue, Fail, vars, hbaVars

\* Slot, PxCI, task file, bounce buffer and DMA together are a sector store that is
\* synchronous until a wait runs out, for every set of calls whose addresses fit a
\* command, with commands that fail.
THEOREM StoreRefinement ==
  ASSUME WholeAddresses PROVE Spec => IsSectorStore
  <1>1. Init => Store!Init
    BY DEF Init, Store!Init
  <1>2. IInv /\ [Next]_vars => IInv'
    BY InvStep
  <1>3. IInv /\ [Next]_vars => [(req # None /\ req.count = 0) \/ Store!Next]_(Store!vars)
    BY StepRefines
  <1> QED BY InvInit, <1>1, <1>2, <1>3, PTL DEF Spec, IsSectorStore
===============================================================================
