-------------------------- MODULE RunControl_proofs --------------------------
(***************************************************************************)
(* What RunControl promises of the two control gates of a Run, for any     *)
(* pause and cancellation operations and any number of leases.             *)
(***************************************************************************)
EXTENDS RunControl, TLAPS

-----------------------------------------------------------------------------
(* The inductive invariant                                                 *)

Begun(o) == op[o].src # -1
Unfinished(o) == Begun(o) /\ ~Did(o, "resumed")

\* What the records and receipts of one operation say of one another
Journal(o) ==
    /\ ~Begun(o) => op[o] = NoOp /\ kop[o] = NoReceipt
    /\ Did(o, "barrier") => Has(o, "barrier")
    /\ Did(o, "paused") => Has(o, "paused")
    /\ Has(o, "paused") => Has(o, "barrier")
    /\ Did(o, "prepared") => Did(o, "barrier") /\ Did(o, "paused")
    /\ Did(o, "finalized") => Did(o, "prepared")
    /\ Did(o, "decided") => Did(o, "finalized")
    /\ Has(o, "installed") => Has(o, "paused") /\ Did(o, "decided")
    /\ Did(o, "kernel installed") => Has(o, "installed")
    /\ Did(o, "installed") => Has(o, "installed")
    /\ Did(o, "activated") => Did(o, "installed")
    /\ kop[o].res # 0 => op[o].res # 0
    /\ op[o].res # 0 => Did(o, "installed")
    /\ Did(o, "resumed") => kop[o].res # 0

\* ... and what a slow caller has read of it
Witnessed(o) ==
    /\ Saw("install", o) => Did(o, "decided")
    /\ Saw("installed", o) => Has(o, "installed")
    /\ \A l \in Leases : <<"budget", o, l>> \in seen \/ <<"activate", o, l>> \in seen => Did(o, "installed")
    /\ \A l \in Leases : <<"intent", o, l>> \in seen \/ <<"resume", o, l>> \in seen => op[o].res # 0

\* Where the records of the unfinished operation say the gates are
Source(o) == Gate(IF op[o].src = 0 THEN "paused" ELSE "active", op[o].src, op[o].gen)

AtLocalGate(o) ==
    /\ Did(o, "installed") => oc = Installed(o)
    /\ ~Did(o, "installed") /\ Did(o, "finalized") => oc = Paused(o)
    /\ ~Did(o, "installed") /\ ~Did(o, "finalized") => oc = Pausing(o)

AtKernelGate(o) ==
    /\ kop[o].res # 0 => kc = Reopened(o)
    /\ kop[o].res = 0 /\ Has(o, "installed") => kc = Installed(o)
    /\ kop[o].res = 0 /\ ~Has(o, "installed") /\ Has(o, "paused") => kc = Paused(o)
    /\ ~Has(o, "paused") /\ Has(o, "barrier") => kc = Pausing(o)
    /\ ~Has(o, "barrier") => kc = Source(o)

\* ... of one that is unfinished
GatesOf(o) ==
    /\ oc.gen = op[o].gen + (IF Did(o, "installed") THEN 1 ELSE 0)
    /\ kc.gen = op[o].gen + (IF Has(o, "installed") THEN 1 ELSE 0)
    /\ ~CancelFenced => AtLocalGate(o) /\ AtKernelGate(o)

GatesInv ==
    /\ \A o, q \in Ops : Unfinished(o) /\ Unfinished(q) => o = q
    /\ oc.state = "active" => oc.epoch >= 1 /\ \A o \in Ops : ~Unfinished(o)
    /\ \A o \in Ops : Begun(o) => oc.epoch >= 1
    /\ \A o \in Ops : Unfinished(o) => GatesOf(o)
    /\ (\A o \in Ops : ~Unfinished(o)) => oc.gen = kc.gen /\ (~CancelFenced => kc = oc)

CancelInv ==
    /\ FencedForGood
    /\ CancelFenced => \E c \in Cancels : kfence[c] = kc.epoch
    /\ \A c \in Cancels :
          /\ kfence[c] # -1 => kfence[c] <= kc.epoch /\ kfence[c] = cf[c].epoch + 1 /\ cf[c].gen = kc.gen
          /\ cf[c].done => kfence[c] # -1
    /\ CancelledAgree
    /\ LocalOpenIsBacked

HasMax(S) == S = {} \/ \E m \in S : \A l \in S : l <= m

\* ... and who the activation or resume p was handed to
LeaseOf(p) ==
    /\ otaken[p] \subseteq ktaken[p]
    /\ ktaken[p] \subseteq otaken[p] \cup {claim[p].new}
    /\ claim[p] # NoClaim => claim[p].new > claim[p].prev /\ Original(p) # 0
    /\ claim[p] # NoClaim => \A l \in otaken[p] : l <= claim[p].prev
    /\ ktaken[p] # {} => Original(p) # 0
    /\ \A l \in ktaken[p] : l >= Original(p)
    /\ HasMax(ktaken[p]) /\ HasMax(otaken[p])

LeaseInv == \A p \in Phases \X Ops : LeaseOf(p)

ControlInv ==
    /\ TypeOK
    /\ \A o \in Ops : Journal(o) /\ Witnessed(o)
    /\ GatesInv
    /\ CancelInv
    /\ LeaseInv

-----------------------------------------------------------------------------
(* What a step makes of one record or receipt.                             *)

OpRows == [src : Nat \cup {-1}, gen : Nat, did : SUBSET Records, act : 0 .. MaxLease, res : 0 .. MaxLease]
ReceiptRows == [has : SUBSET Receipts, act : 0 .. MaxLease, res : 0 .. MaxLease]

LEMMA OpFields ==
    ASSUME NEW row \in OpRows
    PROVE  /\ \A v \in SUBSET Records : [row EXCEPT !.did = v] \in OpRows
           /\ \A v \in Nat : [row EXCEPT !.src = v] \in OpRows /\ [row EXCEPT !.gen = v] \in OpRows
           /\ \A v \in 0 .. MaxLease : [row EXCEPT !.act = v] \in OpRows /\ [row EXCEPT !.res = v] \in OpRows
<1>1. \A v \in SUBSET Records : [row EXCEPT !.did = v] \in OpRows
  BY DEF OpRows
<1>2. \A v \in Nat : [row EXCEPT !.src = v] \in OpRows /\ [row EXCEPT !.gen = v] \in OpRows
  BY DEF OpRows
<1>3. \A v \in 0 .. MaxLease : [row EXCEPT !.act = v] \in OpRows /\ [row EXCEPT !.res = v] \in OpRows
  BY DEF OpRows
<1> QED
  BY <1>1, <1>2, <1>3

LEMMA ReceiptFields ==
    ASSUME NEW row \in ReceiptRows
    PROVE  /\ \A v \in SUBSET Receipts : [row EXCEPT !.has = v] \in ReceiptRows
           /\ \A v \in 0 .. MaxLease : [row EXCEPT !.act = v] \in ReceiptRows /\ [row EXCEPT !.res = v] \in ReceiptRows
<1>1. \A v \in SUBSET Receipts : [row EXCEPT !.has = v] \in ReceiptRows
  BY DEF ReceiptRows
<1>2. \A v \in 0 .. MaxLease : [row EXCEPT !.act = v] \in ReceiptRows /\ [row EXCEPT !.res = v] \in ReceiptRows
  BY DEF ReceiptRows
<1> QED
  BY <1>1, <1>2

\* The fields of operation q's record that stay as they are
KeepsOp(q) == /\ op'[q].src = op[q].src /\ op'[q].gen = op[q].gen
              /\ op'[q].act = op[q].act /\ op'[q].res = op[q].res

Recorded(o, what) ==
    /\ op' \in [Ops -> OpRows]
    /\ \A q \in Ops : KeepsOp(q) /\ (q # o => op'[q] = op[q])
    /\ op'[o].did = op[o].did \cup {what}

LEMMA RecordEffect ==
    ASSUME TypeOK, NEW o \in Ops, NEW what \in Records, Record(o, what)
    PROVE  Recorded(o, what)
<1>0. op \in [Ops -> OpRows] /\ op[o] \in OpRows
  BY DEF TypeOK, OpRows
<1> DEFINE row == [op[o] EXCEPT !.did = op[o].did \cup {what}]
<1>1. op[o].did \cup {what} \in SUBSET Records
  BY <1>0 DEF OpRows
<1>2. row \in OpRows
  BY <1>0, <1>1, OpFields
<1>3. op' = [op EXCEPT ![o] = row]
  BY <1>0 DEF Record
<1>4. /\ row.src = op[o].src /\ row.gen = op[o].gen /\ row.act = op[o].act /\ row.res = op[o].res
      /\ row.did = op[o].did \cup {what}
  BY <1>0 DEF OpRows
<1> HIDE DEF row
<1>5. op' \in [Ops -> OpRows] /\ op'[o] = row /\ \A q \in Ops : q # o => op'[q] = op[q]
  BY <1>0, <1>2, <1>3
<1> QED
  BY <1>4, <1>5 DEF Recorded, KeepsOp

KeepsReceipts(q) == kop'[q].act = kop[q].act /\ kop'[q].res = kop[q].res

Issued(o, what) ==
    /\ kop' \in [Ops -> ReceiptRows]
    /\ \A q \in Ops : KeepsReceipts(q) /\ (q # o => kop'[q] = kop[q])
    /\ kop'[o].has = kop[o].has \cup {what}

LEMMA ReceiptEffect ==
    ASSUME TypeOK, NEW o \in Ops, NEW what \in Receipts, Receipt(o, what)
    PROVE  Issued(o, what)
<1>0. kop \in [Ops -> ReceiptRows] /\ kop[o] \in ReceiptRows
  BY DEF TypeOK, ReceiptRows
<1> DEFINE row == [kop[o] EXCEPT !.has = kop[o].has \cup {what}]
<1>1. kop[o].has \cup {what} \in SUBSET Receipts
  BY <1>0 DEF ReceiptRows
<1>2. row \in ReceiptRows
  BY <1>0, <1>1, ReceiptFields
<1>3. kop' = [kop EXCEPT ![o] = row]
  BY <1>0 DEF Receipt
<1>4. row.act = kop[o].act /\ row.res = kop[o].res /\ row.has = kop[o].has \cup {what}
  BY <1>0 DEF ReceiptRows
<1> HIDE DEF row
<1>5. kop' \in [Ops -> ReceiptRows] /\ kop'[o] = row /\ \A q \in Ops : q # o => kop'[q] = kop[q]
  BY <1>0, <1>2, <1>3
<1> QED
  BY <1>4, <1>5 DEF Issued, KeepsReceipts

\* A pause that begins, from source epoch e of generation g
Begins(o, e, g) ==
    \/ op' = [op EXCEPT ![o].src = e] /\ g = 0
    \/ op' = [op EXCEPT ![o].src = e, ![o].gen = g]

LEMMA BeginEffect ==
    ASSUME TypeOK, NEW o \in Ops, op[o] = NoOp, NEW e \in Nat, NEW g \in Nat, Begins(o, e, g)
    PROVE  /\ op' \in [Ops -> OpRows]
           /\ \A q \in Ops : q # o => op'[q] = op[q]
           /\ op'[o].src = e /\ op'[o].gen = g /\ op'[o].did = {} /\ op'[o].act = 0 /\ op'[o].res = 0
<1>0. op \in [Ops -> OpRows] /\ op[o] \in OpRows
  BY DEF TypeOK, OpRows
<1> DEFINE row == [src |-> e, gen |-> g, did |-> {}, act |-> 0, res |-> 0]
<1>1. row \in OpRows
  BY <1>0 DEF OpRows, NoOp
<1>2. op' = [op EXCEPT ![o] = row]
  BY <1>0 DEF NoOp, Begins
<1>3. row.src = e /\ row.gen = g /\ row.did = {} /\ row.act = 0 /\ row.res = 0
  OBVIOUS
<1> HIDE DEF row
<1> QED
  BY <1>0, <1>1, <1>2, <1>3

\* The lease an activation or a resume is ordered under
LEMMA OrderEffect ==
    ASSUME TypeOK, NEW o \in Ops, NEW l \in Leases
    PROVE  /\ op' = [op EXCEPT ![o].act = l] =>
                 /\ op' \in [Ops -> OpRows] /\ \A q \in Ops : q # o => op'[q] = op[q]
                 /\ op'[o].src = op[o].src /\ op'[o].gen = op[o].gen /\ op'[o].did = op[o].did
                 /\ op'[o].act = l /\ op'[o].res = op[o].res
           /\ op' = [op EXCEPT ![o].res = l] =>
                 /\ op' \in [Ops -> OpRows] /\ \A q \in Ops : q # o => op'[q] = op[q]
                 /\ op'[o].src = op[o].src /\ op'[o].gen = op[o].gen /\ op'[o].did = op[o].did
                 /\ op'[o].act = op[o].act /\ op'[o].res = l
<1>0. op \in [Ops -> OpRows] /\ op[o] \in OpRows /\ l \in 0 .. MaxLease
  BY DEF TypeOK, OpRows, Leases
<1>1. [op[o] EXCEPT !.act = l] \in OpRows /\ [op[o] EXCEPT !.res = l] \in OpRows
  BY <1>0, OpFields
<1>2. ASSUME op' = [op EXCEPT ![o].act = l]
      PROVE  /\ op' \in [Ops -> OpRows] /\ \A q \in Ops : q # o => op'[q] = op[q]
             /\ op'[o].src = op[o].src /\ op'[o].gen = op[o].gen /\ op'[o].did = op[o].did
             /\ op'[o].act = l /\ op'[o].res = op[o].res
  <2>1. op' = [op EXCEPT ![o] = [op[o] EXCEPT !.act = l]]
    BY <1>0, <1>2
  <2>2. op'[o] = [op[o] EXCEPT !.act = l] /\ op' \in [Ops -> OpRows] /\ \A q \in Ops : q # o => op'[q] = op[q]
    BY <1>0, <1>1, <2>1
  <2> QED
    BY <1>0, <2>2 DEF OpRows
<1>3. ASSUME op' = [op EXCEPT ![o].res = l]
      PROVE  /\ op' \in [Ops -> OpRows] /\ \A q \in Ops : q # o => op'[q] = op[q]
             /\ op'[o].src = op[o].src /\ op'[o].gen = op[o].gen /\ op'[o].did = op[o].did
             /\ op'[o].act = op[o].act /\ op'[o].res = l
  <2>1. op' = [op EXCEPT ![o] = [op[o] EXCEPT !.res = l]]
    BY <1>0, <1>3
  <2>2. op'[o] = [op[o] EXCEPT !.res = l] /\ op' \in [Ops -> OpRows] /\ \A q \in Ops : q # o => op'[q] = op[q]
    BY <1>0, <1>1, <2>1
  <2> QED
    BY <1>0, <2>2 DEF OpRows
<1> QED
  BY <1>2, <1>3

\* The lease the Kernel activates or resumes under
LEMMA OpenEffect ==
    ASSUME TypeOK, NEW o \in Ops, NEW l \in Leases
    PROVE  /\ kop' = [kop EXCEPT ![o].act = l] =>
                 /\ kop' \in [Ops -> ReceiptRows] /\ \A q \in Ops : q # o => kop'[q] = kop[q]
                 /\ kop'[o].has = kop[o].has /\ kop'[o].act = l /\ kop'[o].res = kop[o].res
           /\ kop' = [kop EXCEPT ![o].res = l] =>
                 /\ kop' \in [Ops -> ReceiptRows] /\ \A q \in Ops : q # o => kop'[q] = kop[q]
                 /\ kop'[o].has = kop[o].has /\ kop'[o].act = kop[o].act /\ kop'[o].res = l
<1>0. kop \in [Ops -> ReceiptRows] /\ kop[o] \in ReceiptRows /\ l \in 0 .. MaxLease
  BY DEF TypeOK, ReceiptRows, Leases
<1>1. [kop[o] EXCEPT !.act = l] \in ReceiptRows /\ [kop[o] EXCEPT !.res = l] \in ReceiptRows
  BY <1>0, ReceiptFields
<1>2. ASSUME kop' = [kop EXCEPT ![o].act = l]
      PROVE  /\ kop' \in [Ops -> ReceiptRows] /\ \A q \in Ops : q # o => kop'[q] = kop[q]
             /\ kop'[o].has = kop[o].has /\ kop'[o].act = l /\ kop'[o].res = kop[o].res
  <2>1. kop' = [kop EXCEPT ![o] = [kop[o] EXCEPT !.act = l]]
    BY <1>0, <1>2
  <2>2. kop'[o] = [kop[o] EXCEPT !.act = l] /\ kop' \in [Ops -> ReceiptRows] /\ \A q \in Ops : q # o => kop'[q] = kop[q]
    BY <1>0, <1>1, <2>1
  <2> QED
    BY <1>0, <2>2 DEF ReceiptRows
<1>3. ASSUME kop' = [kop EXCEPT ![o].res = l]
      PROVE  /\ kop' \in [Ops -> ReceiptRows] /\ \A q \in Ops : q # o => kop'[q] = kop[q]
             /\ kop'[o].has = kop[o].has /\ kop'[o].act = kop[o].act /\ kop'[o].res = l
  <2>1. kop' = [kop EXCEPT ![o] = [kop[o] EXCEPT !.res = l]]
    BY <1>0, <1>3
  <2>2. kop'[o] = [kop[o] EXCEPT !.res = l] /\ kop' \in [Ops -> ReceiptRows] /\ \A q \in Ops : q # o => kop'[q] = kop[q]
    BY <1>0, <1>1, <2>1
  <2> QED
    BY <1>0, <2>2 DEF ReceiptRows
<1> QED
  BY <1>2, <1>3

-----------------------------------------------------------------------------
(* Types                                                                   *)

LEMMA CycleGates ==
    ASSUME TypeOK, NEW o \in Ops, op[o].src >= 0
    PROVE  {Pausing(o), Paused(o), Installed(o), Reopened(o)} \subseteq Gates
<1>1. op[o].src \in Nat /\ op[o].gen \in Nat
  BY DEF TypeOK
<1> QED
  BY <1>1 DEF Pausing, Paused, Installed, Reopened, Gate, Gates

\* An operation something is recorded of has begun.
LEMMA RecordedBegan ==
    ASSUME TypeOK, NEW o \in Ops, Journal(o)
    PROVE  op[o].did # {} \/ kop[o].has # {} \/ op[o].act # 0 \/ op[o].res # 0 => op[o].src >= 0
<1>1. op[o].src \in Nat \cup {-1}
  BY DEF TypeOK
<1>2. op[o].src = -1 => op[o] = NoOp /\ kop[o] = NoReceipt
  BY DEF Journal, Begun
<1>3. NoOp.did = {} /\ NoOp.act = 0 /\ NoOp.res = 0 /\ NoReceipt.has = {}
  BY DEF NoOp, NoReceipt
<1> QED
  BY <1>1, <1>2, <1>3

LEMMA MaxIs ==
    ASSUME NEW S, S # {}, S \subseteq Leases, HasMax(S), MaxLease \in Nat
    PROVE  Max(S) \in S /\ \A l \in S : l <= Max(S)
<1>1. PICK m \in S : \A l \in S : l <= m
  BY DEF HasMax
<1>2. S \subseteq Int
  BY DEF Leases
<1>3. \E x \in S : \A y \in S : x >= y
  BY <1>1, <1>2
<1>4. Max(S) \in S /\ \A y \in S : Max(S) >= y
  BY <1>3 DEF Max
<1> QED
  BY <1>2, <1>4

LEMMA HolderTyped ==
    ASSUME TypeOK, LeaseInv, ControlAssumption, NEW p \in Phases \X Ops
    PROVE  Holder(p) \in 0 .. MaxLease
<1>1. otaken[p] \subseteq Leases /\ HasMax(otaken[p]) /\ MaxLease \in Nat
  BY DEF TypeOK, LeaseInv, LeaseOf, ControlAssumption
<1>2. p[2] \in Ops
  OBVIOUS
<1>3. Original(p) \in 0 .. MaxLease
  BY <1>2 DEF TypeOK, Original
<1>4. otaken[p] # {} => Max(otaken[p]) \in Leases
  BY <1>1, MaxIs
<1> QED
  BY <1>3, <1>4 DEF Holder, Leases

LEMMA PauseTyped ==
    ASSUME TypeOK, NEW o \in Ops, Journal(o), Pause(o)
    PROVE  TypeOK'
<1> USE DEF ovars, kvars
<1>1. CASE BeginAdopted(o)
  <2>1. op' \in [Ops -> OpRows]
    <3>1. Begins(o, 0, 0) /\ op[o] = NoOp
      BY <1>1 DEF BeginAdopted, Begins
    <3> QED
      BY <3>1, BeginEffect
  <2> QED
    BY <1>1, <2>1 DEF BeginAdopted, TypeOK, OpRows, Gate, Gates
<1>2. CASE BeginPause(o)
  <2>1. oc.epoch \in Nat /\ oc.gen \in Nat
    BY DEF TypeOK, Gates
  <2>2. op' \in [Ops -> OpRows]
    <3>1. Begins(o, oc.epoch, oc.gen) /\ op[o] = NoOp
      BY <1>2 DEF BeginPause, Begins
    <3> QED
      BY <2>1, <3>1, BeginEffect
  <2> QED
    BY <1>2, <2>1, <2>2 DEF BeginPause, TypeOK, OpRows, Gate, Gates
<1>3. CASE KPreparePause(o)
  <2>1. kop' \in [Ops -> ReceiptRows] /\ kc' \in Gates
    BY <1>3, CycleGates, ReceiptEffect DEF KPreparePause, Issued, Receipts
  <2> QED
    BY <1>3, <2>1 DEF KPreparePause, TypeOK, ReceiptRows
<1>4. CASE KCompletePause(o)
  <2>1. op[o].src >= 0
    BY <1>4, RecordedBegan DEF KCompletePause, Did
  <2>2. kop' \in [Ops -> ReceiptRows] /\ kc' \in Gates
    BY <1>4, <2>1, CycleGates, ReceiptEffect DEF KCompletePause, Issued, Receipts
  <2> QED
    BY <1>4, <2>2 DEF KCompletePause, TypeOK, ReceiptRows
<1>5. CASE KCapture(o)
  <2>1. kop' \in [Ops -> ReceiptRows]
    BY <1>5, ReceiptEffect DEF KCapture, Issued, Receipts
  <2> QED
    BY <1>5, <2>1 DEF KCapture, TypeOK, ReceiptRows
<1>6. ASSUME NEW what \in {"barrier", "paused", "captured"}, RecordPause(o, what)
      PROVE  TypeOK'
  <2>1. op' \in [Ops -> OpRows]
    BY <1>6, RecordEffect DEF RecordPause, Recorded, Records
  <2> QED
    BY <1>6, <2>1 DEF RecordPause, TypeOK, OpRows
<1>7. CASE SeePaused(o)
  BY <1>7 DEF SeePaused, TypeOK
<1>8. CASE PreparePause(o)
  <2>1. op' \in [Ops -> OpRows]
    BY <1>8, RecordEffect DEF PreparePause, Recorded, Records
  <2> QED
    BY <1>8, <2>1 DEF PreparePause, TypeOK, OpRows
<1>9. CASE FinalizePause(o)
  <2>1. op[o].src >= 0
    BY <1>9, RecordedBegan DEF FinalizePause, Did
  <2>2. op' \in [Ops -> OpRows] /\ oc' \in Gates
    BY <1>9, <2>1, CycleGates, RecordEffect DEF FinalizePause, Recorded, Records
  <2> QED
    BY <1>9, <2>2 DEF FinalizePause, TypeOK, OpRows
<1> QED
  BY <1>1, <1>2, <1>3, <1>4, <1>5, <1>6, <1>7, <1>8, <1>9 DEF Pause

LEMMA ReviseTyped ==
    ASSUME TypeOK, NEW o \in Ops, Journal(o), Revise(o)
    PROVE  TypeOK'
<1> USE DEF ovars, kvars
<1>1. CASE CommitRevision(o)
  <2>1. op' \in [Ops -> OpRows]
    BY <1>1, RecordEffect DEF CommitRevision, Recorded, Records
  <2> QED
    BY <1>1, <2>1 DEF CommitRevision, TypeOK, OpRows
<1>2. CASE OrderInstall(o)
  BY <1>2 DEF OrderInstall, TypeOK
<1>3. CASE KInstall(o)
  <2>1. op[o].src >= 0
    BY <1>3, RecordedBegan DEF KInstall
  <2>2. kop' \in [Ops -> ReceiptRows] /\ kc' \in Gates
    BY <1>3, <2>1, CycleGates, ReceiptEffect DEF KInstall, Issued, Receipts
  <2>3. op[o].src \in Nat /\ ka \in [gen : Nat, epoch : Nat, ok : BOOLEAN]
    BY <2>1 DEF TypeOK
  <2>4. ka' \in [gen : Nat, epoch : Nat, ok : BOOLEAN]
    <3>1. ka' = [gen |-> op[o].gen + 1, epoch |-> op[o].src + 3, ok |-> TRUE]
      BY <1>3 DEF KInstall
    <3>2. op[o].gen + 1 \in Nat /\ op[o].src + 3 \in Nat
      BY <2>3 DEF TypeOK
    <3> QED
      BY <3>1, <3>2
  <2> QED
    BY <1>3, <2>2, <2>4 DEF KInstall, TypeOK, ReceiptRows
<1>4. CASE RecordInstall(o)
  <2>1. op' \in [Ops -> OpRows]
    BY <1>4, RecordEffect DEF RecordInstall, Recorded, Records
  <2> QED
    BY <1>4, <2>1 DEF RecordInstall, TypeOK, OpRows
<1>5. CASE SeeInstalled(o)
  BY <1>5 DEF SeeInstalled, TypeOK
<1>6. CASE InstallProjection(o)
  <2>1. op[o].src \in Nat \cup {-1} /\ op[o].gen \in Nat /\ oc.epoch \in Nat
    BY DEF TypeOK, Gates
  <2>2. oc.epoch = op[o].src + 2
    BY <1>6 DEF InstallProjection, Paused, Gate
  <2>3. op' \in [Ops -> OpRows]
    BY <1>6, RecordEffect DEF InstallProjection, Recorded, Records
  <2>4. oc' \in Gates
    BY <1>6, <2>1, <2>2 DEF InstallProjection, Installed, Gate, Gates
  <2> QED
    BY <1>6, <2>3, <2>4 DEF InstallProjection, TypeOK, OpRows
<1>7. CASE OrderBudget(o)
  BY <1>7 DEF OrderBudget, TypeOK
<1>8. CASE KInstallBudget(o)
  <2>1. kop' \in [Ops -> ReceiptRows]
    BY <1>8, ReceiptEffect DEF KInstallBudget, Issued, Receipts
  <2> QED
    BY <1>8, <2>1 DEF KInstallBudget, TypeOK, ReceiptRows
<1>9. CASE RecordBudget(o)
  <2>1. op' \in [Ops -> OpRows]
    BY <1>9, RecordEffect DEF RecordBudget, Recorded, Records
  <2> QED
    BY <1>9, <2>1 DEF RecordBudget, TypeOK, OpRows
<1> QED
  BY <1>1, <1>2, <1>3, <1>4, <1>5, <1>6, <1>7, <1>8, <1>9 DEF Revise

LEMMA ReopenTyped ==
    ASSUME TypeOK, NEW o \in Ops, Journal(o), Reopen(o)
    PROVE  TypeOK'
<1> USE DEF ovars, kvars
<1>0. lease \in Leases
  BY DEF TypeOK
<1>1. CASE OrderActivation(o)
  <2>1. op' \in [Ops -> OpRows]
    BY <1>0, <1>1, OrderEffect DEF OrderActivation, TypeOK, OpRows
  <2> QED
    BY <1>1, <2>1 DEF OrderActivation, TypeOK, OpRows
<1>2. ASSUME NEW l \in Leases, KActivate(o, l)
      PROVE  TypeOK'
  <2>1. kop' \in [Ops -> ReceiptRows]
    BY <1>2, OpenEffect DEF KActivate
  <2> QED
    BY <1>2, <2>1 DEF KActivate, TypeOK, ReceiptRows
<1>3. CASE RecordActivation(o)
  <2>1. op' \in [Ops -> OpRows]
    BY <1>3, RecordEffect DEF RecordActivation, Recorded, Records
  <2> QED
    BY <1>3, <2>1 DEF RecordActivation, TypeOK, OpRows
<1>4. CASE OrderResume(o)
  <2>1. op' \in [Ops -> OpRows]
    BY <1>0, <1>4, OrderEffect DEF OrderResume, TypeOK, OpRows
  <2> QED
    BY <1>4, <2>1 DEF OrderResume, TypeOK, OpRows
<1>5. CASE CheckResume(o)
  BY <1>5 DEF CheckResume, TypeOK
<1>6. ASSUME NEW l \in Leases, KResume(o, l)
      PROVE  TypeOK'
  <2>1. op[o].src >= 0
    BY <1>6, RecordedBegan DEF KResume
  <2>2. kop' \in [Ops -> ReceiptRows] /\ kc' \in Gates
    BY <1>6, <2>1, CycleGates, OpenEffect DEF KResume
  <2>3. op[o].src \in Nat /\ ka \in [gen : Nat, epoch : Nat, ok : BOOLEAN]
    BY <2>1 DEF TypeOK
  <2>4. ka' \in [gen : Nat, epoch : Nat, ok : BOOLEAN]
    <3>1. [ka EXCEPT !.epoch = op[o].src + 4] \in [gen : Nat, epoch : Nat, ok : BOOLEAN]
      BY <2>3
    <3>2. ka' = [ka EXCEPT !.epoch = op[o].src + 4]
      BY <1>6 DEF KResume
    <3> QED
      BY <3>1, <3>2
  <2> QED
    BY <1>6, <2>2, <2>4 DEF KResume, TypeOK, ReceiptRows
<1>7. CASE CommitResume(o)
  <2>1. op[o].src \in Nat \cup {-1} /\ op[o].gen \in Nat
    BY DEF TypeOK
  <2>2. op' \in [Ops -> OpRows]
    BY <1>7, RecordEffect DEF CommitResume, Recorded, Records
  <2>3. oc' \in Gates
    BY <1>7 DEF CommitResume, TypeOK
  <2> QED
    BY <1>7, <2>2, <2>3 DEF CommitResume, TypeOK, OpRows
<1> QED
  BY <1>1, <1>2, <1>3, <1>4, <1>5, <1>6, <1>7 DEF Reopen

LEMMA TakeOverTyped ==
    ASSUME TypeOK, LeaseInv, ControlAssumption, NEW p \in Phases \X Ops, TakeOver(p)
    PROVE  TypeOK'
<1> USE DEF ovars, kvars
<1>0. lease \in Leases /\ claim[p] \in [new : 0 .. MaxLease, prev : 0 .. MaxLease, had : BOOLEAN] /\ MaxLease \in Nat
  BY DEF TypeOK, ControlAssumption
<1>1. CASE ClaimTakeover(p)
  <2>1. [new |-> lease, prev |-> Holder(p), had |-> KReceiptLease(p) # 0]
           \in [new : 0 .. MaxLease, prev : 0 .. MaxLease, had : BOOLEAN]
    BY <1>0, HolderTyped DEF Leases
  <2> QED
    BY <1>1, <2>1 DEF ClaimTakeover, TypeOK
<1>2. CASE KTakeOver(p)
  BY <1>0, <1>2 DEF KTakeOver, TypeOK
<1>3. CASE AckTakeover(p)
  <2>1. claim[p].new \in Leases
    BY <1>3 DEF AckTakeover, TypeOK
  <2>2. NoClaim \in [new : 0 .. MaxLease, prev : 0 .. MaxLease, had : BOOLEAN]
    BY <1>0 DEF NoClaim
  <2> QED
    BY <1>3, <2>1, <2>2 DEF AckTakeover, TypeOK
<1>4. CASE ResolveTakeover(p)
  <2>1. NoClaim \in [new : 0 .. MaxLease, prev : 0 .. MaxLease, had : BOOLEAN]
    BY <1>0 DEF NoClaim
  <2> QED
    BY <1>4, <2>1 DEF ResolveTakeover, TypeOK
<1> QED
  BY <1>1, <1>2, <1>3, <1>4 DEF TakeOver

LEMMA CancelTyped ==
    ASSUME TypeOK, NEW c \in Cancels, Cancel(c)
    PROVE  TypeOK'
<1> USE DEF ovars, kvars
<1>0. /\ kc.epoch \in Nat /\ kc.gen \in Nat /\ oc.epoch \in Nat /\ oc.gen \in Nat
      /\ cf[c] \in [gen : Nat \cup {-1}, epoch : Nat, done : BOOLEAN]
      /\ kfence[c] \in Nat \cup {-1}
  BY DEF TypeOK, Gates
<1>1. CASE CancelIntent(c)
  <2>1. [gen |-> oc.gen, epoch |-> kc.epoch, done |-> FALSE] \in [gen : Nat \cup {-1}, epoch : Nat, done : BOOLEAN]
    BY <1>0
  <2>2. cf' \in [Cancels -> [gen : Nat \cup {-1}, epoch : Nat, done : BOOLEAN]]
    BY <1>1, <2>1 DEF CancelIntent, TypeOK
  <2> QED
    BY <1>1, <2>2 DEF CancelIntent, TypeOK
<1>2. CASE KFence(c)
  <2>1. kc' \in Gates
    BY <1>0, <1>2 DEF KFence, Gate, Gates
  <2>2. ka' \in [gen : Nat, epoch : Nat, ok : BOOLEAN]
    BY <1>2 DEF KFence, TypeOK
  <2>3. kfence' \in [Cancels -> Nat \cup {-1}]
    BY <1>0, <1>2 DEF KFence, TypeOK
  <2> QED
    BY <1>2, <2>1, <2>2, <2>3 DEF KFence, TypeOK
<1>3. CASE RefreshCancel(c)
  <2>1. [cf[c] EXCEPT !.epoch = kc.epoch] \in [gen : Nat \cup {-1}, epoch : Nat, done : BOOLEAN]
    BY <1>0
  <2>2. cf' = [cf EXCEPT ![c] = [cf[c] EXCEPT !.epoch = kc.epoch]]
    BY <1>3 DEF RefreshCancel, TypeOK
  <2>3. cf' \in [Cancels -> [gen : Nat \cup {-1}, epoch : Nat, done : BOOLEAN]]
    BY <2>1, <2>2 DEF TypeOK
  <2> QED
    BY <1>3, <2>3 DEF RefreshCancel, TypeOK
<1>4. CASE CommitCancel(c)
  <2>1. [cf[c] EXCEPT !.done = TRUE] \in [gen : Nat \cup {-1}, epoch : Nat, done : BOOLEAN]
    BY <1>0
  <2>2. cf' = [cf EXCEPT ![c] = [cf[c] EXCEPT !.done = TRUE]]
    BY <1>4 DEF CommitCancel, TypeOK
  <2>3. cf' \in [Cancels -> [gen : Nat \cup {-1}, epoch : Nat, done : BOOLEAN]]
    BY <2>1, <2>2 DEF TypeOK
  <2>4. kfence[c] \in Nat
    BY <1>0, <1>4 DEF CommitCancel
  <2>5. oc' \in Gates
    BY <1>0, <1>4, <2>4 DEF CommitCancel, TypeOK, Gate, Gates
  <2> QED
    BY <1>4, <2>3, <2>5 DEF CommitCancel, TypeOK
<1> QED
  BY <1>1, <1>2, <1>3, <1>4 DEF Cancel

LEMMA StepTyped ==
    ASSUME ControlInv, ControlAssumption, Next
    PROVE  TypeOK'
<1>1. CASE NewLease
  <2>1. lease' \in Leases
    BY <1>1 DEF NewLease, ControlInv, TypeOK, Leases, ControlAssumption
  <2> QED
    BY <1>1, <2>1 DEF NewLease, ControlInv, TypeOK, ovars, kvars
<1> QED
  BY <1>1, PauseTyped, ReviseTyped, ReopenTyped, TakeOverTyped, CancelTyped DEF Next, ControlInv

-----------------------------------------------------------------------------
(* Journals: records, receipts and what was read of them agree.            *)

\* What a step has not added to seen
Unread(q) ==
    /\ \A what \in {"install", "installed"} : <<what, q>> \in seen' => <<what, q>> \in seen
    /\ \A what \in {"budget", "activate", "intent", "resume"}, l \in Leases : <<what, q, l>> \in seen' => <<what, q, l>> \in seen

LEMMA SameJournal ==
    ASSUME NEW q \in Ops, Journal(q), Witnessed(q), Unread(q), op'[q] = op[q], kop'[q] = kop[q]
    PROVE  Journal(q)' /\ Witnessed(q)'
<1>1. Journal(q)'
  BY DEF Journal, Begun, Did, Has
<1>2. Witnessed(q)'
  BY DEF Witnessed, Unread, Did, Has, Saw
<1> QED
  BY <1>1, <1>2

LEMMA BegunHas ==
    ASSUME NEW o \in Ops, Journal(o), kop[o].has # {} \/ op[o].did # {}
    PROVE  Begun(o)
<1>1. NoOp.did = {} /\ NoReceipt.has = {}
  BY DEF NoOp, NoReceipt
<1> QED
  BY <1>1 DEF Journal

LEMMA PauseJournal ==
    ASSUME TypeOK, \A r \in Ops : Journal(r) /\ Witnessed(r), ControlAssumption,
           NEW o \in Ops, Pause(o), NEW q \in Ops
    PROVE  Journal(q)' /\ Witnessed(q)'
<1>0. lease \in Leases /\ 0 \notin Leases
  BY DEF TypeOK, Leases, ControlAssumption
<1>1. CASE BeginAdopted(o)
  <2>0. Begins(o, 0, 0) /\ op[o] = NoOp
    BY <1>1 DEF BeginAdopted, Begins
  <2>1. /\ \A r \in Ops : r # o => op'[r] = op[r]
        /\ op'[o].src = 0 /\ op'[o].did = {} /\ op'[o].act = 0 /\ op'[o].res = 0
        /\ kop' = kop /\ seen' = seen
    <3>1. kop' = kop /\ seen' = seen
      BY <1>1 DEF BeginAdopted, kvars
    <3> QED
      BY <2>0, <3>1, BeginEffect
  <2>2. op[o].did = {} /\ op[o].res = 0 /\ op[o].src = -1
    BY <1>1 DEF BeginAdopted, NoOp
  <2>3. kop[o].has = {} /\ kop[o].res = 0
    <3>1. kop[o] = NoReceipt
      BY <2>2 DEF Journal, Begun
    <3> QED
      BY <3>1 DEF NoReceipt
  <2>4. Journal(o)'
    <3>1. op'[o].src # -1
      BY <2>1
    <3>2. op'[o].did = {} /\ op'[o].res = 0 /\ kop'[o].has = {} /\ kop'[o].res = 0
      BY <2>1, <2>3
    <3> QED
      BY <3>1, <3>2 DEF Journal, Begun, Did, Has
  <2>5. Witnessed(o)'
    BY <2>1, <2>2 DEF Witnessed, Did, Has, Saw
  <2>6. q # o => op'[q] = op[q] /\ kop'[q] = kop[q] /\ Unread(q)
    BY <2>1 DEF Unread
  <2> QED
    BY <2>4, <2>5, <2>6, SameJournal
<1>2. CASE BeginPause(o)
  <2>0. oc.epoch \in Nat /\ oc.gen \in Nat
    BY DEF TypeOK, Gates
  <2>1. /\ \A r \in Ops : r # o => op'[r] = op[r]
        /\ op'[o].src = oc.epoch /\ op'[o].did = {} /\ op'[o].act = 0 /\ op'[o].res = 0
        /\ kop' = kop /\ seen' = seen
    <3>1. kop' = kop /\ seen' = seen
      BY <1>2 DEF BeginPause, kvars
    <3>2. Begins(o, oc.epoch, oc.gen) /\ op[o] = NoOp
      BY <1>2 DEF BeginPause, Begins
    <3> QED
      BY <2>0, <3>1, <3>2, BeginEffect
  <2>2. op[o].did = {} /\ op[o].res = 0 /\ op[o].src = -1
    BY <1>2 DEF BeginPause, NoOp
  <2>3. kop[o].has = {} /\ kop[o].res = 0
    <3>1. kop[o] = NoReceipt
      BY <2>2 DEF Journal, Begun
    <3> QED
      BY <3>1 DEF NoReceipt
  <2>4. Journal(o)'
    <3>1. op'[o].src # -1
      BY <2>0, <2>1
    <3>2. op'[o].did = {} /\ op'[o].res = 0 /\ kop'[o].has = {} /\ kop'[o].res = 0
      BY <2>1, <2>3
    <3> QED
      BY <3>1, <3>2 DEF Journal, Begun, Did, Has
  <2>5. Witnessed(o)'
    BY <2>1, <2>2 DEF Witnessed, Did, Has, Saw
  <2>6. q # o => op'[q] = op[q] /\ kop'[q] = kop[q] /\ Unread(q)
    BY <2>1 DEF Unread
  <2> QED
    BY <2>4, <2>5, <2>6, SameJournal
<1>3. CASE KPreparePause(o)
  <2>1. Issued(o, "barrier") /\ op' = op /\ seen' = seen
    BY <1>3, ReceiptEffect DEF KPreparePause, Receipts, ovars
  <2>2. Begun(o)
    BY <1>3, BegunHas DEF KPreparePause, Did, Has, Begun
  <2>3. Journal(o)'
    BY <1>3, <2>1, <2>2 DEF KPreparePause, Issued, KeepsReceipts, Journal, Witnessed, Begun, Did, Has
  <2>4. Witnessed(o)'
    BY <2>1 DEF Issued, KeepsReceipts, Witnessed, Did, Has, Saw
  <2>5. q # o => op'[q] = op[q] /\ kop'[q] = kop[q] /\ Unread(q)
    BY <2>1 DEF Issued, Unread
  <2> QED
    BY <2>3, <2>4, <2>5, SameJournal
<1>4. CASE KCompletePause(o)
  <2>1. Issued(o, "paused") /\ op' = op /\ seen' = seen
    BY <1>4, ReceiptEffect DEF KCompletePause, Receipts, ovars
  <2>2. Begun(o)
    BY <1>4, BegunHas DEF KCompletePause, Did, Has, Begun
  <2>3. Journal(o)'
    BY <1>4, <2>1, <2>2 DEF KCompletePause, Issued, KeepsReceipts, Journal, Witnessed, Begun, Did, Has
  <2>4. Witnessed(o)'
    BY <2>1 DEF Issued, KeepsReceipts, Witnessed, Did, Has, Saw
  <2>5. q # o => op'[q] = op[q] /\ kop'[q] = kop[q] /\ Unread(q)
    BY <2>1 DEF Issued, Unread
  <2> QED
    BY <2>3, <2>4, <2>5, SameJournal
<1>5. CASE KCapture(o)
  <2>1. Issued(o, "captured") /\ op' = op /\ seen' = seen
    BY <1>5, ReceiptEffect DEF KCapture, Receipts, ovars
  <2>2. Begun(o)
    BY <1>5, BegunHas DEF KCapture, Did, Has, Begun
  <2>3. Journal(o)'
    BY <1>5, <2>1, <2>2 DEF KCapture, Issued, KeepsReceipts, Journal, Witnessed, Begun, Did, Has
  <2>4. Witnessed(o)'
    BY <2>1 DEF Issued, KeepsReceipts, Witnessed, Did, Has, Saw
  <2>5. q # o => op'[q] = op[q] /\ kop'[q] = kop[q] /\ Unread(q)
    BY <2>1 DEF Issued, Unread
  <2> QED
    BY <2>3, <2>4, <2>5, SameJournal
<1>6. ASSUME NEW what \in {"barrier", "paused", "captured"}, RecordPause(o, what)
      PROVE  Journal(q)' /\ Witnessed(q)'
  <2>1. Recorded(o, what) /\ kop' = kop /\ seen' = seen
    BY <1>6, RecordEffect DEF RecordPause, Records, kvars
  <2>2. Begun(o)
    BY <1>6, BegunHas DEF RecordPause, Did, Has
  <2>3. Journal(o)'
    BY <1>6, <2>1, <2>2 DEF RecordPause, Recorded, KeepsOp, Journal, Begun, Did, Has
  <2>4. Witnessed(o)'
    BY <2>1 DEF Recorded, KeepsOp, Witnessed, Did, Has, Saw
  <2>5. q # o => op'[q] = op[q] /\ kop'[q] = kop[q] /\ Unread(q)
    BY <2>1 DEF Recorded, Unread
  <2> QED
    BY <2>3, <2>4, <2>5, SameJournal
<1>7. CASE SeePaused(o)
  <2>1. op' = op /\ kop' = kop
    BY <1>7 DEF SeePaused, kvars, ovars
  <2>2. Unread(q) \/ q = o
    BY <1>7 DEF SeePaused, See, Hold, Unread
  <2>3. Journal(q)'
    BY <2>1 DEF Journal, Begun, Did, Has
  <2>4. Witnessed(o)'
    BY <1>7, <2>1 DEF SeePaused, See, Hold, Held, Saw, Journal, Witnessed, Did, Has, Leases
  <2> QED
    BY <2>1, <2>2, <2>3, <2>4, SameJournal
<1>8. CASE PreparePause(o)
  <2>1. Recorded(o, "prepared") /\ kop' = kop /\ seen' = seen
    BY <1>8, RecordEffect DEF PreparePause, Records, kvars
  <2>2. Begun(o)
    BY <1>8, BegunHas DEF PreparePause, Did, Has
  <2>3. Journal(o)'
    BY <1>8, <2>1, <2>2 DEF PreparePause, Recorded, KeepsOp, Journal, Begun, Did, Has
  <2>4. Witnessed(o)'
    BY <2>1 DEF Recorded, KeepsOp, Witnessed, Did, Has, Saw
  <2>5. q # o => op'[q] = op[q] /\ kop'[q] = kop[q] /\ Unread(q)
    BY <2>1 DEF Recorded, Unread
  <2> QED
    BY <2>3, <2>4, <2>5, SameJournal
<1>9. CASE FinalizePause(o)
  <2>1. Recorded(o, "finalized") /\ kop' = kop /\ seen' = seen
    BY <1>9, RecordEffect DEF FinalizePause, Records, kvars
  <2>2. Begun(o)
    BY <1>9, BegunHas DEF FinalizePause, Did, Has
  <2>3. Journal(o)'
    BY <1>9, <2>1, <2>2 DEF FinalizePause, Recorded, KeepsOp, Journal, Begun, Did, Has
  <2>4. Witnessed(o)'
    BY <2>1 DEF Recorded, KeepsOp, Witnessed, Did, Has, Saw
  <2>5. q # o => op'[q] = op[q] /\ kop'[q] = kop[q] /\ Unread(q)
    BY <2>1 DEF Recorded, Unread
  <2> QED
    BY <2>3, <2>4, <2>5, SameJournal
<1> QED
  BY <1>1, <1>2, <1>3, <1>4, <1>5, <1>6, <1>7, <1>8, <1>9 DEF Pause

LEMMA ReviseJournal ==
    ASSUME TypeOK, \A r \in Ops : Journal(r) /\ Witnessed(r), ControlAssumption,
           NEW o \in Ops, Revise(o), NEW q \in Ops
    PROVE  Journal(q)' /\ Witnessed(q)'
<1>0. lease \in Leases /\ 0 \notin Leases
  BY DEF TypeOK, Leases, ControlAssumption
<1>1. CASE CommitRevision(o)
  <2>1. Recorded(o, "decided") /\ kop' = kop /\ seen' = seen
    BY <1>1, RecordEffect DEF CommitRevision, Records, kvars
  <2>2. Begun(o)
    BY <1>1, BegunHas DEF CommitRevision, Did, Has
  <2>3. Journal(o)'
    BY <1>1, <2>1, <2>2 DEF CommitRevision, Recorded, KeepsOp, Journal, Begun, Did, Has
  <2>4. Witnessed(o)'
    BY <2>1 DEF Recorded, KeepsOp, Witnessed, Did, Has, Saw
  <2>5. q # o => op'[q] = op[q] /\ kop'[q] = kop[q] /\ Unread(q)
    BY <2>1 DEF Recorded, Unread
  <2> QED
    BY <2>3, <2>4, <2>5, SameJournal
<1>2. CASE OrderInstall(o)
  <2>1. op' = op /\ kop' = kop
    BY <1>2 DEF OrderInstall, kvars, ovars
  <2>2. Unread(q) \/ q = o
    BY <1>2 DEF OrderInstall, See, Hold, Unread
  <2>3. Journal(q)'
    BY <2>1 DEF Journal, Begun, Did, Has
  <2>4. Witnessed(o)'
    BY <1>2, <2>1 DEF OrderInstall, See, Hold, Held, Saw, Journal, Witnessed, Did, Has, Leases
  <2> QED
    BY <2>1, <2>2, <2>3, <2>4, SameJournal
<1>3. CASE KInstall(o)
  <2>1. Issued(o, "installed") /\ op' = op /\ seen' = seen
    BY <1>3, ReceiptEffect DEF KInstall, Receipts, ovars
  <2>2. Begun(o)
    BY <1>3, BegunHas DEF KInstall, Did, Has, Begun
  <2>3. Journal(o)'
    BY <1>3, <2>1, <2>2 DEF KInstall, Issued, KeepsReceipts, Journal, Witnessed, Begun, Did, Has
  <2>4. Witnessed(o)'
    BY <2>1 DEF Issued, KeepsReceipts, Witnessed, Did, Has, Saw
  <2>5. q # o => op'[q] = op[q] /\ kop'[q] = kop[q] /\ Unread(q)
    BY <2>1 DEF Issued, Unread
  <2> QED
    BY <2>3, <2>4, <2>5, SameJournal
<1>4. CASE RecordInstall(o)
  <2>1. Recorded(o, "kernel installed") /\ kop' = kop /\ seen' = seen
    BY <1>4, RecordEffect DEF RecordInstall, Records, kvars
  <2>2. Begun(o)
    BY <1>4, BegunHas DEF RecordInstall, Did, Has
  <2>3. Journal(o)'
    BY <1>4, <2>1, <2>2 DEF RecordInstall, Recorded, KeepsOp, Journal, Begun, Did, Has
  <2>4. Witnessed(o)'
    BY <2>1 DEF Recorded, KeepsOp, Witnessed, Did, Has, Saw
  <2>5. q # o => op'[q] = op[q] /\ kop'[q] = kop[q] /\ Unread(q)
    BY <2>1 DEF Recorded, Unread
  <2> QED
    BY <2>3, <2>4, <2>5, SameJournal
<1>5. CASE SeeInstalled(o)
  <2>1. op' = op /\ kop' = kop
    BY <1>5 DEF SeeInstalled, kvars, ovars
  <2>2. Unread(q) \/ q = o
    BY <1>5 DEF SeeInstalled, See, Hold, Unread
  <2>3. Journal(q)'
    BY <2>1 DEF Journal, Begun, Did, Has
  <2>4. Witnessed(o)'
    BY <1>5, <2>1 DEF SeeInstalled, See, Hold, Held, Saw, Journal, Witnessed, Did, Has, Leases
  <2> QED
    BY <2>1, <2>2, <2>3, <2>4, SameJournal
<1>6. CASE InstallProjection(o)
  <2>1. Recorded(o, "installed") /\ kop' = kop /\ seen' = seen
    BY <1>6, RecordEffect DEF InstallProjection, Records, kvars
  <2>2. Begun(o)
    BY <1>6, BegunHas DEF InstallProjection, Did, Has, Witnessed, Saw
  <2>3. Journal(o)'
    BY <1>6, <2>1, <2>2 DEF InstallProjection, Recorded, KeepsOp, Journal, Witnessed, Saw, Begun, Did, Has
  <2>4. Witnessed(o)'
    BY <2>1 DEF Recorded, KeepsOp, Witnessed, Did, Has, Saw
  <2>5. q # o => op'[q] = op[q] /\ kop'[q] = kop[q] /\ Unread(q)
    BY <2>1 DEF Recorded, Unread
  <2> QED
    BY <2>3, <2>4, <2>5, SameJournal
<1>7. CASE OrderBudget(o)
  <2>1. op' = op /\ kop' = kop
    BY <1>7 DEF OrderBudget, kvars, ovars
  <2>2. Unread(q) \/ q = o
    BY <1>7 DEF OrderBudget, See, Hold, Unread
  <2>3. Journal(q)'
    BY <2>1 DEF Journal, Begun, Did, Has
  <2>4. Witnessed(o)'
    BY <1>7, <2>1 DEF OrderBudget, See, Hold, Held, Saw, Journal, Witnessed, Did, Has, Leases
  <2> QED
    BY <2>1, <2>2, <2>3, <2>4, SameJournal
<1>8. CASE KInstallBudget(o)
  <2>1. Issued(o, "budget") /\ op' = op /\ seen' = seen
    BY <1>8, ReceiptEffect DEF KInstallBudget, Receipts, ovars
  <2>2. Begun(o)
    BY <1>8, BegunHas DEF KInstallBudget, Witnessed, Did, Has, Begun
  <2>3. Journal(o)'
    BY <1>8, <2>1, <2>2 DEF KInstallBudget, Issued, KeepsReceipts, Journal, Witnessed, Begun, Did, Has
  <2>4. Witnessed(o)'
    BY <2>1 DEF Issued, KeepsReceipts, Witnessed, Did, Has, Saw
  <2>5. q # o => op'[q] = op[q] /\ kop'[q] = kop[q] /\ Unread(q)
    BY <2>1 DEF Issued, Unread
  <2> QED
    BY <2>3, <2>4, <2>5, SameJournal
<1>9. CASE RecordBudget(o)
  <2>1. Recorded(o, "budget") /\ kop' = kop /\ seen' = seen
    BY <1>9, RecordEffect DEF RecordBudget, Records, kvars
  <2>2. Begun(o)
    BY <1>9, BegunHas DEF RecordBudget, Did, Has
  <2>3. Journal(o)'
    BY <1>9, <2>1, <2>2 DEF RecordBudget, Recorded, KeepsOp, Journal, Begun, Did, Has
  <2>4. Witnessed(o)'
    BY <2>1 DEF Recorded, KeepsOp, Witnessed, Did, Has, Saw
  <2>5. q # o => op'[q] = op[q] /\ kop'[q] = kop[q] /\ Unread(q)
    BY <2>1 DEF Recorded, Unread
  <2> QED
    BY <2>3, <2>4, <2>5, SameJournal
<1> QED
  BY <1>1, <1>2, <1>3, <1>4, <1>5, <1>6, <1>7, <1>8, <1>9 DEF Revise

LEMMA ReopenJournal ==
    ASSUME TypeOK, \A r \in Ops : Journal(r) /\ Witnessed(r), ControlAssumption,
           NEW o \in Ops, Reopen(o), NEW q \in Ops
    PROVE  Journal(q)' /\ Witnessed(q)'
<1>0. lease \in Leases /\ 0 \notin Leases
  BY DEF TypeOK, Leases, ControlAssumption
<1>1. CASE OrderActivation(o)
  <2>1. /\ \A r \in Ops : r # o => op'[r] = op[r]
        /\ op'[o].src = op[o].src /\ op'[o].did = op[o].did
        /\ op'[o].res = op[o].res
        /\ kop' = kop
    BY <1>0, <1>1, OrderEffect DEF OrderActivation, kvars
  <2>2. Begun(o)
    BY <1>1, BegunHas DEF OrderActivation, Did
  <2>3. Journal(o)'
    BY <1>1, <2>1, <2>2 DEF OrderActivation, Journal, Begun, Did, Has
  <2>4. Witnessed(o)'
    BY <1>1, <2>1 DEF OrderActivation, Hold, Witnessed, Did, Has, Saw
  <2>5. q # o => op'[q] = op[q] /\ kop'[q] = kop[q] /\ Unread(q)
    BY <1>1, <2>1 DEF OrderActivation, Hold, Unread
  <2> QED
    BY <2>3, <2>4, <2>5, SameJournal
<1>2. ASSUME NEW l \in Leases, KActivate(o, l)
      PROVE  Journal(q)' /\ Witnessed(q)'
  <2>0. kop' = [kop EXCEPT ![o].act = l] /\ op' = op /\ seen' = seen
    BY <1>2 DEF KActivate, ovars
  <2>1. /\ \A r \in Ops : r # o => kop'[r] = kop[r]
        /\ kop'[o].has = kop[o].has /\ kop'[o].res = kop[o].res
        /\ op' = op /\ seen' = seen
    BY <1>0, <1>2, <2>0, OpenEffect
  <2>2. Begun(o)
    BY <1>2, BegunHas DEF KActivate, Witnessed, Did, Leases
  <2>3. Journal(o)'
    BY <1>2, <2>1, <2>2 DEF KActivate, Journal, Witnessed, Begun, Did, Has
  <2>4. Witnessed(o)'
    BY <2>1 DEF Witnessed, Did, Has, Saw
  <2>5. q # o => op'[q] = op[q] /\ kop'[q] = kop[q] /\ Unread(q)
    BY <2>1 DEF Unread
  <2> QED
    BY <2>3, <2>4, <2>5, SameJournal
<1>3. CASE RecordActivation(o)
  <2>1. Recorded(o, "activated") /\ kop' = kop /\ seen' = seen
    BY <1>3, RecordEffect DEF RecordActivation, Records, kvars
  <2>2. Begun(o)
    BY <1>0, <1>3, BegunHas DEF RecordActivation, Did, Has, Witnessed, Journal, Held
  <2>3. Journal(o)'
    BY <1>0, <1>3, <2>1, <2>2 DEF RecordActivation, Recorded, KeepsOp, Witnessed, Journal, Held, Begun, Did, Has
  <2>4. Witnessed(o)'
    BY <2>1 DEF Recorded, KeepsOp, Witnessed, Did, Has, Saw
  <2>5. q # o => op'[q] = op[q] /\ kop'[q] = kop[q] /\ Unread(q)
    BY <2>1 DEF Recorded, Unread
  <2> QED
    BY <2>3, <2>4, <2>5, SameJournal
<1>4. CASE OrderResume(o)
  <2>1. /\ \A r \in Ops : r # o => op'[r] = op[r]
        /\ op'[o].src = op[o].src /\ op'[o].did = op[o].did
        /\ op'[o].res # 0
        /\ kop' = kop
    BY <1>0, <1>4, OrderEffect DEF OrderResume, kvars
  <2>2. Begun(o)
    BY <1>4, BegunHas DEF OrderResume, Did
  <2>3. Journal(o)'
    BY <1>4, <2>1, <2>2 DEF OrderResume, Journal, Begun, Did, Has
  <2>4. Witnessed(o)'
    BY <1>4, <2>1 DEF OrderResume, Hold, Witnessed, Did, Has, Saw
  <2>5. q # o => op'[q] = op[q] /\ kop'[q] = kop[q] /\ Unread(q)
    BY <1>4, <2>1 DEF OrderResume, Hold, Unread
  <2> QED
    BY <2>3, <2>4, <2>5, SameJournal
<1>5. CASE CheckResume(o)
  <2>1. op' = op /\ kop' = kop
    BY <1>5 DEF CheckResume, kvars, ovars
  <2>2. Unread(q) \/ q = o
    BY <1>5 DEF CheckResume, See, Hold, Unread
  <2>3. Journal(q)'
    BY <2>1 DEF Journal, Begun, Did, Has
  <2>4. Witnessed(o)'
    BY <1>5, <2>1 DEF CheckResume, See, Hold, Held, Saw, Journal, Witnessed, Did, Has, Leases
  <2> QED
    BY <2>1, <2>2, <2>3, <2>4, SameJournal
<1>6. ASSUME NEW l \in Leases, KResume(o, l)
      PROVE  Journal(q)' /\ Witnessed(q)'
  <2>0. kop' = [kop EXCEPT ![o].res = l] /\ op' = op /\ seen' = seen
    BY <1>6 DEF KResume, ovars
  <2>1. /\ \A r \in Ops : r # o => kop'[r] = kop[r]
        /\ kop'[o].has = kop[o].has /\ kop'[o].res # 0
        /\ op' = op /\ seen' = seen
    BY <1>0, <1>6, <2>0, OpenEffect
  <2>2. Begun(o)
    BY <1>6, BegunHas DEF KResume, Witnessed, Did, Leases
  <2>3. Journal(o)'
    BY <1>6, <2>1, <2>2 DEF KResume, Journal, Witnessed, Begun, Did, Has
  <2>4. Witnessed(o)'
    BY <2>1 DEF Witnessed, Did, Has, Saw
  <2>5. q # o => op'[q] = op[q] /\ kop'[q] = kop[q] /\ Unread(q)
    BY <2>1 DEF Unread
  <2> QED
    BY <2>3, <2>4, <2>5, SameJournal
<1>7. CASE CommitResume(o)
  <2>1. Recorded(o, "resumed") /\ kop' = kop /\ seen' = seen
    BY <1>7, RecordEffect DEF CommitResume, Records, kvars
  <2>2. Begun(o)
    BY <1>0, <1>7, BegunHas DEF CommitResume, Did, Has, Witnessed, Journal, Held
  <2>3. Journal(o)'
    BY <1>0, <1>7, <2>1, <2>2 DEF CommitResume, Recorded, KeepsOp, Witnessed, Journal, Held, Begun, Did, Has
  <2>4. Witnessed(o)'
    BY <2>1 DEF Recorded, KeepsOp, Witnessed, Did, Has, Saw
  <2>5. q # o => op'[q] = op[q] /\ kop'[q] = kop[q] /\ Unread(q)
    BY <2>1 DEF Recorded, Unread
  <2> QED
    BY <2>3, <2>4, <2>5, SameJournal
<1> QED
  BY <1>1, <1>2, <1>3, <1>4, <1>5, <1>6, <1>7 DEF Reopen

LEMMA StepJournal ==
    ASSUME ControlInv, ControlAssumption, Next, NEW q \in Ops
    PROVE  Journal(q)' /\ Witnessed(q)'
<1>1. TypeOK /\ \A r \in Ops : Journal(r) /\ Witnessed(r)
  BY DEF ControlInv
<1>2. ASSUME NEW p \in Phases \X Ops, TakeOver(p)
      PROVE  Journal(q)' /\ Witnessed(q)'
  <2>1. op' = op /\ kop' = kop /\ seen' = seen
    BY <1>2 DEF TakeOver, ClaimTakeover, KTakeOver, AckTakeover, ResolveTakeover, kvars, ovars
  <2> QED
    BY <1>1, <2>1, SameJournal DEF Unread
<1>3. ASSUME NEW c \in Cancels, Cancel(c)
      PROVE  Journal(q)' /\ Witnessed(q)'
  <2>1. op' = op /\ kop' = kop /\ (seen' = seen \/ seen' = seen \cup {<<"cancel", c, lease>>})
    BY <1>3 DEF Cancel, CancelIntent, KFence, RefreshCancel, CommitCancel, Hold, kvars, ovars
  <2> QED
    BY <1>1, <2>1, SameJournal DEF Unread
<1>4. CASE NewLease
  BY <1>1, <1>4, SameJournal DEF NewLease, Unread, kvars, ovars
<1> QED
  BY <1>1, <1>2, <1>3, <1>4, PauseJournal, ReviseJournal, ReopenJournal DEF Next

-----------------------------------------------------------------------------
(* Gates: the records of the one unfinished operation say where they are.  *)

\* A step that leaves what the gates depend on
Alike(o) ==
    /\ op'[o].src = op[o].src /\ op'[o].gen = op[o].gen /\ kop'[o].res = kop[o].res
    /\ \A what \in {"finalized", "installed", "resumed"} : Did(o, what)' <=> Did(o, what)
    /\ \A what \in {"barrier", "paused", "installed"} : Has(o, what)' <=> Has(o, what)

LEMMA AlikeGates ==
    ASSUME NEW o \in Ops, Alike(o)
    PROVE  /\ Begun(o)' <=> Begun(o)
           /\ Unfinished(o)' <=> Unfinished(o)
           /\ kc' = kc /\ oc' = oc /\ kfence' = kfence /\ GatesOf(o) => GatesOf(o)'
<1>1. (Begun(o)' <=> Begun(o)) /\ (Unfinished(o)' <=> Unfinished(o))
  BY DEF Alike, Begun, Unfinished, Did
<1>2. /\ Pausing(o)' = Pausing(o) /\ Paused(o)' = Paused(o) /\ Installed(o)' = Installed(o)
      /\ Reopened(o)' = Reopened(o) /\ Source(o)' = Source(o)
  BY DEF Alike, Pausing, Paused, Installed, Reopened, Source, Gate
<1>3. ASSUME kc' = kc, oc' = oc, kfence' = kfence, GatesOf(o)
      PROVE  GatesOf(o)'
  <2>1. CancelFenced' <=> CancelFenced
    BY <1>3 DEF CancelFenced
  <2>2. AtLocalGate(o) => AtLocalGate(o)'
    BY <1>2, <1>3 DEF Alike, AtLocalGate
  <2>3. AtKernelGate(o) => AtKernelGate(o)'
    BY <1>2, <1>3 DEF Alike, AtKernelGate
  <2> QED
    BY <1>3, <2>1, <2>2, <2>3 DEF Alike, GatesOf
<1> QED
  BY <1>1, <1>3

LEMMA GatesSame ==
    ASSUME GatesInv, kc' = kc, oc' = oc, kfence' = kfence, \A o \in Ops : Alike(o)
    PROVE  GatesInv'
<1>1. CancelFenced' <=> CancelFenced
  BY DEF CancelFenced
<1> QED
  BY <1>1, AlikeGates DEF GatesInv

\* ... when something is recorded or issued the gates do not depend on
LEMMA RecordedAlike ==
    ASSUME NEW o \in Ops, NEW what \in Records \ {"finalized", "installed", "resumed"},
           Recorded(o, what), kop' = kop
    PROVE  \A q \in Ops : Alike(q)
BY DEF Recorded, KeepsOp, Alike, Did, Has

LEMMA IssuedAlike ==
    ASSUME NEW o \in Ops, NEW what \in {"captured", "budget"}, Issued(o, what), op' = op
    PROVE  \A q \in Ops : Alike(q)
BY DEF Issued, KeepsReceipts, Alike, Did, Has

\* A step of the one operation that is, or comes to be, unfinished
LEMMA GatesOfOne ==
    ASSUME NEW o \in Ops,
           \A q \in Ops : q # o => ~Unfinished(q)',
           oc'.epoch >= 1,
           oc'.state = "active" => ~Unfinished(o)',
           Unfinished(o)' => GatesOf(o)',
           ~Unfinished(o)' => oc'.gen = kc'.gen /\ (~CancelFenced' => kc' = oc')
    PROVE  GatesInv'
BY DEF GatesInv

LEMMA OtherUnfinished ==
    ASSUME NEW q \in Ops, op'[q] = op[q]
    PROVE  Unfinished(q)' <=> Unfinished(q)
BY DEF Unfinished, Begun, Did

LEMMA BeginGates ==
    ASSUME ControlInv, NEW o \in Ops, BeginAdopted(o) \/ BeginPause(o)
    PROVE  GatesInv'
<1>0. /\ TypeOK /\ Journal(o) /\ GatesInv /\ oc \in Gates /\ oc.epoch \in Nat /\ oc.gen \in Nat
  BY DEF ControlInv, TypeOK, Gates
<1>e. PICK e \in Nat : e = IF BeginAdopted(o) THEN 0 ELSE oc.epoch
  BY <1>0
<1>g. PICK g \in Nat : g = IF BeginAdopted(o) THEN 0 ELSE oc.gen
  BY <1>0
<1>1. op[o] = NoOp /\ kop' = kop /\ kc' = kc /\ kfence' = kfence
  BY <1>0 DEF BeginAdopted, BeginPause, kvars
<1>2. BeginAdopted(o) => e = 0 /\ g = 0 /\ oc = Gate("paused", 0, 0) /\ op' = [op EXCEPT ![o].src = 0] /\ oc' = Gate("pausing", 1, 0)
  BY <1>e, <1>g DEF BeginAdopted
<1>3. ~BeginAdopted(o) => /\ e = oc.epoch /\ g = oc.gen /\ oc.state = "active" /\ oc' = Gate("pausing", e + 1, g)
                          /\ op' = [op EXCEPT ![o].src = e, ![o].gen = g]
  BY <1>e, <1>g DEF BeginPause
<1>4. oc = Gate(IF e = 0 THEN "paused" ELSE "active", e, g) /\ oc' = Gate("pausing", e + 1, g)
  <2>1. CASE BeginAdopted(o)
    BY <1>2, <2>1
  <2>2. CASE ~BeginAdopted(o)
    <3>1. e >= 1
      BY <1>0, <1>3, <2>2 DEF GatesInv
    <3>2. oc = Gate("active", e, g)
      BY <1>0, <1>3, <2>2 DEF Gate, Gates
    <3> QED
      BY <1>1, <1>3, <2>2, <3>1, <3>2
  <2> QED
    BY <2>1, <2>2
<1>5. \A q \in Ops : ~Unfinished(q)
  <2>1. CASE BeginAdopted(o)
    <3>1. oc.epoch = 0
      BY <1>2, <2>1 DEF Gate
    <3> QED
      BY <1>0, <3>1 DEF GatesInv, Unfinished
  <2>2. CASE ~BeginAdopted(o)
    BY <1>0, <1>3, <2>2 DEF GatesInv
  <2> QED
    BY <2>1, <2>2
<1>6. /\ \A q \in Ops : q # o => op'[q] = op[q]
      /\ op'[o].src = e /\ op'[o].gen = g /\ op'[o].did = {}
  <2>1. CASE BeginAdopted(o)
    <3>1. Begins(o, e, g)
      BY <1>2, <2>1 DEF Begins
    <3> QED
      BY <1>0, <1>1, <3>1, BeginEffect
  <2>2. CASE ~BeginAdopted(o)
    <3>1. Begins(o, e, g)
      BY <1>3, <2>2 DEF Begins
    <3> QED
      BY <1>0, <1>1, <3>1, BeginEffect
  <2> QED
    BY <2>1, <2>2
<1>7. kop'[o].has = {} /\ kop'[o].res = 0
  <2>1. kop[o] = NoReceipt
    <3>1. ~Begun(o)
      BY <1>1 DEF Begun, NoOp
    <3> QED
      BY <1>0, <3>1 DEF Journal
  <2> QED
    BY <1>1, <2>1 DEF NoReceipt
<1>8. \A q \in Ops : q # o => ~Unfinished(q)'
  BY <1>5, <1>6, OtherUnfinished
<1>9. Unfinished(o)'
  <2>1. op'[o].src # -1
    BY <1>1, <1>6
  <2> QED
    BY <1>6, <2>1 DEF Unfinished, Begun, Did
<1>10. oc.gen = kc.gen /\ (~CancelFenced => kc = oc)
  BY <1>0, <1>5 DEF GatesInv
<1>11. oc.gen = g /\ oc'.gen = g /\ oc'.epoch = e + 1 /\ oc'.state = "pausing"
  BY <1>4 DEF Gate
<1>12. GatesOf(o)'
  <2>1. ~Did(o, "installed")' /\ ~Did(o, "finalized")' /\ ~Has(o, "installed")' /\ ~Has(o, "paused")' /\ ~Has(o, "barrier")'
    BY <1>6, <1>7 DEF Did, Has
  <2>2. AtLocalGate(o)'
    BY <1>4, <1>6, <2>1 DEF AtLocalGate, Pausing
  <2>3. ~CancelFenced' => kc' = Source(o)'
    BY <1>1, <1>4, <1>6, <1>10 DEF Source, CancelFenced
  <2>4. ~CancelFenced' => AtKernelGate(o)'
    BY <1>7, <2>1, <2>3 DEF AtKernelGate
  <2> QED
    BY <1>1, <1>6, <1>10, <1>11, <2>1, <2>2, <2>4 DEF GatesOf
<1>13. oc'.epoch >= 1
  BY <1>1, <1>11
<1> QED
  BY <1>8, <1>9, <1>11, <1>12, <1>13, GatesOfOne

\* What the steps of the unfinished operation o have in common
LEMMA TheUnfinished ==
    ASSUME ControlInv, NEW o \in Ops, Unfinished(o), \A q \in Ops : q # o => op'[q] = op[q]
    PROVE  /\ \A q \in Ops : q # o => ~Unfinished(q)'
           /\ op[o].src \in Nat /\ op[o].gen \in Nat
           /\ oc.epoch >= 1 /\ oc.state # "active"
           /\ GatesOf(o)
<1>1. TypeOK /\ GatesInv
  BY DEF ControlInv
<1>2. \A q \in Ops : q # o => ~Unfinished(q)'
  BY <1>1, OtherUnfinished DEF GatesInv
<1>3. op[o].src \in Nat /\ op[o].gen \in Nat
  BY <1>1 DEF TypeOK, Unfinished, Begun
<1> QED
  BY <1>1, <1>2, <1>3 DEF GatesInv, Unfinished

\* A gate at the Kernel that moves
LEMMA KernelMoves ==
    ASSUME ControlInv, NEW o \in Ops, Unfinished(o), op' = op, oc' = oc, kfence' = kfence,
           kc'.gen = op[o].gen + (IF Has(o, "installed")' THEN 1 ELSE 0),
           AtKernelGate(o)'
    PROVE  GatesInv'
<1>1. /\ \A q \in Ops : q # o => ~Unfinished(q)'
      /\ oc.epoch >= 1 /\ oc.state # "active" /\ GatesOf(o)
  BY TheUnfinished
<1>2. Unfinished(o)'
  BY DEF Unfinished, Begun, Did
<1>3. (CancelFenced' <=> CancelFenced) /\ (Did(o, "installed")' <=> Did(o, "installed"))
      /\ (AtLocalGate(o)' <=> AtLocalGate(o))
  BY DEF CancelFenced, Did, AtLocalGate, Pausing, Paused, Installed
<1>4. GatesOf(o)'
  BY <1>1, <1>3 DEF GatesOf
<1> QED
  BY <1>1, <1>2, <1>4, GatesOfOne

LEMMA KernelGates ==
    ASSUME ControlInv, NEW o \in Ops,
           \/ KPreparePause(o) \/ KCompletePause(o) \/ KInstall(o)
           \/ \E l \in Leases : KResume(o, l)
    PROVE  GatesInv'
<1>0. TypeOK /\ Journal(o) /\ Witnessed(o) /\ ~(0 \in Leases)
  BY DEF ControlInv, Leases
<1>1. op' = op /\ oc' = oc /\ kfence' = kfence
  BY DEF KPreparePause, KCompletePause, KInstall, KResume, ovars
<1>2. Begun(o) /\ kop[o].res = 0
  <2>1. kop[o].res = 0
    BY <1>0 DEF Journal, KPreparePause, KCompletePause, KInstall, KResume
  <2>2. Begun(o)
    <3>1. KPreparePause(o) => op[o].src >= 0
      BY DEF KPreparePause
    <3>2. ~KPreparePause(o) => kop[o].has # {}
      BY DEF KCompletePause, KInstall, KResume, Has
    <3>3. op[o].src >= 0 => Begun(o)
      BY DEF Begun
    <3> QED
      BY <1>0, <3>1, <3>2, <3>3, BegunHas
  <2> QED
    BY <2>1, <2>2
<1>3. Unfinished(o)
  BY <1>0, <1>2 DEF Unfinished, Journal
<1>4. op[o].src \in Nat /\ op[o].gen \in Nat
  BY <1>0, <1>2 DEF TypeOK, Begun
<1>5. /\ Pausing(o)' = Pausing(o) /\ Paused(o)' = Paused(o) /\ Installed(o)' = Installed(o) /\ Reopened(o)' = Reopened(o)
      /\ Pausing(o).gen = op[o].gen /\ Paused(o).gen = op[o].gen
      /\ Installed(o).gen = op[o].gen + 1 /\ Reopened(o).gen = op[o].gen + 1
  BY <1>1 DEF Pausing, Paused, Installed, Reopened, Gate
<1>6. CASE KPreparePause(o)
  <2>1. Issued(o, "barrier") /\ kc' = Pausing(o)
    BY <1>0, <1>6, ReceiptEffect DEF KPreparePause, Receipts
  <2>2. ~Has(o, "barrier") /\ ~Has(o, "paused") /\ ~Has(o, "installed")
    BY <1>0, <1>6 DEF KPreparePause, Journal
  <2>3. Has(o, "barrier")' /\ ~Has(o, "paused")' /\ ~Has(o, "installed")'
    BY <2>1, <2>2 DEF Issued, Has
  <2>4. kop'[o].res = 0
    BY <1>2, <2>1 DEF Issued, KeepsReceipts
  <2>5. AtKernelGate(o)'
    BY <1>5, <2>1, <2>3, <2>4 DEF AtKernelGate
  <2> QED
    BY <1>1, <1>3, <1>4, <1>5, <2>1, <2>3, <2>5, KernelMoves
<1>7. CASE KCompletePause(o)
  <2>1. Issued(o, "paused") /\ kc' = Paused(o)
    BY <1>0, <1>7, ReceiptEffect DEF KCompletePause, Receipts
  <2>2. Has(o, "barrier") /\ ~Has(o, "paused") /\ ~Has(o, "installed")
    BY <1>0, <1>7 DEF KCompletePause, Journal
  <2>3. Has(o, "barrier")' /\ Has(o, "paused")' /\ ~Has(o, "installed")'
    BY <2>1, <2>2 DEF Issued, Has
  <2>4. kop'[o].res = 0
    BY <1>2, <2>1 DEF Issued, KeepsReceipts
  <2>5. AtKernelGate(o)'
    BY <1>5, <2>1, <2>3, <2>4 DEF AtKernelGate
  <2> QED
    BY <1>1, <1>3, <1>4, <1>5, <2>1, <2>3, <2>5, KernelMoves
<1>8. CASE KInstall(o)
  <2>1. Issued(o, "installed") /\ kc' = Installed(o)
    BY <1>0, <1>8, ReceiptEffect DEF KInstall, Receipts
  <2>2. Has(o, "barrier") /\ Has(o, "paused")
    BY <1>0, <1>8 DEF KInstall, Journal, Has
  <2>3. Has(o, "barrier")' /\ Has(o, "paused")' /\ Has(o, "installed")'
    BY <2>1, <2>2 DEF Issued, Has
  <2>4. kop'[o].res = 0
    BY <1>2, <2>1 DEF Issued, KeepsReceipts
  <2>5. AtKernelGate(o)'
    BY <1>5, <2>1, <2>3, <2>4 DEF AtKernelGate
  <2> QED
    BY <1>1, <1>3, <1>4, <1>5, <2>1, <2>3, <2>5, KernelMoves
<1>9. ASSUME NEW l \in Leases, KResume(o, l)
      PROVE  GatesInv'
  <2>0. kop' = [kop EXCEPT ![o].res = l] /\ kc' = Reopened(o) /\ {"installed", "paused"} \subseteq kop[o].has
    BY <1>9 DEF KResume
  <2>1. kop'[o].has = kop[o].has /\ kop'[o].res # 0
    BY <1>0, <2>0, OpenEffect
  <2>2. Has(o, "barrier") /\ Has(o, "paused") /\ Has(o, "installed")
    BY <1>0, <2>0 DEF Journal, Has
  <2>3. Has(o, "barrier")' /\ Has(o, "paused")' /\ Has(o, "installed")'
    BY <2>1, <2>2 DEF Has
  <2>5. AtKernelGate(o)'
    BY <1>5, <2>0, <2>1, <2>3 DEF AtKernelGate
  <2> QED
    BY <1>1, <1>3, <1>4, <1>5, <2>0, <2>3, <2>5, KernelMoves
<1> QED
  BY <1>6, <1>7, <1>8, <1>9

LEMMA LocalGates ==
    ASSUME ControlInv, NEW o \in Ops, FinalizePause(o) \/ InstallProjection(o)
    PROVE  GatesInv'
<1> DEFINE what == IF FinalizePause(o) THEN "finalized" ELSE "installed"
<1>0. TypeOK /\ Journal(o) /\ Witnessed(o)
  BY DEF ControlInv
<1>1. what \in {"finalized", "installed"} /\ Record(o, what) /\ kop' = kop /\ kc' = kc /\ kfence' = kfence
  BY DEF FinalizePause, InstallProjection, kvars
<1>2. /\ FinalizePause(o) => what = "finalized" /\ oc' = Paused(o) /\ ~Did(o, "finalized")
      /\ ~FinalizePause(o) => what = "installed" /\ oc' = Installed(o) /\ ~Did(o, "installed")
  BY DEF FinalizePause, InstallProjection
<1>3. ~Did(o, "installed")
  BY <1>0, <1>2 DEF Journal
<1>4. Begun(o)
  BY <1>0, BegunHas DEF FinalizePause, InstallProjection, Did, Has, Witnessed
<1>5. Unfinished(o)
  BY <1>0, <1>3, <1>4 DEF Unfinished, Journal
<1> HIDE DEF what
<1>6. Recorded(o, what)
  BY <1>0, <1>1, RecordEffect DEF Records
<1>7. /\ \A q \in Ops : q # o => ~Unfinished(q)'
      /\ op[o].src \in Nat /\ op[o].gen \in Nat
      /\ GatesOf(o)
  BY <1>5, <1>6, TheUnfinished DEF Recorded
<1>8. Unfinished(o)'
  BY <1>1, <1>5, <1>6 DEF Recorded, KeepsOp, Unfinished, Begun, Did
<1>9. /\ Pausing(o)' = Pausing(o) /\ Paused(o)' = Paused(o) /\ Installed(o)' = Installed(o)
      /\ Reopened(o)' = Reopened(o) /\ Source(o)' = Source(o) /\ op'[o].gen = op[o].gen
  BY <1>6 DEF Recorded, KeepsOp, Pausing, Paused, Installed, Reopened, Source, Gate
<1>10. (CancelFenced' <=> CancelFenced) /\ (AtKernelGate(o)' <=> AtKernelGate(o)) /\ (Has(o, "installed")' <=> Has(o, "installed"))
  BY <1>1, <1>9 DEF CancelFenced, AtKernelGate, Has
<1>11. AtLocalGate(o)' /\ oc'.gen = op[o].gen + (IF Did(o, "installed")' THEN 1 ELSE 0) /\ oc'.epoch >= 1 /\ oc'.state # "active"
  <2>1. CASE FinalizePause(o)
    <3>1. Did(o, "finalized")' /\ ~Did(o, "installed")'
      BY <1>2, <1>3, <1>6, <2>1 DEF Recorded, Did
    <3>2. oc' = Paused(o)
      BY <1>2, <2>1
    <3> QED
      BY <1>7, <1>9, <3>1, <3>2 DEF AtLocalGate, Paused, Gate
  <2>2. CASE ~FinalizePause(o)
    <3>1. Did(o, "installed")'
      BY <1>2, <1>6, <2>2 DEF Recorded, Did
    <3>2. oc' = Installed(o)
      BY <1>2, <2>2
    <3> QED
      BY <1>7, <1>9, <3>1, <3>2 DEF AtLocalGate, Installed, Gate
  <2> QED
    BY <2>1, <2>2
<1>12. GatesOf(o)'
  BY <1>1, <1>7, <1>9, <1>10, <1>11 DEF GatesOf
<1> QED
  BY <1>7, <1>8, <1>11, <1>12, GatesOfOne

LEMMA ResumeGates ==
    ASSUME ControlInv, NEW o \in Ops, CommitResume(o)
    PROVE  GatesInv'
<1>0. TypeOK /\ Journal(o) /\ Witnessed(o) /\ lease \in Leases
  BY DEF ControlInv, TypeOK
<1>1. /\ Record(o, "resumed") /\ kop' = kop /\ kc' = kc /\ kfence' = kfence
      /\ kc = Reopened(o) /\ oc' = Reopened(o) /\ ~Did(o, "resumed") /\ <<"resume", o, lease>> \in seen
  BY DEF CommitResume, Held, kvars
<1>2. Did(o, "installed")
  BY <1>0, <1>1 DEF Journal, Witnessed
<1>3. Unfinished(o)
  BY <1>0, <1>1, <1>2, BegunHas DEF Unfinished, Did
<1>4. Recorded(o, "resumed")
  BY <1>0, <1>1, RecordEffect DEF Records
<1>5. /\ \A q \in Ops : q # o => ~Unfinished(q)'
      /\ op[o].src \in Nat /\ op[o].gen \in Nat
  BY <1>3, <1>4, TheUnfinished DEF Recorded
<1>6. ~Unfinished(o)'
  BY <1>4 DEF Recorded, Unfinished, Did
<1>7. oc'.epoch >= 1 /\ kc' = oc'
  BY <1>1, <1>5 DEF Reopened, Gate
<1> QED
  BY <1>5, <1>6, <1>7, GatesOfOne

LEMMA CancelGates ==
    ASSUME ControlInv, NEW c \in Cancels, Cancel(c)
    PROVE  GatesInv'
<1>0. /\ TypeOK /\ GatesInv /\ kc.epoch \in Nat /\ cf[c].epoch \in Nat /\ kfence[c] \in Nat \cup {-1}
      /\ oc.epoch \in Nat
  BY DEF ControlInv, TypeOK, Gates
<1>1. op' = op /\ kop' = kop
  BY DEF Cancel, CancelIntent, KFence, RefreshCancel, CommitCancel, kvars, ovars
<1>2. \A o \in Ops : Alike(o)
  BY <1>1 DEF Alike, Did, Has
<1>3. CASE CancelIntent(c) \/ RefreshCancel(c)
  <2>1. kc' = kc /\ oc' = oc /\ kfence' = kfence
    BY <1>3 DEF CancelIntent, RefreshCancel, kvars
  <2> QED
    BY <1>0, <1>2, <2>1, GatesSame
<1>4. ASSUME CancelFenced', kc'.gen = kc.gen, oc'.gen = oc.gen, oc'.epoch >= oc.epoch,
             oc'.state = "active" => oc' = oc, oc'.epoch \in Nat
      PROVE  GatesInv'
  <2>1. \A o \in Ops : (Begun(o)' <=> Begun(o)) /\ (Unfinished(o)' <=> Unfinished(o))
    BY <1>2, AlikeGates
  <2>2. \A o \in Ops : GatesOf(o) => GatesOf(o)'
    BY <1>2, <1>4 DEF GatesOf, Alike
  <2>3. \A o \in Ops : Begun(o) => oc'.epoch >= 1
    BY <1>0, <1>4 DEF GatesInv
  <2> QED
    BY <1>0, <1>4, <2>1, <2>2, <2>3 DEF GatesInv
<1>5. CASE KFence(c)
  <2>1. kfence'[c] # -1 /\ kc'.gen = kc.gen /\ oc' = oc
    BY <1>0, <1>5 DEF KFence, TypeOK, Gate, ovars
  <2> QED
    BY <1>0, <1>4, <2>1 DEF CancelFenced
<1>6. CASE CommitCancel(c)
  <2>1. kfence' = kfence /\ kc' = kc /\ kfence[c] # -1 /\ kfence[c] \in Nat
    BY <1>0, <1>6 DEF CommitCancel, kvars
  <2>2. /\ oc'.gen = oc.gen /\ oc'.epoch >= oc.epoch /\ (oc'.state = "active" => oc' = oc) /\ oc'.epoch \in Nat
    BY <1>0, <1>6, <2>1 DEF CommitCancel, Gate
  <2> QED
    BY <1>4, <2>1, <2>2 DEF CancelFenced
<1> QED
  BY <1>3, <1>5, <1>6 DEF Cancel

LEMMA PauseGates ==
    ASSUME ControlInv, NEW o \in Ops, Pause(o)
    PROVE  GatesInv'
<1>0. TypeOK /\ GatesInv
  BY DEF ControlInv
<1>1. CASE KCapture(o)
  <2>1. Issued(o, "captured") /\ op' = op /\ kc' = kc /\ oc' = oc /\ kfence' = kfence
    BY <1>0, <1>1, ReceiptEffect DEF KCapture, Receipts, ovars
  <2> QED
    BY <1>0, <2>1, IssuedAlike, GatesSame
<1>2. ASSUME NEW what \in {"barrier", "paused", "captured"}, RecordPause(o, what)
      PROVE  GatesInv'
  <2>1. Recorded(o, what) /\ kop' = kop /\ kc' = kc /\ oc' = oc /\ kfence' = kfence
    BY <1>0, <1>2, RecordEffect DEF RecordPause, Records, kvars
  <2>2. what \in Records \ {"finalized", "installed", "resumed"}
    BY DEF Records
  <2> QED
    BY <1>0, <2>1, <2>2, RecordedAlike, GatesSame
<1>3. CASE SeePaused(o)
  BY <1>0, <1>3, GatesSame DEF SeePaused, Alike, Did, Has, kvars, ovars
<1>4. CASE PreparePause(o)
  <2>1. Recorded(o, "prepared") /\ kop' = kop /\ kc' = kc /\ oc' = oc /\ kfence' = kfence
    BY <1>0, <1>4, RecordEffect DEF PreparePause, Records, kvars
  <2> QED
    BY <1>0, <2>1, RecordedAlike, GatesSame DEF Records
<1> QED
  BY <1>1, <1>2, <1>3, <1>4, BeginGates, KernelGates, LocalGates DEF Pause

LEMMA ReviseGates ==
    ASSUME ControlInv, NEW o \in Ops, Revise(o)
    PROVE  GatesInv'
<1>0. TypeOK /\ GatesInv
  BY DEF ControlInv
<1>1. ASSUME NEW what \in {"decided", "kernel installed", "budget"}, Record(o, what),
             kop' = kop, kc' = kc, oc' = oc, kfence' = kfence
      PROVE  GatesInv'
  <2>1. what \in Records \ {"finalized", "installed", "resumed"}
    BY DEF Records
  <2> QED
    BY <1>0, <1>1, <2>1, RecordEffect, RecordedAlike, GatesSame
<1>2. CASE CommitRevision(o)
  BY <1>1, <1>2 DEF CommitRevision, kvars
<1>3. CASE RecordInstall(o)
  BY <1>1, <1>3 DEF RecordInstall, kvars
<1>4. CASE RecordBudget(o)
  BY <1>1, <1>4 DEF RecordBudget, kvars
<1>5. CASE OrderInstall(o) \/ SeeInstalled(o) \/ OrderBudget(o)
  BY <1>0, <1>5, GatesSame DEF OrderInstall, SeeInstalled, OrderBudget, Alike, Did, Has, kvars, ovars
<1>6. CASE KInstallBudget(o)
  <2>1. Issued(o, "budget") /\ op' = op /\ kc' = kc /\ oc' = oc /\ kfence' = kfence
    BY <1>0, <1>6, ReceiptEffect DEF KInstallBudget, Receipts, ovars
  <2> QED
    BY <1>0, <2>1, IssuedAlike, GatesSame
<1> QED
  BY <1>2, <1>3, <1>4, <1>5, <1>6, KernelGates, LocalGates DEF Revise

LEMMA ReopenGates ==
    ASSUME ControlInv, NEW o \in Ops, Reopen(o)
    PROVE  GatesInv'
<1>0. TypeOK /\ GatesInv /\ lease \in Leases
  BY DEF ControlInv, TypeOK
<1>1. ASSUME op' = op \/ op' = [op EXCEPT ![o].act = lease] \/ op' = [op EXCEPT ![o].res = lease],
             kop' = kop, kc' = kc, oc' = oc, kfence' = kfence
      PROVE  GatesInv'
  <2>1. /\ \A q \in Ops : q # o => op'[q] = op[q]
        /\ op'[o].src = op[o].src /\ op'[o].gen = op[o].gen /\ op'[o].did = op[o].did
    BY <1>0, <1>1, OrderEffect
  <2>2. \A q \in Ops : Alike(q)
    BY <1>1, <2>1 DEF Alike, Did, Has
  <2> QED
    BY <1>0, <1>1, <2>2, GatesSame
<1>2. CASE OrderActivation(o)
  BY <1>1, <1>2 DEF OrderActivation, kvars
<1>3. ASSUME NEW l \in Leases, KActivate(o, l)
      PROVE  GatesInv'
  <2>0. kop' = [kop EXCEPT ![o].act = l] /\ op' = op /\ kc' = kc /\ oc' = oc /\ kfence' = kfence
    BY <1>3 DEF KActivate, ovars
  <2>1. /\ \A q \in Ops : q # o => kop'[q] = kop[q]
        /\ kop'[o].has = kop[o].has /\ kop'[o].res = kop[o].res
    BY <1>0, <2>0, OpenEffect
  <2>2. \A q \in Ops : Alike(q)
    BY <2>0, <2>1 DEF Alike, Did, Has
  <2> QED
    BY <1>0, <2>0, <2>2, GatesSame
<1>4. CASE RecordActivation(o)
  <2>1. Recorded(o, "activated") /\ kop' = kop /\ kc' = kc /\ oc' = oc /\ kfence' = kfence
    BY <1>0, <1>4, RecordEffect DEF RecordActivation, Records, kvars
  <2> QED
    BY <1>0, <2>1, RecordedAlike, GatesSame DEF Records
<1>5. CASE OrderResume(o)
  BY <1>1, <1>5 DEF OrderResume, kvars
<1>6. CASE CheckResume(o)
  BY <1>1, <1>6 DEF CheckResume, kvars, ovars
<1> QED
  BY <1>2, <1>3, <1>4, <1>5, <1>6, KernelGates, ResumeGates DEF Reopen

LEMMA StepGates ==
    ASSUME ControlInv, Next
    PROVE  GatesInv'
<1>1. GatesInv
  BY DEF ControlInv
<1>2. ASSUME op' = op, kop' = kop, kc' = kc, oc' = oc, kfence' = kfence
      PROVE  GatesInv'
  BY <1>1, <1>2, GatesSame DEF Alike, Did, Has
<1>3. ASSUME NEW p \in Phases \X Ops, TakeOver(p)
      PROVE  GatesInv'
  BY <1>2, <1>3 DEF TakeOver, ClaimTakeover, KTakeOver, AckTakeover, ResolveTakeover, kvars, ovars
<1>4. CASE NewLease
  BY <1>2, <1>4 DEF NewLease, kvars, ovars
<1> QED
  BY <1>3, <1>4, PauseGates, ReviseGates, ReopenGates, CancelGates DEF Next

-----------------------------------------------------------------------------
(* Cancellation: what the fences say of the gates.                         *)

\* The last fence is recorded in both stores.
Settled == \E c \in Cancels : cf[c].done /\ \A d \in Cancels : kfence[d] <= kfence[c]

LEMMA Unfenced ==
    ASSUME GatesInv', ~CancelFenced', \A c \in Cancels : ~cf'[c].done
    PROVE  CancelInv'
<1>1. (FencedForGood /\ CancelledAgree)'
  BY DEF FencedForGood, CancelledAgree
<1>2. LocalOpenIsBacked'
  BY DEF GatesInv, LocalOpenIsBacked
<1> QED
  BY <1>1, <1>2 DEF CancelInv, CancelFenced

\* A step of no cancellation
LEMMA FenceStays ==
    ASSUME ControlInv, GatesInv', cf' = cf, kfence' = kfence,
           CancelFenced => /\ kc' = kc /\ ka' = ka
                           /\ (oc' = oc \/ (oc'.state # "active" /\ ~Settled))
    PROVE  CancelInv'
<1>0. CancelInv
  BY DEF ControlInv
<1>1. CancelFenced' <=> CancelFenced
  BY DEF CancelFenced
<1>2. CASE ~CancelFenced
  <2>1. \A c \in Cancels : ~cf'[c].done
    BY <1>0, <1>2 DEF CancelInv, CancelFenced
  <2> QED
    BY <1>1, <1>2, <2>1, Unfenced
<1>3. CASE CancelFenced
  <2>1. FencedForGood'
    BY <1>0, <1>3 DEF CancelInv, FencedForGood
  <2>2. CancelledAgree'
    BY <1>0, <1>3 DEF CancelInv, CancelledAgree, Settled
  <2>3. LocalOpenIsBacked'
    BY <1>0, <1>3 DEF CancelInv, LocalOpenIsBacked, CancelRows
  <2> QED
    BY <1>0, <1>1, <1>3, <2>1, <2>2, <2>3 DEF CancelInv
<1> QED
  BY <1>2, <1>3

LEMMA SettledGates ==
    ASSUME ControlInv, Settled
    PROVE  oc = kc /\ oc.state = "paused" /\ oc.epoch >= 1
<1>1. TypeOK /\ CancelInv
  BY DEF ControlInv
<1>2. PICK c \in Cancels : cf[c].done /\ \A d \in Cancels : kfence[d] <= kfence[c]
  BY DEF Settled
<1>3. oc = kc /\ oc.state = "paused"
  BY <1>1, <1>2 DEF CancelInv, CancelledAgree
<1>4. kfence[c] = cf[c].epoch + 1 /\ kfence[c] <= kc.epoch /\ cf[c].epoch \in Nat /\ kc.epoch \in Nat
  BY <1>1, <1>2 DEF CancelInv, TypeOK, Gates
<1> QED
  BY <1>3, <1>4

LEMMA PauseCancel ==
    ASSUME ControlInv, GatesInv', NEW o \in Ops, Pause(o)
    PROVE  CancelInv'
<1>0. FencedForGood
  BY DEF ControlInv, CancelInv
<1>1. cf' = cf /\ kfence' = kfence
  BY DEF Pause, BeginAdopted, BeginPause, KPreparePause, KCompletePause, KCapture, RecordPause,
         SeePaused, PreparePause, FinalizePause, kvars, ovars
<1>2. CASE BeginAdopted(o) \/ BeginPause(o) \/ FinalizePause(o)
  <2>1. kc' = kc /\ ka' = ka /\ oc'.state # "active"
    BY <1>2 DEF BeginAdopted, BeginPause, FinalizePause, Paused, Gate, kvars
  <2>2. oc.state # "paused" \/ oc.epoch = 0
    BY <1>2 DEF BeginAdopted, BeginPause, FinalizePause, Pausing, Gate
  <2>3. ~Settled
    BY <2>2, SettledGates
  <2> QED
    BY <1>1, <2>1, <2>3, FenceStays
<1>3. CASE KPreparePause(o) \/ KCompletePause(o)
  <2>1. ~CancelFenced
    BY <1>0, <1>3 DEF KPreparePause, KCompletePause, Unresolved, FencedForGood, Pausing, Gate
  <2> QED
    BY <1>1, <2>1, FenceStays
<1>4. CASE ~(BeginAdopted(o) \/ BeginPause(o) \/ FinalizePause(o) \/ KPreparePause(o) \/ KCompletePause(o))
  <2>1. kc' = kc /\ ka' = ka /\ oc' = oc
    BY <1>4 DEF Pause, KCapture, RecordPause, SeePaused, PreparePause, kvars, ovars
  <2> QED
    BY <1>1, <2>1, FenceStays
<1> QED
  BY <1>2, <1>3, <1>4

LEMMA ReviseCancel ==
    ASSUME ControlInv, GatesInv', NEW o \in Ops, Revise(o)
    PROVE  CancelInv'
<1>0. TypeOK /\ FencedForGood /\ GatesInv /\ Journal(o) /\ Witnessed(o)
  BY DEF ControlInv, CancelInv
<1>1. cf' = cf /\ kfence' = kfence
  BY DEF Revise, CommitRevision, OrderInstall, KInstall, RecordInstall, SeeInstalled, InstallProjection,
         OrderBudget, KInstallBudget, RecordBudget, kvars, ovars
<1>2. CASE InstallProjection(o)
  <2>1. kc' = kc /\ ka' = ka /\ oc'.state # "active" /\ Saw("installed", o) /\ ~Did(o, "installed") /\ oc = Paused(o)
    BY <1>2 DEF InstallProjection, Installed, Gate, kvars
  <2>2. Has(o, "installed")
    BY <1>0, <2>1 DEF Witnessed
  <2>3. Begun(o)
    BY <1>0, <2>2, BegunHas DEF Has
  <2>4. Unfinished(o)
    BY <1>0, <2>1, <2>3 DEF Unfinished, Journal
  <2>5. kc.gen = op[o].gen + 1 /\ oc.gen = op[o].gen /\ op[o].gen \in Nat
    BY <1>0, <2>1, <2>2, <2>4 DEF GatesInv, GatesOf, TypeOK
  <2>6. ~Settled
    BY <2>5, SettledGates
  <2> QED
    BY <1>1, <2>1, <2>6, FenceStays
<1>3. CASE KInstall(o)
  <2>1. ~CancelFenced
    BY <1>0, <1>3 DEF KInstall, FencedForGood
  <2> QED
    BY <1>1, <2>1, FenceStays
<1>4. CASE ~InstallProjection(o) /\ ~KInstall(o)
  <2>1. kc' = kc /\ ka' = ka /\ oc' = oc
    BY <1>4 DEF Revise, CommitRevision, OrderInstall, RecordInstall, SeeInstalled,
                OrderBudget, KInstallBudget, RecordBudget, kvars, ovars
  <2> QED
    BY <1>1, <2>1, FenceStays
<1> QED
  BY <1>2, <1>3, <1>4

LEMMA ReopenCancel ==
    ASSUME ControlInv, GatesInv', NEW o \in Ops, Reopen(o)
    PROVE  CancelInv'
<1>0. FencedForGood
  BY DEF ControlInv, CancelInv
<1>1. cf' = cf /\ kfence' = kfence
  BY DEF Reopen, OrderActivation, KActivate, RecordActivation, OrderResume, CheckResume, KResume, CommitResume,
         kvars, ovars
<1>2. CASE CommitResume(o) \/ \E l \in Leases : KResume(o, l)
  <2>1. ~CancelFenced
    <3>1. CommitResume(o) => kc.state = "active"
      BY DEF CommitResume, Reopened, Gate
    <3>2. (\E l \in Leases : KResume(o, l)) => ~CancelFenced
      BY DEF KResume
    <3> QED
      BY <1>0, <1>2, <3>1, <3>2 DEF FencedForGood
  <2> QED
    BY <1>1, <2>1, FenceStays
<1>3. CASE ~CommitResume(o) /\ ~\E l \in Leases : KResume(o, l)
  <2>1. kc' = kc /\ ka' = ka /\ oc' = oc
    BY <1>3 DEF Reopen, OrderActivation, KActivate, RecordActivation, OrderResume, CheckResume, kvars, ovars
  <2> QED
    BY <1>1, <2>1, FenceStays
<1> QED
  BY <1>2, <1>3

\* The intent, before the Kernel has fenced
LEMMA IntentCancel ==
    ASSUME ControlInv, GatesInv', NEW c \in Cancels, kfence[c] = -1,
           kc' = kc, ka' = ka, kfence' = kfence, oc' = oc,
           \A d \in Cancels : d # c => cf'[d] = cf[d],
           ~cf'[c].done
    PROVE  CancelInv'
<1>0. CancelInv /\ kc.epoch \in Nat /\ \A d \in Cancels : cf[d].epoch \in Nat /\ kfence[d] \in Nat \cup {-1}
  BY DEF ControlInv, TypeOK, Gates
<1>1. CancelFenced' <=> CancelFenced
  BY DEF CancelFenced
<1>2. \A d \in Cancels : cf'[d].done => cf[d].done /\ d # c
  OBVIOUS
<1>3. CASE ~CancelFenced
  <2>1. \A d \in Cancels : ~cf'[d].done
    BY <1>0, <1>2, <1>3 DEF CancelInv, CancelFenced
  <2> QED
    BY <1>1, <1>3, <2>1, Unfenced
<1>4. CASE CancelFenced
  <2>1. FencedForGood' /\ CancelledAgree'
    BY <1>0, <1>1, <1>2 DEF CancelInv, FencedForGood, CancelledAgree
  <2>2. LocalOpenIsBacked'
    <3>1. SUFFICES ASSUME oc.state = "active", kc # oc
                   PROVE  LocalOpenIsBacked'
      BY DEF LocalOpenIsBacked
    <3>2. PICK d \in CancelRows(oc.gen) : kfence[d] = cf[d].epoch + 1 /\ ~cf[d].done /\ oc.epoch < kfence[d]
      BY <1>0, <3>1 DEF CancelInv, LocalOpenIsBacked
    <3>3. d \in Cancels /\ cf[d].gen = oc.gen /\ d # c
      BY <1>0, <3>2 DEF CancelRows
    <3>4. cf'[d] = cf[d]
      BY <3>3
    <3> QED
      BY <3>2, <3>3, <3>4 DEF LocalOpenIsBacked, CancelRows
  <2>3. \A d \in Cancels : /\ kfence[d] # -1 => kfence[d] <= kc.epoch /\ kfence[d] = cf'[d].epoch + 1 /\ cf'[d].gen = kc.gen
                           /\ cf'[d].done => kfence[d] # -1
    BY <1>0, <1>2 DEF CancelInv
  <2>4. \E d \in Cancels : kfence[d] = kc.epoch
    BY <1>0, <1>4 DEF CancelInv
  <2> QED
    BY <2>1, <2>2, <2>3, <2>4 DEF CancelInv
<1> QED
  BY <1>3, <1>4

LEMMA FenceCancel ==
    ASSUME ControlInv, NEW c \in Cancels, KFence(c)
    PROVE  CancelInv'
<1>0. /\ CancelInv /\ kc \in Gates /\ kc.epoch \in Nat /\ kc.gen \in Nat
      /\ oc.epoch \in Nat
      /\ \A d \in Cancels : cf[d].epoch \in Nat /\ kfence[d] \in Nat \cup {-1}
  BY DEF ControlInv, TypeOK, Gates
<1>1. /\ kfence[c] = -1 /\ cf[c].gen = kc.gen /\ cf[c].epoch = kc.epoch /\ cf' = cf /\ oc' = oc
      /\ kc'.state = "paused" /\ kc'.epoch = kc.epoch + 1 /\ kc'.gen = kc.gen
  BY DEF KFence, Gate, ovars
<1>2. kfence'[c] = kc.epoch + 1 /\ \A d \in Cancels : d # c => kfence'[d] = kfence[d]
  BY DEF KFence, ControlInv, TypeOK
<1>3. ~ka'.ok
  BY DEF KFence, ControlInv, TypeOK
<1>4. ~cf[c].done
  BY <1>0, <1>1 DEF CancelInv
<1>5. FencedForGood'
  BY <1>1, <1>3 DEF FencedForGood
<1>6. \A d \in Cancels : /\ kfence'[d] # -1 => kfence'[d] <= kc'.epoch /\ kfence'[d] = cf[d].epoch + 1 /\ cf[d].gen = kc.gen
                         /\ cf[d].done => kfence'[d] # -1
  BY <1>0, <1>1, <1>2, <1>4 DEF CancelInv
<1>7. \E d \in Cancels : kfence'[d] = kc'.epoch
  BY <1>1, <1>2
<1>8. CancelledAgree'
  <2>1. ASSUME NEW d \in Cancels, cf[d].done, \A b \in Cancels : kfence'[b] <= kfence'[d]
        PROVE  FALSE
    <3>1. d # c /\ kfence'[d] = kfence[d] /\ kfence[d] \in Nat /\ kfence[d] <= kc.epoch
      BY <1>0, <1>2, <1>4, <2>1 DEF CancelInv
    <3>2. kc.epoch + 1 <= kfence[d]
      BY <1>2, <2>1, <3>1
    <3> QED
      BY <1>0, <3>1, <3>2
  <2> QED
    BY <1>1, <2>1 DEF CancelledAgree
<1>9. LocalOpenIsBacked'
  <2>1. SUFFICES ASSUME oc.state = "active"
                 PROVE  \E d \in CancelRows(oc.gen) : kfence'[d] = cf[d].epoch + 1 /\ ~cf[d].done /\ oc.epoch < kfence'[d]
    BY <1>1 DEF LocalOpenIsBacked, CancelRows
  <2>2. CASE kc = oc
    BY <1>0, <1>1, <1>2, <1>4, <2>2 DEF CancelRows
  <2>3. CASE kc # oc
    <3>1. PICK d \in CancelRows(oc.gen) : kfence[d] = cf[d].epoch + 1 /\ ~cf[d].done /\ oc.epoch < kfence[d]
      BY <1>0, <2>1, <2>3 DEF CancelInv, LocalOpenIsBacked
    <3>2. d \in Cancels /\ d # c
      BY <1>0, <1>1, <3>1 DEF CancelRows
    <3> QED
      BY <1>2, <3>1, <3>2
  <2> QED
    BY <2>2, <2>3
<1> QED
  BY <1>1, <1>5, <1>6, <1>7, <1>8, <1>9 DEF CancelInv

LEMMA CommitCancels ==
    ASSUME ControlInv, NEW c \in Cancels, CommitCancel(c)
    PROVE  CancelInv'
<1>0. /\ CancelInv /\ kc \in Gates /\ kc.epoch \in Nat /\ kc.gen \in Nat /\ oc \in Gates
      /\ oc.epoch \in Nat
      /\ \A d \in Cancels : cf[d].epoch \in Nat /\ kfence[d] \in Nat \cup {-1}
  BY DEF ControlInv, TypeOK, Gates
<1>1. /\ kfence[c] = cf[c].epoch + 1 /\ oc.gen = cf[c].gen /\ oc.epoch <= kfence[c]
      /\ kc' = kc /\ ka' = ka /\ kfence' = kfence
      /\ \/ oc.epoch < kfence[c] /\ oc' = Gate("paused", kfence[c], oc.gen)
         \/ oc.epoch = kfence[c] /\ oc.state = "paused" /\ oc' = oc
  BY DEF CommitCancel, kvars
<1>2. \A d \in Cancels : cf'[d].gen = cf[d].gen /\ cf'[d].epoch = cf[d].epoch /\ (d # c => cf'[d].done = cf[d].done)
  BY DEF CommitCancel, ControlInv, TypeOK
<1>3. kfence[c] # -1 /\ CancelFenced /\ CancelFenced'
  BY <1>0, <1>1 DEF CancelFenced
<1>4. kc.state = "paused" /\ FencedForGood'
  BY <1>0, <1>1, <1>3 DEF CancelInv, FencedForGood
<1>5. kc.gen = cf[c].gen /\ kfence[c] <= kc.epoch
  BY <1>0, <1>3 DEF CancelInv
<1>6. PICK b \in Cancels : kfence[b] = kc.epoch
  BY <1>0, <1>3 DEF CancelInv
<1>7. \A d \in Cancels : /\ kfence[d] # -1 => kfence[d] <= kc.epoch /\ kfence[d] = cf'[d].epoch + 1 /\ cf'[d].gen = kc.gen
                         /\ cf'[d].done => kfence[d] # -1
  BY <1>0, <1>2, <1>3 DEF CancelInv
<1>8. CancelledAgree'
  <2>1. ASSUME NEW d \in Cancels, cf'[d].done, \A a \in Cancels : kfence[a] <= kfence[d]
        PROVE  oc' = kc /\ oc'.state = "paused"
    <3>1. kfence[d] = kc.epoch
      BY <1>0, <1>6, <1>7, <2>1
    <3>2. CASE d = c
      <4>1. kc = Gate("paused", kfence[c], oc.gen)
        BY <1>0, <1>1, <1>4, <1>5, <3>1, <3>2 DEF Gates, Gate
      <4>2. oc.epoch = kfence[c] /\ oc.state = "paused" => oc = kc
        BY <1>0, <1>1, <4>1 DEF Gates, Gate
      <4> QED
        BY <1>1, <1>4, <4>1, <4>2
    <3>3. CASE d # c
      <4>1. oc = kc /\ oc.state = "paused"
        BY <1>0, <1>2, <2>1, <3>3 DEF CancelInv, CancelledAgree
      <4>2. oc.epoch = kfence[c]
        BY <1>0, <1>1, <1>5, <4>1
      <4> QED
        BY <1>0, <1>1, <4>1, <4>2
    <3> QED
      BY <3>2, <3>3
  <2> QED
    BY <1>1, <2>1 DEF CancelledAgree
<1>9. LocalOpenIsBacked'
  <2>1. oc'.state = "paused"
    BY <1>1 DEF Gate
  <2> QED
    BY <2>1 DEF LocalOpenIsBacked
<1> QED
  BY <1>1, <1>4, <1>6, <1>7, <1>8, <1>9 DEF CancelInv

LEMMA StepCancel ==
    ASSUME ControlInv, GatesInv', Next
    PROVE  CancelInv'
<1>0. TypeOK /\ CancelInv
  BY DEF ControlInv
<1>1. ASSUME NEW c \in Cancels, Cancel(c)
      PROVE  CancelInv'
  <2>1. CASE CancelIntent(c)
    <3>0. kc' = kc /\ ka' = ka /\ kfence' = kfence /\ oc' = oc
      BY <2>1 DEF CancelIntent, kvars
    <3>1. CASE cf' = cf
      BY <3>0, <3>1, FenceStays
    <3>2. CASE cf' # cf
      <4>1. cf[c] = NoRow /\ cf' = [cf EXCEPT ![c] = [gen |-> oc.gen, epoch |-> kc.epoch, done |-> FALSE]]
        BY <2>1, <3>2 DEF CancelIntent
      <4>2. kfence[c] = -1
        BY <1>0, <4>1 DEF CancelInv, NoRow, TypeOK, Gates
      <4>3. ~cf'[c].done /\ \A d \in Cancels : d # c => cf'[d] = cf[d]
        BY <1>0, <4>1 DEF TypeOK
      <4> QED
        BY <3>0, <4>2, <4>3, IntentCancel
    <3> QED
      BY <3>1, <3>2
  <2>2. CASE KFence(c)
    BY <2>2, FenceCancel
  <2>3. CASE RefreshCancel(c)
    <3>0. kc' = kc /\ ka' = ka /\ kfence' = kfence /\ oc' = oc /\ kfence[c] = -1
      BY <2>3 DEF RefreshCancel, kvars
    <3>1. cf'[c].done = cf[c].done /\ \A d \in Cancels : d # c => cf'[d] = cf[d]
      BY <1>0, <2>3 DEF RefreshCancel, TypeOK
    <3>2. ~cf[c].done
      BY <1>0, <3>0 DEF CancelInv
    <3> QED
      BY <3>0, <3>1, <3>2, IntentCancel
  <2>4. CASE CommitCancel(c)
    BY <2>4, CommitCancels
  <2> QED
    BY <1>1, <2>1, <2>2, <2>3, <2>4 DEF Cancel
<1>2. ASSUME NEW p \in Phases \X Ops, TakeOver(p)
      PROVE  CancelInv'
  <2>1. cf' = cf /\ kfence' = kfence /\ kc' = kc /\ ka' = ka /\ oc' = oc
    BY <1>2 DEF TakeOver, ClaimTakeover, KTakeOver, AckTakeover, ResolveTakeover, kvars, ovars
  <2> QED
    BY <2>1, FenceStays
<1>3. CASE NewLease
  <2>1. cf' = cf /\ kfence' = kfence /\ kc' = kc /\ ka' = ka /\ oc' = oc
    BY <1>3 DEF NewLease, kvars, ovars
  <2> QED
    BY <2>1, FenceStays
<1> QED
  BY <1>1, <1>2, <1>3, PauseCancel, ReviseCancel, ReopenCancel DEF Next

-----------------------------------------------------------------------------
(* Leases: both stores know who an activation or resume was handed to.     *)

LEMMA LeaseSame ==
    ASSUME NEW p, LeaseOf(p), claim'[p] = claim[p], otaken'[p] = otaken[p], ktaken'[p] = ktaken[p],
           Original(p) # 0 => Original(p)' = Original(p)
    PROVE  LeaseOf(p)'
<1>1. CASE Original(p) = 0
  <2>1. claim[p] = NoClaim /\ ktaken[p] = {} /\ otaken[p] = {}
    BY <1>1 DEF LeaseOf
  <2> QED
    BY <2>1 DEF LeaseOf, HasMax
<1>2. CASE Original(p) # 0
  BY <1>2 DEF LeaseOf, HasMax
<1> QED
  BY <1>1, <1>2

\* An order, once given, keeps the lease it was given under.
LEMMA OriginalKept ==
    ASSUME ControlInv, NEW o \in Ops, Pause(o) \/ Revise(o) \/ Reopen(o), NEW q \in Ops
    PROVE  (op[q].act # 0 => op'[q].act = op[q].act) /\ (op[q].res # 0 => op'[q].res = op[q].res)
<1>0. TypeOK /\ lease \in Leases
  BY DEF ControlInv, TypeOK
<1>1. CASE op' = op
  BY <1>1
<1>2. ASSUME NEW what \in Records, Record(o, what)
      PROVE  op'[q].act = op[q].act /\ op'[q].res = op[q].res
  BY <1>0, <1>2, RecordEffect DEF Recorded, KeepsOp
<1>3. CASE BeginAdopted(o) \/ BeginPause(o)
  <2>1. op[o].act = 0 /\ op[o].res = 0
    BY <1>3 DEF BeginAdopted, BeginPause, NoOp
  <2>2. q # o => op'[q] = op[q]
    BY <1>0, <1>3 DEF BeginAdopted, BeginPause, TypeOK
  <2> QED
    BY <2>1, <2>2
<1>4. CASE \E what \in {"barrier", "paused", "captured"} : RecordPause(o, what)
  BY <1>2, <1>4 DEF RecordPause, Records
<1>5. CASE PreparePause(o)
  BY <1>2, <1>5 DEF PreparePause, Records
<1>6. CASE FinalizePause(o)
  BY <1>2, <1>6 DEF FinalizePause, Records
<1>7. CASE CommitRevision(o)
  BY <1>2, <1>7 DEF CommitRevision, Records
<1>8. CASE RecordInstall(o)
  BY <1>2, <1>8 DEF RecordInstall, Records
<1>9. CASE InstallProjection(o)
  BY <1>2, <1>9 DEF InstallProjection, Records
<1>10. CASE RecordBudget(o)
  BY <1>2, <1>10 DEF RecordBudget, Records
<1>11. CASE RecordActivation(o)
  BY <1>2, <1>11 DEF RecordActivation, Records
<1>12. CASE CommitResume(o)
  BY <1>2, <1>12 DEF CommitResume, Records
<1>13. CASE OrderActivation(o) /\ op' # op
  <2>1. op[o].act = 0 /\ op' = [op EXCEPT ![o].act = lease]
    BY <1>13 DEF OrderActivation
  <2>2. op'[o].res = op[o].res /\ (q # o => op'[q] = op[q])
    BY <1>0, <2>1, OrderEffect
  <2> QED
    BY <2>1, <2>2
<1>14. CASE OrderResume(o) /\ op' # op
  <2>1. op[o].res = 0 /\ op' = [op EXCEPT ![o].res = lease]
    BY <1>14 DEF OrderResume
  <2>2. op'[o].act = op[o].act /\ (q # o => op'[q] = op[q])
    BY <1>0, <2>1, OrderEffect
  <2> QED
    BY <2>1, <2>2
<1>15. CASE Pause(o) /\ op' # op
  <2>1. BeginAdopted(o) \/ BeginPause(o) \/ (\E what \in {"barrier", "paused", "captured"} : RecordPause(o, what))
        \/ PreparePause(o) \/ FinalizePause(o)
    BY <1>15 DEF Pause, KPreparePause, KCompletePause, KCapture, SeePaused, ovars
  <2> QED
    BY <2>1, <1>3, <1>4, <1>5, <1>6
<1>16. CASE Revise(o) /\ op' # op
  <2>1. CommitRevision(o) \/ RecordInstall(o) \/ InstallProjection(o) \/ RecordBudget(o)
    BY <1>16 DEF Revise, OrderInstall, KInstall, SeeInstalled, OrderBudget, KInstallBudget, ovars
  <2> QED
    BY <2>1, <1>7, <1>8, <1>9, <1>10
<1>17. CASE Reopen(o) /\ op' # op
  <2>1. OrderActivation(o) \/ RecordActivation(o) \/ OrderResume(o) \/ CommitResume(o)
    BY <1>17 DEF Reopen, KActivate, CheckResume, KResume, ovars
  <2> QED
    BY <1>17, <2>1, <1>11, <1>12, <1>13, <1>14
<1> QED
  BY <1>1, <1>15, <1>16, <1>17

LEMMA OperationLeases ==
    ASSUME ControlInv, NEW o \in Ops, Pause(o) \/ Revise(o) \/ Reopen(o), NEW p \in Phases \X Ops
    PROVE  LeaseOf(p)'
<1>1. LeaseOf(p)
  BY DEF ControlInv, LeaseInv
<1>2. claim' = claim /\ otaken' = otaken /\ ktaken' = ktaken
  <2>1. CASE Pause(o)
    BY <2>1 DEF Pause, BeginAdopted, BeginPause, KPreparePause, KCompletePause, KCapture, RecordPause,
                SeePaused, PreparePause, FinalizePause, kvars, ovars
  <2>2. CASE Revise(o)
    BY <2>2 DEF Revise, CommitRevision, OrderInstall, KInstall, RecordInstall, SeeInstalled, InstallProjection,
                OrderBudget, KInstallBudget, RecordBudget, kvars, ovars
  <2>3. CASE Reopen(o)
    BY <2>3 DEF Reopen, OrderActivation, KActivate, RecordActivation, OrderResume, CheckResume, KResume, CommitResume,
                kvars, ovars
  <2> QED
    BY <2>1, <2>2, <2>3
<1>3. p[2] \in Ops
  OBVIOUS
<1>4. Original(p) # 0 => Original(p)' = Original(p)
  BY <1>3, OriginalKept DEF Original
<1> QED
  BY <1>1, <1>2, <1>4, LeaseSame

LEMMA TakeOverLeases ==
    ASSUME ControlInv, ControlAssumption, NEW p \in Phases \X Ops, TakeOver(p), NEW q \in Phases \X Ops
    PROVE  LeaseOf(q)'
<1>0. /\ LeaseOf(p) /\ LeaseOf(q) /\ TypeOK /\ LeaseInv /\ MaxLease \in Nat
      /\ lease \in Leases /\ ktaken[p] \subseteq Leases /\ otaken[p] \subseteq Leases
      /\ 0 \notin Leases
  BY DEF ControlInv, LeaseInv, TypeOK, Leases, ControlAssumption
<1>1. op' = op /\ Original(p)' = Original(p) /\ Original(q)' = Original(q)
  BY DEF TakeOver, ClaimTakeover, KTakeOver, AckTakeover, ResolveTakeover, Original, ovars
<1>2. q # p => claim'[q] = claim[q] /\ otaken'[q] = otaken[q] /\ ktaken'[q] = ktaken[q]
  BY <1>0 DEF TakeOver, ClaimTakeover, KTakeOver, AckTakeover, ResolveTakeover, TypeOK, ovars, kvars
<1>3. CASE q # p
  BY <1>0, <1>1, <1>2, <1>3, LeaseSame
<1>4. claim[p].new \in 0 .. MaxLease /\ claim[p].prev \in 0 .. MaxLease /\ Original(p) \in 0 .. MaxLease
  <2>1. p[2] \in Ops
    OBVIOUS
  <2> QED
    BY <1>0, <2>1 DEF TypeOK, Original
<1>5. NoClaim.new = 0
  BY DEF NoClaim
<1>6. CASE ClaimTakeover(p)
  <2>1. /\ claim[p] = NoClaim /\ lease > Holder(p) /\ Original(p) # 0 /\ otaken' = otaken /\ ktaken' = ktaken
        /\ claim' = [claim EXCEPT ![p] = [new |-> lease, prev |-> Holder(p), had |-> KReceiptLease(p) # 0]]
    BY <1>6 DEF ClaimTakeover, MayTakeOver, kvars
  <2>2. claim'[p].new = lease /\ claim'[p].prev = Holder(p)
    BY <1>0, <2>1 DEF TypeOK
  <2>3. \A l \in otaken[p] : l <= Holder(p)
    BY <1>0, MaxIs DEF LeaseOf, Holder
  <2>4. ktaken[p] \subseteq otaken[p]
    BY <1>0, <1>5, <2>1 DEF LeaseOf
  <2> QED
    BY <1>0, <1>1, <1>3, <2>1, <2>2, <2>3, <2>4 DEF LeaseOf, HasMax
<1>7. CASE KTakeOver(p)
  <2>1. /\ claim[p].new = lease /\ otaken' = otaken /\ claim' = claim
        /\ KHolder(p, Original(p)) = claim[p].prev
        /\ \A l \in Leases : l \in ktaken[p] => l <= claim[p].prev
        /\ ktaken' = [ktaken EXCEPT ![p] = @ \cup {lease}]
    BY <1>7 DEF KTakeOver, ovars
  <2>2. ktaken'[p] = ktaken[p] \cup {lease}
    BY <1>0, <2>1 DEF TypeOK
  <2>3. claim[p] # NoClaim /\ lease > claim[p].prev /\ Original(p) # 0
    BY <1>0, <1>5, <2>1 DEF LeaseOf
  <2>4. lease >= Original(p) /\ lease \in Nat
    <3>1. CASE ktaken[p] = {}
      BY <1>0, <1>4, <2>1, <2>3, <3>1 DEF KHolder, Leases
    <3>2. CASE ktaken[p] # {}
      <4>1. PICK l \in ktaken[p] : TRUE
        BY <3>2
      <4>2. l <= claim[p].prev /\ l >= Original(p) /\ l \in Nat
        BY <1>0, <2>1, <4>1 DEF LeaseOf, Leases
      <4> QED
        BY <1>0, <1>4, <2>3, <4>2 DEF Leases
    <3> QED
      BY <3>1, <3>2
  <2>5. \A l \in ktaken'[p] : l <= lease /\ l >= Original(p)
    <3>1. ASSUME NEW l \in ktaken[p]
          PROVE  l <= lease /\ l >= Original(p)
      BY <1>0, <1>4, <2>1, <2>3 DEF LeaseOf, Leases
    <3> QED
      BY <2>2, <2>4, <3>1
  <2>6. HasMax(ktaken'[p])
    BY <2>2, <2>5 DEF HasMax
  <2>7. LeaseOf(p)'
    BY <1>0, <1>1, <2>1, <2>2, <2>3, <2>5, <2>6 DEF LeaseOf, HasMax
  <2> QED
    BY <1>3, <2>7
<1>8. CASE AckTakeover(p)
  <2>1. /\ claim[p] # NoClaim /\ claim[p].new \in ktaken[p] /\ Original(p) # 0 /\ ktaken' = ktaken
        /\ otaken' = [otaken EXCEPT ![p] = @ \cup {claim[p].new}] /\ claim' = [claim EXCEPT ![p] = NoClaim]
    BY <1>8 DEF AckTakeover, MayTakeOver, kvars
  <2>2. otaken'[p] = otaken[p] \cup {claim[p].new} /\ claim'[p] = NoClaim
    BY <1>0, <2>1 DEF TypeOK
  <2>3. \A l \in otaken[p] : l <= claim[p].new
    BY <1>0, <1>4, <2>1 DEF LeaseOf, Leases
  <2>4. HasMax(otaken'[p])
    BY <1>4, <2>2, <2>3 DEF HasMax
  <2>5. LeaseOf(p)'
    BY <1>0, <1>1, <2>1, <2>2, <2>4 DEF LeaseOf, HasMax
  <2> QED
    BY <1>3, <2>5
<1>9. CASE ResolveTakeover(p)
  <2>1. /\ claim[p] # NoClaim /\ claim[p].new \notin ktaken[p] /\ ktaken' = ktaken /\ otaken' = otaken
        /\ claim' = [claim EXCEPT ![p] = NoClaim]
    BY <1>9 DEF ResolveTakeover, kvars
  <2>2. claim'[p] = NoClaim /\ ktaken[p] \subseteq otaken[p]
    BY <1>0, <2>1 DEF TypeOK, LeaseOf
  <2>5. LeaseOf(p)'
    BY <1>0, <1>1, <2>1, <2>2 DEF LeaseOf, HasMax
  <2> QED
    BY <1>3, <2>5
<1> QED
  BY <1>6, <1>7, <1>8, <1>9 DEF TakeOver

LEMMA StepLeases ==
    ASSUME ControlInv, ControlAssumption, Next
    PROVE  LeaseInv'
<1> SUFFICES ASSUME NEW p \in Phases \X Ops
             PROVE  LeaseOf(p)'
  BY DEF LeaseInv
<1>0. LeaseOf(p)
  BY DEF ControlInv, LeaseInv
<1>1. CASE NewLease \/ \E c \in Cancels : Cancel(c)
  <2>1. claim' = claim /\ otaken' = otaken /\ ktaken' = ktaken /\ op' = op
    BY <1>1 DEF NewLease, Cancel, CancelIntent, KFence, RefreshCancel, CommitCancel, kvars, ovars
  <2> QED
    BY <1>0, <2>1, LeaseSame DEF Original
<1> QED
  BY <1>1, OperationLeases, TakeOverLeases DEF Next

-----------------------------------------------------------------------------
(* The gates never part.                                                   *)

\* In its first state a Run has no operation under way.
LEMMA InitControl ==
    ASSUME ControlAssumption, Init
    PROVE  ControlInv
<1>0. FirstGate \in Gates /\ FirstGate.epoch \in Nat /\ FirstGate.gen = 0 /\ (FirstGate.state = "active" => FirstGate.epoch = 1)
  BY DEF ControlAssumption, FirstGate, Gate, Gates
<1>1. \A o \in Ops : op[o] = NoOp /\ kop[o] = NoReceipt
  BY DEF Init
<1>2. NoOp.src = -1 /\ NoOp.did = {} /\ NoOp.act = 0 /\ NoOp.res = 0 /\ NoReceipt.has = {} /\ NoReceipt.res = 0
  BY DEF NoOp, NoReceipt
<1>3. TypeOK
  <2>1. MaxLease \in Nat /\ MaxLease >= 1
    BY DEF ControlAssumption
  <2>2. NoOp \in [src : Nat \cup {-1}, gen : Nat, did : SUBSET Records, act : 0 .. MaxLease, res : 0 .. MaxLease]
    BY <2>1 DEF NoOp
  <2>3. NoReceipt \in [has : SUBSET Receipts, act : 0 .. MaxLease, res : 0 .. MaxLease]
    BY <2>1 DEF NoReceipt
  <2>4. NoClaim \in [new : 0 .. MaxLease, prev : 0 .. MaxLease, had : BOOLEAN]
    BY <2>1 DEF NoClaim
  <2>5. NoRow \in [gen : Nat \cup {-1}, epoch : Nat, done : BOOLEAN]
    BY DEF NoRow
  <2>6. lease \in Leases
    BY <2>1 DEF Init, Leases
  <2> QED
    BY <1>0, <2>2, <2>3, <2>4, <2>5, <2>6 DEF Init, TypeOK
<1>4. \A o \in Ops : Journal(o) /\ Witnessed(o)
  BY <1>1, <1>2 DEF Init, Journal, Witnessed, Begun, Did, Has, Saw
<1>5. \A o \in Ops : ~Begun(o)
  BY <1>1, <1>2 DEF Begun
<1>6. GatesInv
  BY <1>0, <1>5 DEF Init, GatesInv, Unfinished
<1>7. CancelInv
  <2>1. ~CancelFenced /\ \A c \in Cancels : ~cf[c].done /\ kfence[c] = -1
    BY DEF Init, CancelFenced, NoRow
  <2> QED
    BY <2>1 DEF Init, CancelInv, FencedForGood, CancelledAgree, LocalOpenIsBacked
<1>8. LeaseInv
  BY DEF Init, LeaseInv, LeaseOf, HasMax
<1> QED
  BY <1>3, <1>4, <1>6, <1>7, <1>8 DEF ControlInv

LEMMA StepControl ==
    ASSUME ControlAssumption, ControlInv, [Next]_vars
    PROVE  ControlInv'
<1>1. CASE Next
  BY <1>1, StepTyped, StepJournal, StepGates, StepCancel, StepLeases DEF ControlInv
<1>2. CASE UNCHANGED vars
  <2>1. TypeOK'
    BY <1>2 DEF ControlInv, TypeOK, vars, kvars, ovars
  <2>2. \A o \in Ops : Journal(o)' /\ Witnessed(o)'
    BY <1>2, SameJournal DEF ControlInv, Unread, vars, kvars, ovars
  <2>3. GatesInv'
    BY <1>2, GatesSame DEF ControlInv, Alike, Did, Has, vars, kvars, ovars
  <2>4. CancelInv'
    BY <1>2, <2>3, FenceStays DEF vars, kvars, ovars
  <2>5. LeaseInv'
    BY <1>2, LeaseSame DEF ControlInv, LeaseInv, Original, vars, kvars, ovars
  <2> QED
    BY <2>1, <2>2, <2>3, <2>4, <2>5 DEF ControlInv
<1> QED
  BY <1>1, <1>2

THEOREM ControlInvariant ==
    ASSUME ControlAssumption
    PROVE  Spec => []ControlInv
<1>1. Init => ControlInv
  BY InitControl
<1>2. ControlInv /\ [Next]_vars => ControlInv'
  BY StepControl
<1> QED
  BY <1>1, <1>2, PTL DEF Spec

\* The Kernel's gate opens only where the Orchestrator knows it may be.
LEMMA OpenDecided ==
    ASSUME ControlInv
    PROVE  KernelOpenIsDecided
<1>0. TypeOK /\ GatesInv /\ FencedForGood
  BY DEF ControlInv, CancelInv
<1>1. SUFFICES ASSUME kc.state = "active"
               PROVE  /\ kc.gen = oc.gen
                      /\ \/ oc = kc
                         \/ oc.state = "pausing" /\ oc.epoch = kc.epoch + 1
                         \/ \E o \in Ops : oc = Installed(o) /\ kc = Reopened(o) /\ op[o].res # 0
  BY DEF KernelOpenIsDecided
<1>2. ~CancelFenced
  BY <1>0, <1>1 DEF FencedForGood
<1>3. CASE \A o \in Ops : ~Unfinished(o)
  BY <1>0, <1>2, <1>3 DEF GatesInv
<1>4. ASSUME NEW o \in Ops, Unfinished(o)
      PROVE  /\ kc.gen = oc.gen
             /\ \/ oc = kc
                \/ oc.state = "pausing" /\ oc.epoch = kc.epoch + 1
                \/ \E q \in Ops : oc = Installed(q) /\ kc = Reopened(q) /\ op[q].res # 0
  <2>0. Journal(o) /\ GatesOf(o) /\ AtLocalGate(o) /\ AtKernelGate(o) /\ op[o].src \in Nat /\ op[o].gen \in Nat
    BY <1>0, <1>2, <1>4 DEF ControlInv, GatesInv, GatesOf, TypeOK, Unfinished, Begun
  <2>1. CASE kop[o].res # 0
    <3>1. op[o].res # 0 /\ Did(o, "installed")
      BY <2>0, <2>1 DEF Journal
    <3>2. oc = Installed(o) /\ kc = Reopened(o)
      BY <2>0, <2>1, <3>1 DEF AtLocalGate, AtKernelGate
    <3>3. kc.gen = oc.gen
      BY <3>2 DEF Installed, Reopened, Gate
    <3> QED
      BY <3>1, <3>2, <3>3
  <2>2. CASE kop[o].res = 0
    <3>1. ~Has(o, "installed") /\ ~Has(o, "paused") /\ ~Has(o, "barrier")
      BY <1>1, <2>0, <2>2 DEF AtKernelGate, Installed, Paused, Pausing, Gate
    <3>2. ~Did(o, "installed") /\ ~Did(o, "finalized")
      BY <2>0, <3>1 DEF Journal
    <3>3. kc = Source(o) /\ oc = Pausing(o)
      BY <2>0, <3>1, <3>2 DEF AtKernelGate, AtLocalGate
    <3> QED
      BY <2>0, <3>3 DEF Source, Pausing, Gate
  <2> QED
    BY <2>1, <2>2
<1> QED
  BY <1>3, <1>4

LEMMA GenerationsOne ==
    ASSUME ControlInv
    PROVE  GenerationsFollow
<1>0. TypeOK /\ GatesInv
  BY DEF ControlInv
<1>1. CASE \A o \in Ops : ~Unfinished(o)
  BY <1>0, <1>1 DEF GatesInv, GenerationsFollow
<1>2. ASSUME NEW o \in Ops, Unfinished(o)
      PROVE  GenerationsFollow
  <2>1. GatesOf(o) /\ Journal(o) /\ op[o].gen \in Nat
    BY <1>0, <1>2 DEF ControlInv, GatesInv, TypeOK
  <2> QED
    <3>1. CASE Did(o, "installed") <=> Has(o, "installed")
      BY <2>1, <3>1 DEF GatesOf, GenerationsFollow
    <3>2. CASE Has(o, "installed") /\ ~Did(o, "installed")
      <4>1. Did(o, "decided")
        BY <2>1, <3>2 DEF Journal
      <4>2. oc.gen = op[o].gen /\ kc.gen = oc.gen + 1
        BY <2>1, <3>2 DEF GatesOf
      <4> QED
        BY <3>2, <4>1, <4>2 DEF GenerationsFollow
    <3>3. ~(Did(o, "installed") /\ ~Has(o, "installed"))
      BY <2>1 DEF Journal
    <3> QED
      BY <3>1, <3>2, <3>3
<1> QED
  BY <1>1, <1>2

\* Whatever calls crashed, were slow or came late, and however often the lease
\* changed hands: the Orchestrator's gate of a Run is open only if the
\* Kernel's is, or a recorded cancellation is about to close it; the Kernel's
\* is open only by a decision the Orchestrator has kept; the generations part
\* by no more than the revision being installed; after a cancellation's fence
\* the Run stays closed and both stores come to agree; and no takeover of an
\* activation or resume is lost (managed.py, _sqlite_execution.py,
\* control_takeover.py).
THEOREM GatesNeverPart ==
    ASSUME ControlAssumption
    PROVE  Spec => []GatesAgree
<1>1. ControlInv => GatesAgree
  <2> SUFFICES ASSUME ControlInv
               PROVE  GatesAgree
    OBVIOUS
  <2>1. LeasesAgree
    BY DEF ControlInv, LeaseInv, LeaseOf, LeasesAgree
  <2>2. TypeOK /\ LocalOpenIsBacked /\ FencedForGood /\ CancelledAgree
    BY DEF ControlInv, CancelInv
  <2> QED
    BY <2>1, <2>2, OpenDecided, GenerationsOne DEF GatesAgree
<1> QED
  BY <1>1, ControlInvariant, PTL

\* Only resume_revision moves the resume receipt.
LEMMA ResumeReceipt ==
    ASSUME ControlInv, [Next]_vars, NEW o \in Ops, kop'[o].res # kop[o].res
    PROVE  \E l \in Leases : KResume(o, l)
<1>0. TypeOK
  BY DEF ControlInv
<1>1. ASSUME NEW q \in Ops, NEW what \in Receipts, Receipt(q, what)
      PROVE  FALSE
  BY <1>0, <1>1, ReceiptEffect DEF Issued, KeepsReceipts
<1>2. kop' # kop
  OBVIOUS
<1>3. PICK q \in Ops : Pause(q) \/ Revise(q) \/ Reopen(q)
  BY <1>2 DEF Next, TakeOver, ClaimTakeover, KTakeOver, AckTakeover, ResolveTakeover, Cancel, CancelIntent,
              KFence, RefreshCancel, CommitCancel, NewLease, vars, kvars, ovars
<1>4. CASE Pause(q)
  <2>1. KPreparePause(q) \/ KCompletePause(q) \/ KCapture(q)
    BY <1>2, <1>4 DEF Pause, BeginAdopted, BeginPause, RecordPause, SeePaused, PreparePause, FinalizePause, kvars
  <2> QED
    BY <1>1, <2>1 DEF KPreparePause, KCompletePause, KCapture, Receipts
<1>5. CASE Revise(q)
  <2>1. KInstall(q) \/ KInstallBudget(q)
    BY <1>2, <1>5 DEF Revise, CommitRevision, OrderInstall, RecordInstall, SeeInstalled, InstallProjection,
                      OrderBudget, RecordBudget, kvars
  <2> QED
    BY <1>1, <2>1 DEF KInstall, KInstallBudget, Receipts
<1>6. CASE Reopen(q)
  <2>1. PICK l \in Leases : KActivate(q, l) \/ KResume(q, l)
    BY <1>2, <1>6 DEF Reopen, OrderActivation, RecordActivation, OrderResume, CheckResume, CommitResume, kvars
  <2>2. ~KActivate(q, l)
    BY <1>0, OpenEffect DEF KActivate
  <2>3. q = o
    BY <1>0, <2>1, <2>2, OpenEffect DEF KResume
  <2> QED
    BY <2>1, <2>2, <2>3
<1> QED
  BY <1>3, <1>4, <1>5, <1>6

LEMMA HolderResumes ==
    ASSUME ControlInv, ControlAssumption, [Next]_vars
    PROVE  StaleHolderCannotOpenStep
<1> SUFFICES ASSUME NEW o \in Ops, kop[o].res = 0, kop'[o].res # 0,
                    NEW p \in Phases \X {o}, NEW k \in ktaken[p]
             PROVE  k <= kop'[o].res
  BY DEF StaleHolderCannotOpenStep
<1>1. PICK l \in Leases : KResume(o, l)
  BY ResumeReceipt
<1> DEFINE a == <<"activation", o>>
           r == <<"resume", o>>
<1>2. /\ KHolder(r, l) = l
      /\ KHolder(a, kop[o].act) = IF ktaken[r] = {} THEN l ELSE op[o].res
      /\ kop' = [kop EXCEPT ![o].res = l]
  BY <1>1 DEF KResume
<1>3. kop'[o].res = l
  BY <1>2, OpenEffect DEF ControlInv
<1>4. p \in {a, r} /\ a \in Phases \X Ops /\ r \in Phases \X Ops /\ Original(r) = op[o].res
  BY DEF Phases, Original
<1> HIDE DEF a, r
<1>5. \A q \in {a, r} : LeaseOf(q) /\ ktaken[q] \subseteq Leases /\ HasMax(ktaken[q])
  BY <1>4 DEF ControlInv, LeaseInv, LeaseOf, TypeOK
<1>6. \A q \in {a, r} : ktaken[q] # {} => \A t \in ktaken[q] : t <= Max(ktaken[q])
  BY <1>5, MaxIs DEF ControlAssumption
<1>7. ktaken[r] # {} => Max(ktaken[r]) = l /\ l \in ktaken[r] /\ op[o].res <= l
  <2>1. ktaken[r] # {} => Max(ktaken[r]) = l /\ Max(ktaken[r]) \in ktaken[r]
    BY <1>2, <1>5, MaxIs DEF ControlAssumption, KHolder
  <2> QED
    BY <1>4, <1>5, <2>1 DEF LeaseOf, ControlInv, TypeOK, Leases
<1>8. CASE p = r
  BY <1>3, <1>6, <1>7, <1>8
<1>9. CASE p = a
  <2>1. k <= Max(ktaken[a]) /\ Max(ktaken[a]) = IF ktaken[r] = {} THEN l ELSE op[o].res
    BY <1>2, <1>6, <1>9 DEF KHolder
  <2>2. k \in Nat /\ l \in Nat /\ op[o].res \in Nat
    BY <1>5, <1>9 DEF Leases, ControlInv, TypeOK
  <2> QED
    BY <1>3, <1>7, <2>1, <2>2
<1> QED
  BY <1>4, <1>8, <1>9

LEMMA ResumeReopens ==
    ASSUME ControlInv, [Next]_vars
    PROVE  ReopenOnlyUncancelledStep
<1> SUFFICES ASSUME oc.state # "active", oc'.state = "active"
             PROVE  /\ CancelRows(oc'.gen) = {} /\ ~CancelFenced /\ kc = oc'
                    /\ \E o \in Ops : oc = Installed(o) /\ KHolder(<<"resume", o>>, kop[o].res) = lease
  BY DEF ReopenOnlyUncancelledStep
<1>1. \A o \in Ops : ~Pause(o)
  BY DEF Pause, BeginAdopted, BeginPause, KPreparePause, KCompletePause, KCapture, RecordPause,
         SeePaused, PreparePause, FinalizePause, Paused, Gate, ovars
<1>2. \A o \in Ops : ~Revise(o)
  <2>1. \A o \in Ops : ~InstallProjection(o)
    BY DEF InstallProjection, Installed, Gate
  <2> QED
    BY <2>1 DEF Revise, CommitRevision, OrderInstall, KInstall, RecordInstall, SeeInstalled,
                OrderBudget, KInstallBudget, RecordBudget, ovars
<1>3. \A c \in Cancels : ~Cancel(c)
  BY DEF Cancel, CancelIntent, KFence, RefreshCancel, CommitCancel, Gate, ovars
<1>4. PICK o \in Ops : Reopen(o)
  BY <1>1, <1>2, <1>3 DEF Next, TakeOver, ClaimTakeover, KTakeOver, AckTakeover, ResolveTakeover, NewLease,
                          vars, kvars, ovars
<1>5. CommitResume(o)
  BY <1>4 DEF Reopen, OrderActivation, KActivate, RecordActivation, OrderResume, CheckResume, KResume, ovars
<1>6. /\ CancelRows(op[o].gen + 1) = {} /\ kc = Reopened(o) /\ oc' = Reopened(o) /\ oc = Installed(o)
      /\ KHolder(<<"resume", o>>, kop[o].res) = lease
  BY <1>5 DEF CommitResume, HolderIs
<1>7. oc'.gen = op[o].gen + 1
  BY <1>6 DEF Reopened, Gate
<1>8. ~CancelFenced
  BY <1>6 DEF ControlInv, CancelInv, FencedForGood
<1> QED
  BY <1>6, <1>7, <1>8

\* A caller whose lease was taken over never opens the Kernel's gate, however
\* late its call arrives; and the Orchestrator's gate opens only by the resume
\* that follows the revision it is at, at the Kernel's open gate, under the
\* lease the Kernel knows, and never over a recorded cancellation
\* (resume_cross_store_revision, _verify_effective_control_decision).
THEOREM GatesMoveSafely ==
    ASSUME ControlAssumption
    PROVE  Spec => [][GateSteps]_vars
<1>1. ControlInv /\ [Next]_vars => GateSteps
  BY HolderResumes, ResumeReopens DEF GateSteps
<1> QED
  BY <1>1, ControlInvariant, PTL DEF Spec
=============================================================================
