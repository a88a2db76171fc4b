--------------------------- MODULE AutonomyProofs ---------------------------
(***************************************************************************)
(* Theorems about on-board autonomy, for every size of the tables, queues  *)
(* and store, every set of definitions and every set of telecommands.      *)
(***************************************************************************)
EXTENDS Autonomy, PackedTableProofs

(* What the transitions of fsm.c return.                                   *)
LEMMA FsmMoves ==
  ASSUME NEW f \in FsmContexts
  PROVE  /\ FsmToSafe(f) \in FsmContexts /\ FsmToSafe(f).mode = "SAFE"
         /\ FsmToStandby(f) \in FsmContexts
         /\ FsmToNominal(f) \in FsmContexts
<1>1. (f.entries + 1) % EntryRange \in 0 .. EntryRange - 1
  BY EntryAssumption DEF FsmContexts
<1> QED
  BY <1>1 DEF FsmContexts, FsmToSafe, FsmToStandby, FsmToNominal, Modes

(* n packets: what fits is stored, and what is lost is noted.              *)
StoreGrows(n) ==
  /\ tm' \in 0 .. StoreCap /\ tm' <= tm + n /\ overflow' \in BOOLEAN
  /\ overflow => overflow'
  /\ tm + n <= StoreCap /\ ~overflow => ~overflow'

LEMMA EmitGrows ==
  ASSUME TypeOK, NEW n \in Nat, Emit(n)
  PROVE  StoreGrows(n) /\ (~overflow' => tm + n <= StoreCap)
<1>1. tm \in Nat /\ tm <= StoreCap /\ StoreCap \in Nat /\ overflow \in BOOLEAN
  BY AutonomyBounds DEF TypeOK
<1>2. CASE tm + n > StoreCap
  <2>1. overflow' = TRUE
    BY <1>2, Zenon DEF Emit
  <2> QED
    BY <1>1, <1>2, <2>1 DEF Emit, StoreGrows
<1>3. CASE ~(tm + n > StoreCap)
  <2>1. overflow' = overflow
    BY <1>1, <1>3, Zenon DEF Emit
  <2> QED
    BY <1>1, <1>3, <2>1 DEF Emit, StoreGrows
<1> QED
  BY <1>2, <1>3

LEMMA EmitAtMost ==
  ASSUME TypeOK, NEW n \in 0 .. 3, Emit(n)
  PROVE  StoreGrows(3)
<1>1. StoreGrows(n)
  BY EmitGrows
<1>2. tm \in Nat /\ StoreCap \in Nat
  BY AutonomyBounds DEF TypeOK
<1> QED
  BY <1>1, <1>2 DEF StoreGrows

(* A sequence is a function on 1 .. Len, and the other way round.          *)
LEMMA SeqShape ==
  ASSUME NEW S, NEW s \in Seq(S)
  PROVE  /\ Len(s) \in Nat /\ DOMAIN s = 1 .. Len(s)
         /\ s \in [1 .. Len(s) -> S]
OBVIOUS

LEMMA FunIsSeq ==
  ASSUME NEW S, NEW n \in Nat, NEW f \in [1 .. n -> S]
  PROVE  f \in Seq(S) /\ DOMAIN f = 1 .. n /\ Len(f) = n
OBVIOUS

LEMMA EmptySeq ==
  ASSUME NEW S
  PROVE  << >> \in Seq(S) /\ Len(<< >>) = 0 /\ DOMAIN << >> = {}
OBVIOUS

(* Rows of a table from which one was removed come from different rows.    *)
LEMMA RemoveAtApart ==
  ASSUME NEW S, NEW s \in Seq(S), NEW i \in DOMAIN s,
         NEW j \in DOMAIN RemoveAt(s, i), NEW k \in DOMAIN RemoveAt(s, i)
  PROVE  \E a, b \in DOMAIN s :
           /\ RemoveAt(s, i)[j] = s[a] /\ RemoveAt(s, i)[k] = s[b]
           /\ a = b => j = k
<1>1. /\ Len(s) \in Nat /\ DOMAIN s = 1 .. Len(s)
      /\ j \in 1 .. Len(s) - 1 /\ k \in 1 .. Len(s) - 1
  BY RemoveAtShape, SMTT(30)
<1> DEFINE from(x) == IF x = i THEN Len(s) ELSE x
<1>2. /\ from(j) \in DOMAIN s /\ from(k) \in DOMAIN s
      /\ from(j) = from(k) => j = k
  BY <1>1
<1>3. RemoveAt(s, i)[j] = s[from(j)] /\ RemoveAt(s, i)[k] = s[from(k)]
  BY <1>1, RemoveAtShape, ZenonT(30)
<1> QED
  BY <1>2, <1>3
-----------------------------------------------------------------------------
(* The tables of services 12 and 19                                        *)

MonOK ==
  /\ mon \in [on : BOOLEAN, defs : Seq(MonRows)] /\ Len(mon.defs) <= MonCapacity
  /\ \A i, j \in DOMAIN mon.defs : mon.defs[i].param = mon.defs[j].param => i = j

EaOK ==
  /\ ea \in [on : BOOLEAN, defs : Seq(EaRows), queue : Seq(Nat)]
  /\ Len(ea.defs) <= EaCapacity /\ Len(ea.queue) <= QueueLen
  /\ \A i \in DOMAIN ea.defs : ea.defs[i].action.svc # 19 /\ WellFormed(ea.defs[i].action)
  /\ \A i, j \in DOMAIN ea.defs : ea.defs[i].event = ea.defs[j].event => i = j
  /\ ~ea.on => ea.queue = << >>

TablesOK == fsm \in FsmContexts /\ val \in [Params -> Values] /\ MonOK /\ EaOK

LEMMA InvTables == ASSUME AutIInv PROVE TablesOK
BY DEF AutIInv, TypeOK, TablesOK, MonOK, EaOK, ActionsParsed, OneDefinitionEach,
       DisabledMeansIdle

(* Adding or replacing a limit                                             *)
LEMMA MonRowOK ==
  ASSUME NEW k \in DOMAIN MonDefs, MonLegal(MonDefs[k])
  PROVE  MonRow(MonDefs[k]) \in MonRows /\ MonRow(MonDefs[k]).param = MonDefs[k].param
BY ArgumentAssumption DEF MonRow, MonRows, MonLegal, HIGH

LEMMA MonReplaced ==
  ASSUME MonOK, NEW row \in MonRows, NEW i \in DOMAIN mon.defs, Monitors(i, row.param),
         mon' = [mon EXCEPT !.defs[i] = row]
  PROVE  MonOK'
<1>1. /\ Len(mon.defs) \in Nat /\ DOMAIN mon.defs = 1 .. Len(mon.defs)
      /\ mon.defs \in [1 .. Len(mon.defs) -> MonRows]
  BY DEF MonOK
<1>2. mon'.on = mon.on /\ mon'.defs = [mon.defs EXCEPT ![i] = row]
  BY DEF MonOK
<1>3. mon'.defs \in [1 .. Len(mon.defs) -> MonRows]
  BY <1>1, <1>2
<1>4. mon'.defs \in Seq(MonRows) /\ Len(mon'.defs) = Len(mon.defs)
      /\ DOMAIN mon'.defs = 1 .. Len(mon.defs)
  BY <1>1, <1>3
<1>5. mon' \in [on : BOOLEAN, defs : Seq(MonRows)]
  BY <1>2, <1>4 DEF MonOK
<1>6. \A j \in DOMAIN mon.defs : mon'.defs[j].param = mon.defs[j].param
  BY <1>1, <1>2 DEF Monitors
<1>7. \A j, k \in DOMAIN mon'.defs : mon'.defs[j].param = mon'.defs[k].param => j = k
  BY <1>1, <1>4, <1>6 DEF MonOK
<1>8. Len(mon'.defs) <= MonCapacity
  BY <1>4 DEF MonOK
<1> QED
  BY <1>5, <1>7, <1>8 DEF MonOK

LEMMA MonAppended ==
  ASSUME MonOK, NEW row \in MonRows, ~HasMonitor(row.param), Len(mon.defs) < MonCapacity,
         mon' = [mon EXCEPT !.defs = Append(@, row)]
  PROVE  MonOK'
<1>1. Len(mon.defs) \in Nat /\ DOMAIN mon.defs = 1 .. Len(mon.defs)
  BY DEF MonOK
<1>2. mon'.on = mon.on /\ mon'.defs = Append(mon.defs, row)
  BY DEF MonOK
<1>3. /\ mon'.defs \in Seq(MonRows) /\ Len(mon'.defs) = Len(mon.defs) + 1
      /\ DOMAIN mon'.defs = 1 .. Len(mon.defs) + 1
      /\ mon'.defs[Len(mon.defs) + 1] = row
      /\ \A j \in DOMAIN mon.defs : mon'.defs[j] = mon.defs[j]
  BY <1>1, <1>2 DEF MonOK
<1>4. mon' \in [on : BOOLEAN, defs : Seq(MonRows)]
  BY <1>2, <1>3 DEF MonOK
<1>5. \A j \in DOMAIN mon.defs : mon.defs[j].param # row.param
  BY DEF HasMonitor, Monitors
<1>6. \A i, j \in 1 .. Len(mon.defs) + 1 :
        mon'.defs[i].param = mon'.defs[j].param => i = j
  BY <1>1, <1>3, <1>5 DEF MonOK
<1> QED
  BY <1>1, <1>3, <1>4, <1>6, AutonomyBounds DEF MonOK

LEMMA MonRemoved ==
  ASSUME MonOK, NEW i \in DOMAIN mon.defs,
         mon' = [mon EXCEPT !.defs = RemoveAt(@, i)]
  PROVE  MonOK'
<1>1. mon.defs \in Seq(MonRows) /\ Len(mon.defs) \in Nat
  BY DEF MonOK
<1>2. mon'.on = mon.on /\ mon'.defs = RemoveAt(mon.defs, i)
  BY DEF MonOK
<1>3. /\ mon'.defs \in Seq(MonRows) /\ Len(mon'.defs) = Len(mon.defs) - 1
  BY <1>1, <1>2, RemoveAtShape
<1>4. mon' \in [on : BOOLEAN, defs : Seq(MonRows)]
  BY <1>2, <1>3 DEF MonOK
<1>5. ASSUME NEW j \in DOMAIN mon'.defs, NEW k \in DOMAIN mon'.defs,
             mon'.defs[j].param = mon'.defs[k].param
      PROVE  j = k
  BY <1>1, <1>2, <1>5, RemoveAtApart DEF MonOK
<1> QED
  BY <1>1, <1>3, <1>4, <1>5, AutonomyBounds DEF MonOK

(* TC(12,1) and obsw_s12_check write latches only.                         *)
SameLimits ==
  /\ mon' \in [on : BOOLEAN, defs : Seq(MonRows)]
  /\ DOMAIN mon'.defs = DOMAIN mon.defs /\ Len(mon'.defs) = Len(mon.defs)
  /\ \A i \in DOMAIN mon.defs : mon'.defs[i].param = mon.defs[i].param

LEMMA SameLimitsOK == ASSUME MonOK, SameLimits PROVE MonOK'
<1>1. \A j, k \in DOMAIN mon'.defs : mon'.defs[j].param = mon'.defs[k].param => j = k
  BY DEF MonOK, SameLimits
<1> QED
  BY <1>1 DEF MonOK, SameLimits

LEMMA RowLatched ==
  ASSUME NEW d \in MonRows, NEW below \in BOOLEAN, NEW above \in BOOLEAN
  PROVE  /\ [d EXCEPT !.inLow = below, !.inHigh = above] \in MonRows
         /\ [d EXCEPT !.inLow = below, !.inHigh = above].param = d.param
BY DEF MonRows

LEMMA Latched ==
  ASSUME MonOK, NEW on \in BOOLEAN,
         NEW defs \in [DOMAIN mon.defs -> MonRows],
         \A i \in DOMAIN mon.defs : defs[i].param = mon.defs[i].param,
         mon' = [on |-> on, defs |-> defs]
  PROVE  SameLimits
<1>1. mon.defs \in Seq(MonRows)
  BY DEF MonOK
<1>2. Len(mon.defs) \in Nat /\ DOMAIN mon.defs = 1 .. Len(mon.defs)
  BY <1>1, SeqShape
<1>3. defs \in Seq(MonRows) /\ DOMAIN defs = DOMAIN mon.defs /\ Len(defs) = Len(mon.defs)
  BY <1>2, FunIsSeq
<1> QED
  BY <1>3 DEF SameLimits

(* Adding, replacing and removing a reaction                               *)
LEMMA EaReplaced ==
  ASSUME EaOK, NEW d \in EaRows, d.action.svc # 19, WellFormed(d.action),
         NEW i \in DOMAIN ea.defs, Reacts(i, d.event), ea' = [ea EXCEPT !.defs[i] = d]
  PROVE  EaOK' /\ ea'.on = ea.on /\ ea'.queue = ea.queue
<1>1. /\ Len(ea.defs) \in Nat /\ DOMAIN ea.defs = 1 .. Len(ea.defs)
      /\ ea.defs \in [1 .. Len(ea.defs) -> EaRows]
  BY DEF EaOK
<1>2. ea'.on = ea.on /\ ea'.queue = ea.queue /\ ea'.defs = [ea.defs EXCEPT ![i] = d]
  BY DEF EaOK
<1>3. ea'.defs \in [1 .. Len(ea.defs) -> EaRows]
  BY <1>1, <1>2
<1>4. ea'.defs \in Seq(EaRows) /\ Len(ea'.defs) = Len(ea.defs)
      /\ DOMAIN ea'.defs = 1 .. Len(ea.defs)
  BY <1>1, <1>3
<1>5. ea' \in [on : BOOLEAN, defs : Seq(EaRows), queue : Seq(Nat)]
  BY <1>2, <1>4 DEF EaOK
<1>6. \A j \in DOMAIN ea.defs : ea'.defs[j].event = ea.defs[j].event
  BY <1>1, <1>2 DEF Reacts
<1>7. ASSUME NEW j \in DOMAIN ea'.defs, NEW k \in DOMAIN ea'.defs,
             ea'.defs[j].event = ea'.defs[k].event
      PROVE  j = k
  <2>1. j \in DOMAIN ea.defs /\ k \in DOMAIN ea.defs
    BY <1>1, <1>4
  <2>2. ea.defs[j].event = ea.defs[k].event
    BY <1>6, <1>7, <2>1
  <2> QED
    BY <2>1, <2>2 DEF EaOK
<1>8. \A j \in DOMAIN ea'.defs : ea'.defs[j].action.svc # 19 /\ WellFormed(ea'.defs[j].action)
  BY <1>1, <1>2, <1>4 DEF EaOK
<1> QED
  BY <1>2, <1>4, <1>5, <1>7, <1>8 DEF EaOK

LEMMA EaAppended ==
  ASSUME EaOK, NEW d \in EaRows, d.action.svc # 19, WellFormed(d.action),
         ~HasReaction(d.event), Len(ea.defs) < EaCapacity,
         ea' = [ea EXCEPT !.defs = Append(@, d)]
  PROVE  EaOK' /\ ea'.on = ea.on /\ ea'.queue = ea.queue
<1>1. Len(ea.defs) \in Nat /\ DOMAIN ea.defs = 1 .. Len(ea.defs)
  BY DEF EaOK
<1>2. ea'.on = ea.on /\ ea'.queue = ea.queue /\ ea'.defs = Append(ea.defs, d)
  BY DEF EaOK
<1>3. /\ ea'.defs \in Seq(EaRows) /\ Len(ea'.defs) = Len(ea.defs) + 1
      /\ DOMAIN ea'.defs = 1 .. Len(ea.defs) + 1
      /\ ea'.defs[Len(ea.defs) + 1] = d
      /\ \A j \in DOMAIN ea.defs : ea'.defs[j] = ea.defs[j]
  BY <1>1, <1>2 DEF EaOK
<1>4. ea' \in [on : BOOLEAN, defs : Seq(EaRows), queue : Seq(Nat)]
  BY <1>2, <1>3 DEF EaOK
<1>5. \A j \in DOMAIN ea.defs : ea.defs[j].event # d.event
  BY DEF HasReaction, Reacts
<1>6. \A j, k \in DOMAIN ea'.defs : ea'.defs[j].event = ea'.defs[k].event => j = k
  BY <1>1, <1>3, <1>5 DEF EaOK
<1>7. \A j \in DOMAIN ea'.defs : ea'.defs[j].action.svc # 19 /\ WellFormed(ea'.defs[j].action)
  BY <1>1, <1>3 DEF EaOK
<1>8. Len(ea'.defs) <= EaCapacity
  BY <1>1, <1>3, AutonomyBounds
<1> QED
  BY <1>2, <1>4, <1>6, <1>7, <1>8 DEF EaOK

LEMMA EaRemoved ==
  ASSUME EaOK, NEW i \in DOMAIN ea.defs, ea' = [ea EXCEPT !.defs = RemoveAt(@, i)]
  PROVE  EaOK' /\ ea'.on = ea.on /\ ea'.queue = ea.queue
<1>1. ea.defs \in Seq(EaRows) /\ Len(ea.defs) \in Nat
  BY DEF EaOK
<1>2. ea'.on = ea.on /\ ea'.queue = ea.queue /\ ea'.defs = RemoveAt(ea.defs, i)
  BY DEF EaOK
<1>3. ea'.defs \in Seq(EaRows) /\ Len(ea'.defs) = Len(ea.defs) - 1
  BY <1>1, <1>2, RemoveAtShape
<1>4. ea' \in [on : BOOLEAN, defs : Seq(EaRows), queue : Seq(Nat)]
  BY <1>2, <1>3 DEF EaOK
<1>5. ASSUME NEW j \in DOMAIN ea'.defs, NEW k \in DOMAIN ea'.defs
      PROVE  /\ ea'.defs[j].event = ea'.defs[k].event => j = k
             /\ ea'.defs[j].action.svc # 19 /\ WellFormed(ea'.defs[j].action)
  BY <1>1, <1>2, RemoveAtApart DEF EaOK
<1>6. Len(ea'.defs) <= EaCapacity
  BY <1>1, <1>3, AutonomyBounds DEF EaOK
<1> QED
  BY <1>2, <1>4, <1>5, <1>6 DEF EaOK

-----------------------------------------------------------------------------
(* What a telecommand may do, whatever way it came                         *)

Effect(tc) ==
  /\ TablesOK' /\ StoreGrows(3)
  /\ tc.svc # 12 => mon' = mon
  /\ tc.svc # 19 => ea' = ea

LEMMA RefuseEffect ==
  ASSUME AutIInv, Refuse, NEW tc
  PROVE  Effect(tc)
<1>1. TypeOK /\ TablesOK
  BY InvTables DEF AutIInv
<1>2. UNCHANGED service /\ StoreGrows(3)
  BY <1>1, EmitAtMost DEF Refuse
<1> QED
  BY <1>1, <1>2 DEF Effect, TablesOK, MonOK, EaOK, service

LEMMA S8Effect ==
  ASSUME AutIInv, NEW tc, tc.svc = 8, S8Perform(tc.arg)
  PROVE  Effect(tc)
<1>1. TypeOK /\ TablesOK
  BY InvTables DEF AutIInv
<1>2. CASE Refuse
  BY <1>2, RefuseEffect
<1>3. CASE ~Refuse
  <2>1. tc.arg \in 1 .. 3 /\ Emit(2) /\ UNCHANGED <<val, mon, ea>>
    BY <1>3 DEF S8Perform
  <2>2. fsm' \in FsmContexts
    <3>1. fsm \in FsmContexts
      BY <1>1 DEF TypeOK
    <3>2. fsm' = CASE tc.arg = 1 -> FsmToNominal(fsm)
                   [] tc.arg = 2 -> FsmToSafe(fsm)
                   [] tc.arg = 3 -> FsmToStandby(fsm)
      BY <1>3 DEF S8Perform
    <3> QED
      BY <2>1, <3>1, <3>2, FsmMoves
  <2>3. StoreGrows(3)
    BY <1>1, <2>1, EmitAtMost
  <2> QED
    BY <1>1, <2>1, <2>2, <2>3 DEF Effect, TablesOK, MonOK, EaOK
<1> QED
  BY <1>2, <1>3

LEMMA S20Effect ==
  ASSUME AutIInv, NEW tc, WellFormed(tc), tc.svc = 20, tc.sub = 1, S20Set(SetArgs[tc.arg])
  PROVE  Effect(tc)
<1>1. TypeOK /\ TablesOK
  BY InvTables DEF AutIInv
<1>2. CASE Refuse
  BY <1>2, RefuseEffect
<1>3. CASE ~Refuse
  <2> DEFINE a == SetArgs[tc.arg]
  <2>1. a.param \in Params /\ val' = [val EXCEPT ![a.param] = a.value]
    BY <1>3 DEF S20Set
  <2>2. Emit(2) /\ UNCHANGED <<fsm, mon, ea>>
    BY <1>3 DEF S20Set
  <2>3. a.value \in Values
    BY <2>1, ArgumentAssumption DEF WellFormed
  <2>4. val' \in [Params -> Values]
    BY <1>1, <2>1, <2>3 DEF TypeOK
  <2>5. StoreGrows(3)
    BY <1>1, <2>2, EmitAtMost
  <2> QED
    BY <1>1, <2>2, <2>4, <2>5 DEF Effect, TablesOK, MonOK, EaOK
<1> QED
  BY <1>2, <1>3

(* A handler of service 12 that leaves a table it can read                 *)
LEMMA MonEffect ==
  ASSUME AutIInv, NEW tc, tc.svc = 12, MonOK', Emit(2), UNCHANGED <<fsm, val, ea>>
  PROVE  Effect(tc)
<1>1. TypeOK /\ TablesOK
  BY InvTables DEF AutIInv
<1>2. StoreGrows(3)
  BY <1>1, EmitAtMost
<1> QED
  BY <1>1, <1>2 DEF Effect, TablesOK, EaOK

LEMMA EaEffect ==
  ASSUME AutIInv, NEW tc, tc.svc = 19, EaOK', Emit(2), UNCHANGED <<fsm, val, mon>>
  PROVE  Effect(tc)
<1>1. TypeOK /\ TablesOK
  BY InvTables DEF AutIInv
<1>2. StoreGrows(3)
  BY <1>1, EmitAtMost
<1> QED
  BY <1>1, <1>2 DEF Effect, TablesOK, MonOK

LEMMA S12AddEffect ==
  ASSUME AutIInv, NEW tc, WellFormed(tc), tc.svc = 12, tc.sub = 3, S12Add(MonDefs[tc.arg])
  PROVE  Effect(tc)
<1>1. MonOK
  BY InvTables DEF TablesOK
<1>2. CASE Refuse
  BY <1>2, RefuseEffect
<1>3. CASE ~Refuse
  <2> DEFINE d == MonDefs[tc.arg]
             row == MonRow(d)
  <2>1. MonLegal(d) /\ Emit(2) /\ UNCHANGED <<fsm, val, ea>>
    BY <1>3 DEF S12Add
  <2>2. row \in MonRows /\ row.param = d.param
    BY <2>1, MonRowOK DEF WellFormed
  <2>3. \/ \E i \in DOMAIN mon.defs :
              Monitors(i, d.param) /\ mon' = [mon EXCEPT !.defs[i] = row]
        \/ /\ ~HasMonitor(d.param) /\ Len(mon.defs) < MonCapacity
           /\ mon' = [mon EXCEPT !.defs = Append(@, row)]
    BY <1>3 DEF S12Add, MonReplaces
  <2> HIDE DEF row
  <2>4. MonOK'
    BY <1>1, <2>2, <2>3, MonReplaced, MonAppended
  <2> QED
    BY <2>1, <2>4, MonEffect
<1> QED
  BY <1>2, <1>3

LEMMA S12OtherEffect ==
  ASSUME AutIInv, NEW tc, tc.svc = 12,
         S12Enable \/ S12Disable \/ S12Delete(tc.arg) \/ S12DeleteAll
  PROVE  Effect(tc)
<1>1. MonOK
  BY InvTables DEF TablesOK
<1>2. mon.defs \in Seq(MonRows) /\ mon.on \in BOOLEAN
  BY <1>1 DEF MonOK
<1>3. CASE S12Enable
  <2> DEFINE defs == [i \in DOMAIN mon.defs |->
                        [mon.defs[i] EXCEPT !.inLow = FALSE, !.inHigh = FALSE]]
  <2>1. mon' = [on |-> TRUE, defs |-> defs]
    BY <1>3 DEF S12Enable
  <2>2. \A i \in DOMAIN mon.defs :
          defs[i] \in MonRows /\ defs[i].param = mon.defs[i].param
    <3>1. \A i \in DOMAIN mon.defs : mon.defs[i] \in MonRows
      BY <1>2
    <3>2. \A d \in MonRows :
            /\ [d EXCEPT !.inLow = FALSE, !.inHigh = FALSE] \in MonRows
            /\ [d EXCEPT !.inLow = FALSE, !.inHigh = FALSE].param = d.param
      BY RowLatched, Zenon
    <3> QED
      BY <3>1, <3>2, Zenon
  <2>3. defs \in [DOMAIN mon.defs -> MonRows]
    BY <2>2
  <2> HIDE DEF defs
  <2>4. MonOK'
    BY <1>1, <2>1, <2>2, <2>3, Latched, SameLimitsOK
  <2> QED
    BY <1>3, <2>4, MonEffect DEF S12Enable
<1>4. CASE S12Disable
  <2>1. MonOK'
    BY <1>1, <1>4 DEF MonOK, S12Disable
  <2> QED
    BY <1>4, <2>1, MonEffect DEF S12Disable
<1>5. CASE S12Delete(tc.arg)
  <2>1. CASE Refuse
    BY <2>1, RefuseEffect
  <2>2. CASE ~Refuse
    <3>1. MonOK'
      BY <1>1, <1>5, <2>2, MonRemoved DEF S12Delete
    <3> QED
      BY <1>5, <2>2, <3>1, MonEffect DEF S12Delete
  <2> QED
    BY <2>1, <2>2
<1>6. CASE S12DeleteAll
  <2>1. mon'.on = mon.on /\ mon'.defs = << >>
    BY <1>1, <1>6 DEF MonOK, S12DeleteAll
  <2>2. mon' \in [on : BOOLEAN, defs : Seq(MonRows)]
    BY <1>1, <1>6, EmptySeq DEF MonOK, S12DeleteAll
  <2>3. MonOK'
    BY <2>1, <2>2, EmptySeq, AutonomyBounds DEF MonOK
  <2> QED
    BY <1>6, <2>3, MonEffect DEF S12DeleteAll
<1> QED
  BY <1>3, <1>4, <1>5, <1>6

LEMMA S19AddEffect ==
  ASSUME AutIInv, NEW tc, WellFormed(tc), tc.svc = 19, tc.sub = 1, S19Add(EaDefs[tc.arg])
  PROVE  Effect(tc)
<1>1. EaOK
  BY InvTables DEF TablesOK
<1>2. CASE Refuse
  BY <1>2, RefuseEffect
<1>3. CASE ~Refuse
  <2> DEFINE d == EaDefs[tc.arg]
  <2>1. d.action.svc # 19 /\ Emit(2) /\ UNCHANGED <<fsm, val, mon>>
    BY <1>3 DEF S19Add
  <2>2. d \in EaRows /\ WellFormed(d.action)
    BY ArgumentAssumption DEF WellFormed
  <2>3. \/ \E i \in DOMAIN ea.defs :
              Reacts(i, d.event) /\ ea' = [ea EXCEPT !.defs[i] = d]
        \/ /\ ~HasReaction(d.event) /\ Len(ea.defs) < EaCapacity
           /\ ea' = [ea EXCEPT !.defs = Append(@, d)]
    BY <1>3 DEF S19Add
  <2> HIDE DEF d
  <2>4. EaOK'
    BY <1>1, <2>1, <2>2, <2>3, EaReplaced, EaAppended
  <2> QED
    BY <2>1, <2>4, EaEffect
<1> QED
  BY <1>2, <1>3

LEMMA S19OtherEffect ==
  ASSUME AutIInv, NEW tc, tc.svc = 19,
         S19Delete(tc.arg) \/ S19DeleteAll \/ S19Enable \/ S19Disable
  PROVE  Effect(tc)
<1>1. EaOK
  BY InvTables DEF TablesOK
<1>2. CASE S19Delete(tc.arg)
  <2>1. CASE Refuse
    BY <2>1, RefuseEffect
  <2>2. CASE ~Refuse
    <3>1. EaOK'
      BY <1>1, <1>2, <2>2, EaRemoved DEF S19Delete
    <3> QED
      BY <1>2, <2>2, <3>1, EaEffect DEF S19Delete
  <2> QED
    BY <2>1, <2>2
<1>3. CASE S19DeleteAll
  <2>1. ea'.on = ea.on /\ ea'.queue = ea.queue /\ ea'.defs = << >>
    BY <1>1, <1>3 DEF EaOK, S19DeleteAll
  <2>2. ea' \in [on : BOOLEAN, defs : Seq(EaRows), queue : Seq(Nat)]
    BY <1>1, <1>3, EmptySeq DEF EaOK, S19DeleteAll
  <2>3. EaOK'
    BY <1>1, <2>1, <2>2, EmptySeq, AutonomyBounds DEF EaOK
  <2> QED
    BY <1>3, <2>3, EaEffect DEF S19DeleteAll
<1>4. CASE S19Enable
  <2>1. EaOK'
    BY <1>1, <1>4 DEF EaOK, S19Enable
  <2> QED
    BY <1>4, <2>1, EaEffect DEF S19Enable
<1>5. CASE S19Disable
  <2>1. ea'.queue = << >> /\ ea'.defs = ea.defs
    BY <1>1, <1>5 DEF EaOK, S19Disable
  <2>2. ea' \in [on : BOOLEAN, defs : Seq(EaRows), queue : Seq(Nat)]
    BY <1>1, <1>5, EmptySeq DEF EaOK, S19Disable
  <2>3. EaOK'
    BY <1>1, <2>1, <2>2, EmptySeq, AutonomyBounds DEF EaOK
  <2> QED
    BY <1>5, <2>3, EaEffect DEF S19Disable
<1> QED
  BY <1>2, <1>3, <1>4, <1>5

(* The dispatcher: only in NOMINAL may a table change.                     *)
LEMMA FeedEffect ==
  ASSUME AutIInv, NEW tc, WellFormed(tc), Feed(tc)
  PROVE  Effect(tc) /\ (mon' # mon \/ ea' # ea => fsm.mode = "NOMINAL")
<1>1. CASE Refuse
  <2>1. mon' = mon /\ ea' = ea
    BY <1>1 DEF Refuse, service
  <2> QED
    BY <1>1, <2>1, RefuseEffect
<1>2. CASE Gate(tc) /\ Handle(tc)
  <2>1. Effect(tc)
    <3>1. CASE (Is(tc, 17, 1) \/ Is(tc, 20, 3)) /\ Answer
      <4>1. TypeOK /\ TablesOK
        BY InvTables DEF AutIInv
      <4>2. UNCHANGED service /\ StoreGrows(3)
        BY <3>1, <4>1, EmitAtMost DEF Answer
      <4> QED
        BY <4>1, <4>2 DEF Effect, TablesOK, MonOK, EaOK, service
    <3>2. CASE Is(tc, 8, 1) /\ S8Perform(tc.arg)
      BY <3>2, S8Effect DEF Is
    <3>3. CASE Is(tc, 20, 1) /\ S20Set(SetArgs[tc.arg])
      BY <3>3, S20Effect DEF Is
    <3>4. CASE Is(tc, 12, 3) /\ S12Add(MonDefs[tc.arg])
      BY <3>4, S12AddEffect DEF Is
    <3>5. CASE tc.svc = 12 /\ (S12Enable \/ S12Disable \/ S12Delete(tc.arg) \/ S12DeleteAll)
      BY <3>5, S12OtherEffect
    <3>6. CASE Is(tc, 19, 1) /\ S19Add(EaDefs[tc.arg])
      BY <3>6, S19AddEffect DEF Is
    <3>7. CASE tc.svc = 19 /\ (S19Delete(tc.arg) \/ S19DeleteAll \/ S19Enable \/ S19Disable)
      BY <3>7, S19OtherEffect
    <3> QED
      BY <1>2, <3>1, <3>2, <3>3, <3>4, <3>5, <3>6, <3>7, Zenon DEF Handle, Is
  <2>2. tc.svc \in {12, 19} => fsm.mode = "NOMINAL"
    BY <1>2, GateAssumption DEF Gate, FsmTcAllowed
  <2> QED
    BY <2>1, <2>2 DEF Effect
<1> QED
  BY <1>1, <1>2 DEF Feed

-----------------------------------------------------------------------------
(* The inductive invariant, one step of the loop at a time                 *)

LoopOK ==
  /\ pc \in {"idle", "s11", "s19", "s12", "drain"}
  /\ idx \in Nat
  /\ batch \in Seq(Nat) /\ Len(batch) <= QueueLen
  /\ raised \in BOOLEAN

LEMMA InvLoop ==
  ASSUME AutIInv
  PROVE  /\ TablesOK /\ LoopOK /\ tm \in 0 .. StoreCap /\ overflow \in BOOLEAN
         /\ (~ea.on /\ pc = "s19" => batch = << >>)
         /\ RaisedInSafe
<1>1. LoopOK /\ tm \in 0 .. StoreCap /\ overflow \in BOOLEAN
  BY DEF AutIInv, TypeOK, LoopOK
<1> QED
  BY <1>1, InvTables DEF AutIInv, DisabledMeansIdle

LEMMA Assemble ==
  ASSUME TablesOK', LoopOK', (tm \in 0 .. StoreCap)', (overflow \in BOOLEAN)',
         (~ea.on /\ pc = "s19" => batch = << >>)', RaisedInSafe'
  PROVE  AutIInv'
<1>1. TypeOK'
  BY DEF TypeOK, TablesOK, MonOK, EaOK, LoopOK
<1>2. ActionsParsed' /\ OneDefinitionEach'
  BY DEF TablesOK, MonOK, EaOK, ActionsParsed, OneDefinitionEach
<1>3. DisabledMeansIdle'
  BY DEF TablesOK, EaOK, DisabledMeansIdle
<1> QED
  BY <1>1, <1>2, <1>3 DEF AutIInv

(* A step that leaves the services and the store alone                     *)
LEMMA QuietOK ==
  ASSUME AutIInv, UNCHANGED <<service, tm, overflow>>
  PROVE  TablesOK' /\ (tm \in 0 .. StoreCap)' /\ (overflow \in BOOLEAN)'
<1>1. TablesOK /\ tm \in 0 .. StoreCap /\ overflow \in BOOLEAN
  BY InvLoop
<1> QED
  BY <1>1 DEF TablesOK, MonOK, EaOK, service

LEMMA FrameKeepsInv ==
  ASSUME AutIInv, MalformedFrame \/ SensorFrame \/ CheckEnd
  PROVE  AutIInv'
<1>1. UNCHANGED <<service, tm, overflow, batch, raised>> /\ pc' \in {"drain", "s11"}
      /\ (raised => pc' = "drain")
  BY InvLoop DEF MalformedFrame, SensorFrame, CheckEnd, RaisedInSafe
<1>2. LoopOK'
  BY <1>1, InvLoop DEF LoopOK, MalformedFrame, SensorFrame, CheckEnd
<1>3. RaisedInSafe'
  BY <1>1, InvLoop DEF RaisedInSafe, service
<1>4. (~ea.on /\ pc = "s19" => batch = << >>)'
  BY <1>1
<1> QED
  BY <1>1, <1>2, <1>3, <1>4, QuietOK, Assemble

LEMMA FeedKeepsInv ==
  ASSUME AutIInv, NEW tc, WellFormed(tc), Feed(tc), LoopOK', batch' = batch,
         raised' = raised, pc \in {"idle", "s11", "s19"},
         pc' = "s19" => pc = "s19" /\ tc.svc # 19
  PROVE  AutIInv'
<1>1. Effect(tc)
  BY FeedEffect
<1>2. TablesOK' /\ (tm \in 0 .. StoreCap)' /\ (overflow \in BOOLEAN)'
  BY <1>1 DEF Effect, StoreGrows
<1>3. RaisedInSafe'
  BY InvLoop DEF RaisedInSafe
<1>4. (~ea.on /\ pc = "s19" => batch = << >>)'
  BY <1>1, InvLoop DEF Effect
<1> QED
  BY <1>2, <1>3, <1>4, Assemble

LEMMA UplinkKeepsInv ==
  ASSUME AutIInv, NEW tc \in Tcs, Uplink(tc) \/ Scheduled(tc)
  PROVE  AutIInv'
<1>1. WellFormed(tc)
  BY ArgumentAssumption
<1>2. LoopOK'
  BY InvLoop DEF LoopOK, Uplink, Scheduled
<1>3. /\ Feed(tc) /\ batch' = batch /\ raised' = raised /\ pc \in {"idle", "s11"}
      /\ pc' # "s19"
  BY DEF Uplink, Scheduled
<1> QED
  BY <1>1, <1>2, <1>3, FeedKeepsInv

LEMMA TakeBatchKeepsInv ==
  ASSUME AutIInv, TakeBatch
  PROVE  AutIInv'
<1>1. EaOK
  BY InvLoop DEF TablesOK
<1>2. ea'.on = ea.on /\ ea'.defs = ea.defs /\ ea'.queue = << >>
  BY <1>1 DEF TakeBatch, EaOK
<1>3. ea' \in [on : BOOLEAN, defs : Seq(EaRows), queue : Seq(Nat)]
  BY <1>1, EmptySeq DEF TakeBatch, EaOK
<1>4. EaOK'
  BY <1>1, <1>2, <1>3, EmptySeq, AutonomyBounds DEF EaOK
<1>5. TablesOK' /\ (tm \in 0 .. StoreCap)' /\ (overflow \in BOOLEAN)'
  BY <1>4, InvLoop DEF TakeBatch, TablesOK, MonOK
<1>6. LoopOK'
  BY <1>1, InvLoop DEF TakeBatch, LoopOK, EaOK
<1>7. (~ea.on /\ pc = "s19" => batch = << >>)'
  BY <1>1, <1>2 DEF TakeBatch, EaOK
<1>8. RaisedInSafe'
  BY InvLoop DEF TakeBatch, RaisedInSafe
<1> QED
  BY <1>5, <1>6, <1>7, <1>8, Assemble

LEMMA RunActionKeepsInv ==
  ASSUME AutIInv, RunAction
  PROVE  AutIInv'
<1>1. /\ pc = "s19" /\ UNCHANGED <<pc, batch, raised>> /\ idx' = idx + 1
  BY DEF RunAction
<1>2. LoopOK'
  BY <1>1, InvLoop DEF LoopOK
<1>3. CASE \E i \in DOMAIN ea.defs : Feed(ea.defs[i].action)
  <2>1. PICK i \in DOMAIN ea.defs : Feed(ea.defs[i].action)
    BY <1>3
  <2>2. WellFormed(ea.defs[i].action) /\ ea.defs[i].action.svc # 19
    BY InvLoop DEF TablesOK, EaOK
  <2> QED
    BY <1>1, <1>2, <2>1, <2>2, FeedKeepsInv
<1>4. CASE UNCHANGED <<service, tm, overflow>>
  <2>1. RaisedInSafe' /\ (~ea.on /\ pc = "s19" => batch = << >>)'
    BY <1>1, <1>4, InvLoop DEF RaisedInSafe, service
  <2> QED
    BY <1>2, <1>4, <2>1, QuietOK, Assemble
<1> QED
  BY <1>3, <1>4 DEF RunAction

LEMMA ControlStepKeepsInv ==
  ASSUME AutIInv, ControlStep
  PROVE  AutIInv'
<1>1. TablesOK' /\ (tm \in 0 .. StoreCap)' /\ (overflow \in BOOLEAN)'
  BY InvLoop DEF ControlStep, TablesOK, MonOK, EaOK
<1>2. LoopOK'
  BY InvLoop, EmptySeq, AutonomyBounds DEF ControlStep, LoopOK
<1>3. RaisedInSafe'
  BY InvLoop DEF ControlStep, RaisedInSafe
<1>4. (~ea.on /\ pc = "s19" => batch = << >>)'
  BY DEF ControlStep
<1> QED
  BY <1>1, <1>2, <1>3, <1>4, Assemble

LEMMA DrainKeepsInv ==
  ASSUME AutIInv, Drain
  PROVE  AutIInv'
<1>1. TablesOK' /\ (tm \in 0 .. StoreCap)' /\ (overflow \in BOOLEAN)'
  <2>1. overflow' \in BOOLEAN
    BY Zenon DEF Drain
  <2>2. TablesOK'
    BY InvLoop DEF Drain, TablesOK, MonOK, EaOK, service
  <2>3. tm' \in 0 .. StoreCap
    BY AutonomyBounds DEF Drain
  <2> QED
    BY <2>1, <2>2, <2>3
<1>2. LoopOK' /\ RaisedInSafe'
  BY InvLoop DEF Drain, LoopOK, RaisedInSafe
<1>3. (~ea.on /\ pc = "s19" => batch = << >>)'
  BY DEF Drain
<1> QED
  BY <1>1, <1>2, <1>3, Assemble

(* What the report of a crossing does to the queue and to the mode         *)
LEMMA OnEventOK ==
  ASSUME EaOK, NEW e \in Nat, ea' = OnEvent(e)
  PROVE  EaOK' /\ ea'.on = ea.on /\ ea'.defs = ea.defs
<1>1. CASE ea' = ea
  BY <1>1 DEF EaOK
<1>2. CASE ea' # ea
  <2>1. ea.on /\ Len(ea.queue) < QueueLen /\ ea' = [ea EXCEPT !.queue = Append(@, e)]
    BY <1>2 DEF OnEvent
  <2>2. ea'.on = ea.on /\ ea'.defs = ea.defs /\ ea'.queue = Append(ea.queue, e)
    BY <2>1 DEF EaOK
  <2>3. ea'.queue \in Seq(Nat) /\ Len(ea'.queue) <= QueueLen
    BY <2>1, <2>2, AutonomyBounds DEF EaOK
  <2>4. ea' \in [on : BOOLEAN, defs : Seq(EaRows), queue : Seq(Nat)]
    BY <2>1, <2>2, <2>3 DEF EaOK
  <2> QED
    BY <2>1, <2>2, <2>3, <2>4 DEF EaOK
<1> QED
  BY <1>1, <1>2

LEMMA ReportOK ==
  ASSUME AutIInv, pc = "s12", NEW sev, NEW e \in Nat, S5Report(sev, e)
  PROVE  /\ fsm' \in FsmContexts /\ EaOK' /\ ea'.on = ea.on /\ ea'.defs = ea.defs
         /\ StoreGrows(1) /\ raised' \in BOOLEAN
         /\ raised' /\ ~overflow' => fsm'.mode = "SAFE"
<1>1. TypeOK /\ EaOK /\ fsm \in FsmContexts
  BY InvLoop DEF AutIInv, TablesOK
<1>2. fsm' \in FsmContexts /\ (fsm.mode = "SAFE" => fsm'.mode = "SAFE")
  BY <1>1, FsmMoves DEF S5Report, S5Mode
<1>3. EaOK' /\ ea'.on = ea.on /\ ea'.defs = ea.defs
  BY <1>1, OnEventOK DEF S5Report
<1>4. StoreGrows(1) /\ (~overflow' => tm + 1 <= StoreCap)
  BY <1>1, EmitGrows DEF S5Report
<1>5. raised' \in BOOLEAN
  BY DEF S5Report
<1>6. ASSUME raised', ~overflow' PROVE fsm'.mode = "SAFE"
  <2>1. ~overflow /\ tm < StoreCap
    BY <1>1, <1>4, <1>6, AutonomyBounds DEF StoreGrows, TypeOK
  <2>2. CASE raised
    BY <1>2, <2>1, <2>2, InvLoop DEF RaisedInSafe
  <2>3. CASE sev = HIGH /\ e \in Triggers
    BY <1>1, <2>1, <2>3, FsmMoves DEF S5Report, S5Mode
  <2> QED
    BY <1>6, <2>2, <2>3, Zenon DEF S5Report
<1> QED
  BY <1>2, <1>3, <1>4, <1>5, <1>6

LEMMA CheckRowLatches ==
  ASSUME AutIInv, CheckRow
  PROVE  SameLimits /\ mon'.on = mon.on
<1>1. MonOK /\ idx \in Nat
  BY InvLoop DEF TablesOK, LoopOK
<1> DEFINE d == mon.defs[idx + 1]
           below == val[d.param] < d.low
           above == val[d.param] > d.high
           row == [d EXCEPT !.inLow = below, !.inHigh = above]
           defs == [mon.defs EXCEPT ![idx + 1] = row]
<1>2. mon.defs \in Seq(MonRows) /\ mon.on \in BOOLEAN
  BY <1>1 DEF MonOK
<1>3. idx + 1 \in DOMAIN mon.defs /\ d \in MonRows
  BY <1>1, <1>2, SeqShape DEF CheckRow
<1>4. row \in MonRows /\ row.param = d.param
  <2>1. below \in BOOLEAN /\ above \in BOOLEAN
    OBVIOUS
  <2> HIDE DEF d, below, above
  <2> QED
    BY <1>3, <2>1, RowLatched, Zenon
<1>5. mon' = [mon EXCEPT !.defs[idx + 1] = row]
  BY Zenon DEF CheckRow
<1> HIDE DEF row
<1>6. mon' = [on |-> mon.on, defs |-> defs]
  BY <1>1, <1>5 DEF MonOK
<1>7. /\ defs \in [DOMAIN mon.defs -> MonRows]
      /\ \A i \in DOMAIN mon.defs : defs[i].param = mon.defs[i].param
  BY <1>2, <1>3, <1>4, SeqShape
<1> HIDE DEF defs
<1> QED
  BY <1>1, <1>2, <1>6, <1>7, Latched

LEMMA CheckRowKeepsInv ==
  ASSUME AutIInv, CheckRow
  PROVE  AutIInv'
<1>1. MonOK' /\ idx + 1 \in DOMAIN mon.defs /\ mon.defs[idx + 1] \in MonRows
  <2>1. MonOK /\ idx \in Nat
    BY InvLoop DEF TablesOK, LoopOK
  <2>2. mon.defs \in Seq(MonRows)
    BY <2>1 DEF MonOK
  <2>3. idx + 1 \in DOMAIN mon.defs /\ mon.defs[idx + 1] \in MonRows
    BY <2>1, <2>2, SeqShape DEF CheckRow
  <2> QED
    BY <2>1, <2>3, CheckRowLatches, SameLimitsOK
<1>2. pc = "s12" /\ UNCHANGED <<val, pc, batch>> /\ idx' = idx + 1
  BY DEF CheckRow
<1>3. (~ea.on /\ pc = "s19" => batch = << >>)'
  BY <1>2
<1>4. CASE UNCHANGED <<fsm, ea, tm, overflow, raised>>
  <2>1. TablesOK' /\ (tm \in 0 .. StoreCap)' /\ (overflow \in BOOLEAN)'
    BY <1>1, <1>2, <1>4, InvLoop DEF TablesOK, EaOK
  <2>2. LoopOK' /\ RaisedInSafe'
    BY <1>2, <1>4, InvLoop DEF LoopOK, RaisedInSafe
  <2> QED
    BY <1>3, <2>1, <2>2, Assemble
<1>5. CASE \E sev, e \in Nat : S5Report(sev, e)
  <2>1. PICK sev \in Nat, e \in Nat : S5Report(sev, e)
    BY <1>5
  <2>2. /\ fsm' \in FsmContexts /\ EaOK' /\ StoreGrows(1) /\ raised' \in BOOLEAN
        /\ raised' /\ ~overflow' => fsm'.mode = "SAFE"
    BY <1>2, <2>1, ReportOK
  <2>3. TablesOK' /\ (tm \in 0 .. StoreCap)' /\ (overflow \in BOOLEAN)'
    BY <1>1, <1>2, <2>2, InvLoop DEF TablesOK, StoreGrows
  <2>4. LoopOK' /\ RaisedInSafe'
    BY <1>2, <2>2, InvLoop DEF LoopOK, RaisedInSafe
  <2> QED
    BY <1>3, <2>3, <2>4, Assemble
<1> QED
  <2>1. mon.defs[idx + 1].sev \in Nat /\ mon.defs[idx + 1].evLow \in Nat
        /\ mon.defs[idx + 1].evHigh \in Nat
    BY <1>1 DEF MonRows, HIGH
  <2> QED
    BY <1>4, <1>5, <2>1, Zenon DEF CheckRow

LEMMA NextKeepsInv ==
  ASSUME AutIInv, [Next]_vars
  PROVE  AutIInv'
<1>1. CASE Next
  BY <1>1, UplinkKeepsInv, FrameKeepsInv, TakeBatchKeepsInv, RunActionKeepsInv,
     ControlStepKeepsInv, CheckRowKeepsInv, DrainKeepsInv DEF Next
<1>2. CASE UNCHANGED vars
  BY <1>2 DEF vars, service, AutIInv, TypeOK, ActionsParsed, OneDefinitionEach,
              DisabledMeansIdle, RaisedInSafe
<1> QED
  BY <1>1, <1>2

LEMMA InitInv == Init => AutIInv
<1> SUFFICES ASSUME Init PROVE AutIInv
  OBVIOUS
<1>1. fsm \in FsmContexts
  <2>1. FsmInit \in FsmContexts
    BY EntryAssumption DEF FsmInit, FsmContexts, Modes
  <2> QED
    BY <2>1, FsmMoves DEF Init
<1>2. TypeOK
  <2>1. mon \in [on : BOOLEAN, defs : Seq(MonRows)] /\ Len(mon.defs) = 0
    BY EmptySeq DEF Init
  <2>2. /\ ea \in [on : BOOLEAN, defs : Seq(EaRows), queue : Seq(Nat)]
        /\ ea.defs = << >> /\ Len(ea.defs) = 0 /\ Len(ea.queue) = 0
    BY EmptySeq DEF Init
  <2>3. batch \in Seq(Nat) /\ Len(batch) = 0
    BY EmptySeq DEF Init
  <2>4. overflow \in BOOLEAN /\ raised \in BOOLEAN
    BY Zenon DEF Init
  <2>5. \A i \in DOMAIN ea.defs : ea.defs[i].action.svc # 19
    BY <2>2, EmptySeq
  <2>6. val \in [Params -> Values] /\ tm = 0 /\ pc = "idle" /\ idx = 0
    BY DEF Init
  <2> QED
    BY <1>1, <2>1, <2>2, <2>3, <2>4, <2>5, <2>6, AutonomyBounds DEF TypeOK
<1>3. ActionsParsed /\ OneDefinitionEach /\ DisabledMeansIdle /\ RaisedInSafe
  BY DEF Init, ActionsParsed, OneDefinitionEach, DisabledMeansIdle, RaisedInSafe
<1> QED
  BY <1>2, <1>3 DEF AutIInv

(* The inductive invariant of the loop holds in every state.               *)
THEOREM AutonomyInvariant == Spec => []AutIInv
BY InitInv, NextKeepsInv, PTL DEF Spec
-----------------------------------------------------------------------------
(* No table, queue or batch of services 12 and 19 outgrows its array, and  *)
(* no action stored is one of service 19.                                  *)
THEOREM AutonomyTypes == Spec => []TypeOK
<1>1. AutIInv => TypeOK
  BY DEF AutIInv
<1> QED
  BY <1>1, AutonomyInvariant, PTL

(* find_def of s12.c and of s19.c name the only candidate.                 *)
THEOREM OneCandidate == Spec => []OneDefinitionEach
<1>1. AutIInv => OneDefinitionEach
  BY DEF AutIInv
<1> QED
  BY <1>1, AutonomyInvariant, PTL

(* SRS-304: a disabled service 19 has nothing queued and nothing running.  *)
THEOREM DisabledIsIdle == Spec => []DisabledMeansIdle
<1>1. AutIInv => DisabledMeansIdle
  BY DEF AutIInv
<1> QED
  BY <1>1, AutonomyInvariant, PTL

(* SRS-111 and SRS-295 for any size of the store: a HIGH safe-trigger      *)
(* event leads to SAFE unless a packet of the same tick was lost.          *)
THEOREM TriggerSafe == Spec => []TriggerEntersSafe
<1>1. AutIInv => TriggerEntersSafe
  BY DEF AutIInv, RaisedInSafe, TriggerEntersSafe
<1> QED
  BY <1>1, AutonomyInvariant, PTL

-----------------------------------------------------------------------------
(* SRS-182                                                                 *)

Watched == [i \in DOMAIN mon.defs |-> mon.defs[i].param]

LEMMA ConfigKept ==
  ASSUME AutIInv, [Next]_vars, fsm.mode # "NOMINAL"
  PROVE  mon'.on = mon.on /\ ea'.on = ea.on /\ ea'.defs = ea.defs /\ Watched' = Watched
<1>1. CASE mon' = mon /\ ea'.on = ea.on /\ ea'.defs = ea.defs
  BY <1>1 DEF Watched
<1>2. CASE \E tc : WellFormed(tc) /\ Feed(tc)
  BY <1>1, <1>2, FeedEffect
<1>3. CASE \E tc \in Tcs : Uplink(tc) \/ Scheduled(tc)
  BY <1>2, <1>3, ArgumentAssumption DEF Uplink, Scheduled
<1>4. CASE RunAction
  <2>1. CASE UNCHANGED <<service, tm, overflow>>
    BY <1>1, <2>1 DEF service
  <2>2. CASE \E i \in DOMAIN ea.defs : Feed(ea.defs[i].action)
    <3>1. \A i \in DOMAIN ea.defs : WellFormed(ea.defs[i].action)
      BY InvLoop DEF TablesOK, EaOK
    <3> QED
      BY <1>2, <2>2, <3>1
  <2> QED
    BY <1>4, <2>1, <2>2 DEF RunAction
<1>5. CASE TakeBatch
  <2>1. ea'.on = ea.on /\ ea'.defs = ea.defs
    BY <1>5, InvLoop DEF TakeBatch, TablesOK, EaOK
  <2> QED
    BY <1>1, <1>5, <2>1 DEF TakeBatch
<1>6. CASE CheckRow
  <2>1. SameLimits /\ mon'.on = mon.on
    BY <1>6, CheckRowLatches
  <2>2. Watched' = Watched
    BY <2>1 DEF SameLimits, Watched
  <2>3. mon.defs[idx + 1].evLow \in Nat /\ mon.defs[idx + 1].evHigh \in Nat
    <3>1. mon.defs \in Seq(MonRows) /\ idx \in Nat
      BY InvLoop DEF TablesOK, MonOK, LoopOK
    <3>2. mon.defs[idx + 1] \in MonRows
      BY <1>6, <3>1, SeqShape DEF CheckRow
    <3> QED
      BY <3>2 DEF MonRows
  <2>4. ea' = ea \/ \E e \in Nat : ea' = OnEvent(e)
    BY <1>6, <2>3, Zenon DEF CheckRow, S5Report
  <2>5. ea'.on = ea.on /\ ea'.defs = ea.defs
    BY <2>4, OnEventOK, InvLoop DEF TablesOK
  <2> QED
    BY <2>1, <2>2, <2>5
<1>7. CASE MalformedFrame \/ SensorFrame \/ ControlStep \/ CheckEnd \/ Drain
  BY <1>1, <1>7 DEF MalformedFrame, SensorFrame, ControlStep, CheckEnd, Drain, service
<1>8. CASE UNCHANGED vars
  BY <1>1, <1>8 DEF vars, service
<1> QED
  BY <1>3, <1>4, <1>5, <1>6, <1>7, <1>8 DEF Next

(* Services 12 and 19 are reconfigured in NOMINAL only, also by a command  *)
(* that was scheduled or queued as an action before the mode changed.      *)
THEOREM OnlyInNominal == Spec => ReconfiguredOnlyInNominal
<1>1. ASSUME AutIInv, [Next]_vars
      PROVE  [<<mon.on, ea.on, ea.defs, [i \in DOMAIN mon.defs |-> mon.defs[i].param]>>'
                # <<mon.on, ea.on, ea.defs, [i \in DOMAIN mon.defs |-> mon.defs[i].param]>>
              => fsm.mode = "NOMINAL"]_vars
  BY <1>1, ConfigKept, Zenon DEF Watched
<1> QED
  BY <1>1, AutonomyInvariant, PTL DEF Spec, ReconfiguredOnlyInNominal

=============================================================================
