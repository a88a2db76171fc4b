------------------------------ MODULE Services ------------------------------
(***************************************************************************)
(* The telecommand handlers of the single-threaded builds as operators: a  *)
(* handler takes the board (everything a telecommand can change) and       *)
(* returns it.  Among it is the TM store, a queue of at most StoreCap      *)
(* packets that drops what does not fit.                                   *)
(*                                                                         *)
(* A packet is <<service, subservice, data>>.  A telecommand is a record   *)
(* of service, subservice and argument; it is Malformed when the packet    *)
(* does not parse, and its argument is Short when the user data field is   *)
(* shorter than the handler needs.                                         *)
(***************************************************************************)
EXTENDS Fsm, Obt, Sequences, FiniteSets

CONSTANTS
  StoreCap,     \* packets the TM store holds: OBSW_TM_STORE_SLOTS - 1
  Bytes,        \* values of a memory cell
  Cells,        \* local memory cells, a range of integers
  Addresses,    \* ground addresses, 0 .. 2^32 - 1 in the code
  Regions,      \* the S6 region table: [start, size, base, access]
  MaxDump,      \* S6_MAX_DUMP_DATA
  Crc(_),       \* obsw_crc16_ccitt of a sequence of bytes
  Params,       \* parameters of the S20 table
  Values,       \* values of a parameter
  HkInterval,   \* interval_ticks of the HK set at start-up
  HkSet         \* its set_id

ASSUME RegionAssumption ==
  /\ Cells \subseteq Int /\ Addresses \subseteq Nat
  /\ Regions \in Seq([start : Addresses, size : Nat, base : Int,
                      access : SUBSET {"read", "write"}])

(* Bytes and parameters are numbers, and a region lies in the memory.      *)
ASSUME MemoryAssumption ==
  /\ Bytes \subseteq Int /\ Values \subseteq Int /\ 0 \in Bytes /\ 0 \in Values
  /\ \A i \in DOMAIN Regions :
       Regions[i].base .. Regions[i].base + Regions[i].size - 1 \subseteq Cells
  /\ StoreCap \in Nat /\ HkSet \in Int /\ HkInterval \in Nat

Malformed == [svc |-> 0, sub |-> 0, arg |-> << >>]
Short == << >>

(* Failure codes of TM(1,2) and TM(1,8), s1.h                              *)
IllegalService == 2
IllegalSubservice == 3
ExecError == 4
IllegalData == 5
MemAccess == 6
ModeGated == 7
-----------------------------------------------------------------------------
(* Seeded faults: plausible slips in the definitions they stand in for;    *)
(* no specification uses them.                                             *)

BadGrants(r, addr, len, access) ==      \* the end of the range may wrap
  /\ access \in r.access
  /\ addr >= r.start
  /\ (addr + len) % Cardinality(Addresses) <= r.start + r.size

BadRoom(b) == Len(b.store) <= StoreCap  \* one packet too many

BadSucceed(work) == work                \* no report of the completion
-----------------------------------------------------------------------------
(* Telemetry                                                               *)

(* obsw_pus_tm_build: the packet is dropped when the store is full, and no *)
(* caller but service 5 looks at the result.                               *)
Room(b) == Len(b.store) < StoreCap
Emit(b, pkt) == IF Room(b) THEN [b EXCEPT !.store = Append(@, pkt)] ELSE b

(* obsw_s1_accept_failure: the handler returns after it.                   *)
Refuse(b, code) == Emit(b, <<1, 2, <<code>>>>)

(* obsw_s1_accept_success, before the work is done                         *)
Accept(b) == Emit(b, <<1, 1, << >>>>)

(* obsw_s1_completion_success and _failure, on the board the work left     *)
Succeed(work) == Emit(work, <<1, 7, << >>>>)
Fail(work) == Emit(work, <<1, 8, <<ExecError>>>>)

(* obsw_s5_report without its event hook: the mode changes only if the     *)
(* event was stored.                                                       *)
S5Report(b, severity, trigger) ==
  LET sent == Emit(b, <<5, severity, << >>>>) IN
    IF Room(b) /\ severity = 4 /\ trigger
    THEN [sent EXCEPT !.fsm = FsmToSafe(@)]
    ELSE sent
-----------------------------------------------------------------------------
(* Handlers                                                                *)

(* obsw_s17_ping                                                           *)
S17Ping(b, a) == Succeed(Emit(Accept(b), <<17, 2, << >>>>))

(* obsw_s8_perform with the functions of the reference builds; the         *)
(* argument is <<function>>, and Short also when args_len claims more than *)
(* the telecommand carries.                                                *)
Perform(f, fn) ==
  CASE fn = 1 -> FsmToNominal(f)
    [] fn = 2 -> FsmToSafe(f)
    [] OTHER  -> FsmToStandby(f)

S8Perform(b, a, functions) ==
  IF a = Short THEN Refuse(b, IllegalData)
  ELSE IF a[1] \notin functions THEN Refuse(b, ExecError)
  ELSE Succeed([Accept(b) EXCEPT !.fsm = Perform(@, a[1])])

(* obsw_s9_set_obt, argument <<coarse, fine>>                              *)
S9SetObt(b, a) ==
  IF a = Short THEN Refuse(b, IllegalData)
  ELSE Succeed([Accept(b) EXCEPT !.obt = ObtSet(a[1], a[2])])

(* obsw_s20_set, argument <<parameter, value>>                             *)
S20Set(b, a) ==
  IF a = Short THEN Refuse(b, IllegalData)
  ELSE IF a[1] \notin Params THEN Refuse(b, ExecError)
  ELSE Succeed([Accept(b) EXCEPT !.par[a[1]] = a[2]])

(* obsw_s20_get, argument <<parameter>>, answers TM(20,2)                  *)
S20Get(b, a) ==
  IF a = Short THEN Refuse(b, IllegalData)
  ELSE IF a[1] \notin Params THEN Refuse(b, ExecError)
  ELSE Succeed(Emit(Accept(b), <<20, 2, <<b.par[a[1]]>>>>))

(* obsw_s3_enable, argument <<set, interval>>, and obsw_s3_disable         *)
S3Enable(b, a) ==
  IF a = Short THEN Refuse(b, IllegalData)
  ELSE IF a[1] # HkSet THEN Refuse(b, ExecError)
  ELSE Succeed([Accept(b) EXCEPT !.hk = [on |-> TRUE, every |-> a[2], left |-> a[2]]])

S3Disable(b, a) ==
  IF a = Short THEN Refuse(b, IllegalData)
  ELSE IF a[1] # HkSet THEN Refuse(b, ExecError)
  ELSE Succeed([Accept(b) EXCEPT !.hk.on = FALSE])

(* obsw_s3_tick for the one set                                            *)
S3Tick(b) ==
  LET left == IF b.hk.left > 0 THEN b.hk.left - 1 ELSE 0 IN
    IF ~b.hk.on \/ b.hk.every = 0 THEN b
    ELSE IF left > 0 THEN [b EXCEPT !.hk.left = left]
    ELSE Emit([b EXCEPT !.hk.left = b.hk.every], <<3, 25, <<HkSet>>>>)
-----------------------------------------------------------------------------
(* Service 6                                                               *)

(* s6_resolve: the bounds test as the code writes it, and the first region *)
(* that passes it                                                          *)
Grants(r, addr, len, access) ==
  /\ access \in r.access
  /\ addr >= r.start
  /\ addr - r.start <= r.size
  /\ len <= r.size - (addr - r.start)

Granting(addr, len, access) ==
  {i \in DOMAIN Regions : Grants(Regions[i], addr, len, access)}

Served(addr, len, access) == Granting(addr, len, access) # {}

Resolve(addr, len, access) ==
  LET found == Granting(addr, len, access)
      i     == CHOOSE i \in found : \A j \in found : i <= j
  IN  Regions[i].base + (addr - Regions[i].start)

ReadFrom(b, cell, len) == [k \in 1 .. len |-> b.mem[cell + k - 1]]
Written(mem, cell, len, data) ==
  [c \in Cells |-> IF c \in cell .. cell + len - 1 THEN data[c - cell + 1] ELSE mem[c]]

(* obsw_s6_load, argument <<addr, data_len, data>>                         *)
S6Load(b, a) ==
  IF a = Short THEN Refuse(b, IllegalData)
  ELSE IF a[2] > Len(a[3]) THEN Refuse(b, IllegalData)
  ELSE IF ~Served(a[1], a[2], "write") THEN Refuse(b, MemAccess)
  ELSE LET cell == Resolve(a[1], a[2], "write") IN
         Succeed([Accept(b) EXCEPT !.mem = Written(@, cell, a[2], a[3])])

(* obsw_s6_check, argument <<addr, length, expected_crc>>: TM(6,10), or    *)
(* TM(6,11) and a failed completion                                        *)
S6Check(b, a) ==
  IF a = Short THEN Refuse(b, IllegalData)
  ELSE IF ~Served(a[1], a[2], "read") THEN Refuse(b, MemAccess)
  ELSE LET actual == Crc(ReadFrom(b, Resolve(a[1], a[2], "read"), a[2])) IN
         IF actual = a[3]
         THEN Succeed(Emit(Accept(b), <<6, 10, << >>>>))
         ELSE Fail(Emit(Accept(b), <<6, 11, <<actual>>>>))

(* obsw_s6_dump, argument <<addr, length>>: TM(6,6)                        *)
S6Dump(b, a) ==
  IF a = Short THEN Refuse(b, IllegalData)
  ELSE IF a[2] > MaxDump THEN Refuse(b, IllegalData)
  ELSE IF ~Served(a[1], a[2], "read") THEN Refuse(b, MemAccess)
  ELSE Succeed(Emit(Accept(b), <<6, 6, ReadFrom(b, Resolve(a[1], a[2], "read"), a[2])>>))
-----------------------------------------------------------------------------
(* The dispatcher                                                          *)

Is(tc, svc, sub) == tc.svc = svc /\ tc.sub = sub

(* The handler of a route                                                  *)
Handle(b, tc, functions) ==
  CASE Is(tc, 17, 1)  -> S17Ping(b, tc.arg)
    [] Is(tc, 8, 1)   -> S8Perform(b, tc.arg, functions)
    [] Is(tc, 9, 128) -> S9SetObt(b, tc.arg)
    [] Is(tc, 20, 1)  -> S20Set(b, tc.arg)
    [] Is(tc, 20, 3)  -> S20Get(b, tc.arg)
    [] Is(tc, 3, 5)   -> S3Enable(b, tc.arg)
    [] Is(tc, 3, 6)   -> S3Disable(b, tc.arg)
    [] Is(tc, 6, 2)   -> S6Load(b, tc.arg)
    [] Is(tc, 6, 5)   -> S6Check(b, tc.arg)
    [] OTHER          -> S6Dump(b, tc.arg)

(* A telecommand is refused by the gate before its route is looked up.     *)
Allowed(b, tc, gated) == gated => FsmTcAllowed(b.fsm, <<tc.svc, tc.sub>>)

Unrouted(tc, routes) ==
  IF \E r \in routes : r[1] = tc.svc THEN IllegalSubservice ELSE IllegalService

(* Seeded fault: the gate's refusal is reported, and then the telecommand  *)
(* is handled all the same.                                                *)
BadFeed(b, tc, routes, gated, functions) ==
  IF tc = Malformed THEN b
  ELSE LET c == IF Allowed(b, tc, gated) THEN b ELSE Refuse(b, ModeGated) IN
         IF <<tc.svc, tc.sub>> \in routes
         THEN Handle(c, tc, functions)
         ELSE Refuse(c, Unrouted(tc, routes))

(* obsw_tc_dispatcher_feed: a packet that does not parse is dropped in     *)
(* silence.                                                                *)
Feed(b, tc, routes, gated, functions) ==
  IF tc = Malformed THEN b
  ELSE IF ~Allowed(b, tc, gated) THEN Refuse(b, ModeGated)
  ELSE IF <<tc.svc, tc.sub>> \in routes THEN Handle(b, tc, functions)
  ELSE Refuse(b, Unrouted(tc, routes))

=============================================================================
