-------------------------- MODULE SuperloopProofs ---------------------------
(***************************************************************************)
(* Theorems about the single-threaded builds, for every region table, set  *)
(* of telecommands, store size and resolution of on-board time.            *)
(***************************************************************************)
EXTENDS Superloop, WellFoundedInduction, TLAPS
-----------------------------------------------------------------------------
(* obsw_obt_advance neither loses nor gains time.                          *)

(* Division with remainder                                                 *)
LEMMA DivMod ==
  ASSUME NEW n \in Nat, NEW d \in Nat \ {0}
  PROVE  /\ n \div d \in Nat /\ n % d \in 0 .. d - 1
         /\ n = (n \div d) * d + (n % d)
BY SMT

(* The remainder is determined by its range.                               *)
LEMMA ModUnique ==
  ASSUME NEW n \in Nat, NEW d \in Nat \ {0}, NEW k \in Nat, NEW r \in 0 .. d - 1,
         n = k * d + r
  PROVE  n % d = r
<1>1. n = (n \div d) * d + (n % d) /\ n \div d \in Nat /\ n % d \in 0 .. d - 1
  BY DivMod
<1> DEFINE q == n \div d
<1> DEFINE m == n % d
<1>2. q \in Nat /\ m \in 0 .. d - 1 /\ n = q * d + m
  BY <1>1
<1> HIDE DEF q, m
<1>3. (q - k) * d = r - m
  BY <1>2, SMT
<1>4. q - k < 1
  <2>1. SUFFICES ASSUME q - k >= 1 PROVE FALSE
    BY <1>2, SMT
  <2>2. (q - k) * d >= d
    BY <1>2, <2>1, SMT
  <2> QED
    BY <1>2, <1>3, <2>2, SMT
<1>5. q - k > -1
  <2>1. SUFFICES ASSUME k - q >= 1 PROVE FALSE
    BY <1>2, SMT
  <2>2. (k - q) * d >= d
    BY <1>2, <2>1, SMT
  <2> QED
    BY <1>2, <1>3, <2>2, SMT
<1>6. q = k
  BY <1>2, <1>4, <1>5, SMT
<1>7. m = r
  BY <1>2, <1>6, SMT
<1> QED
  BY <1>7 DEF m

(* obsw_obt_advance (obt.c:7): the new time is in range and stands for the *)
(* old instant plus the step, up to the wrap of the seconds; no            *)
(* intermediate sum wraps for a step below FineUnits milliseconds.         *)
LEMMA ObtAdvanceExact ==
  ASSUME NEW o \in Times, NEW dt \in 0 .. FineUnits - 1
  PROVE  /\ ObtAdvance(o, dt) \in Times
         /\ Instant(ObtAdvance(o, dt)) = (Instant(o) + dt * FineUnits) % Span
<1> DEFINE F == FineUnits
<1> DEFINE M == Millis
<1> DEFINE C == CoarseRange
<1>0. F \in Nat \ {0} /\ M \in Nat \ {0} /\ M <= F /\ C \in Nat \ {0}
  BY ObtAssumption
<1>1. o.coarse \in 0 .. C - 1 /\ o.fine \in 0 .. F - 1 /\ o.rem \in 0 .. M - 1
  BY DEF Times
<1> DEFINE scaled == dt * F + o.rem
<1> DEFINE q == scaled \div M
<1> DEFINE r == scaled % M
<1> DEFINE fine == o.fine + q
<1> DEFINE s == fine \div F
<1> DEFINE f == fine % F
<1> DEFINE c == (o.coarse + s) % C
<1> DEFINE k == (o.coarse + s) \div C
<1>2. scaled \in Nat /\ scaled < Word
  <2>1. dt * F \in Nat /\ dt * F <= (F - 1) * F
    BY <1>0, SMT
  <2>2. (F - 1) * F + F = F * F
    BY <1>0, SMT
  <2> QED
    BY <1>0, <1>1, <2>1, <2>2, SMT DEF Word
<1>3. (dt * FineUnits + o.rem) % Word = scaled
  <2>1. Word \in Nat \ {0}
    BY <1>0, SMT DEF Word
  <2> QED
    BY <1>2, <2>1, SMT
<1>4. ObtAdvance(o, dt) = [coarse |-> c, fine |-> f, rem |-> r]
  BY <1>3 DEF ObtAdvance
<1> HIDE DEF F, M, C
<1>5. q \in Nat /\ r \in 0 .. M - 1 /\ scaled = q * M + r
  BY <1>0, <1>2, DivMod
<1>6. fine \in Nat /\ s \in Nat /\ f \in 0 .. F - 1 /\ fine = s * F + f
  <2>1. fine \in Nat
    BY <1>1, <1>5
  <2> QED
    BY <1>0, <2>1, DivMod
<1>7. k \in Nat /\ c \in 0 .. C - 1 /\ o.coarse + s = k * C + c
  <2>1. o.coarse + s \in Nat
    BY <1>1, <1>6
  <2> QED
    BY <1>0, <2>1, DivMod
<1>8. ObtAdvance(o, dt) \in Times
  BY <1>4, <1>5, <1>6, <1>7 DEF Times, F, M, C
<1> DEFINE before == Instant(o) + dt * FineUnits
<1> DEFINE after == Instant(ObtAdvance(o, dt))
<1>9. after = (c * F + f) * M + r
  BY <1>4 DEF Instant, F, M
<1>10. before = k * Span + after
  <2>1. before = (o.coarse * F + o.fine) * M + o.rem + dt * F
    BY DEF Instant, F, M
  <2> HIDE DEF before, after
  <2> DEFINE a == o.coarse
  <2> DEFINE b == o.fine
  <2> DEFINE e == o.rem
  <2>2. a \in Int /\ b \in Int /\ e \in Int
    BY <1>1
  <2>3. before = (a * F + b) * M + e + dt * F
    BY <2>1
  <2>4. dt * F + e = q * M + r
    BY <1>5
  <2>5. b + q = s * F + f
    BY <1>6
  <2>6. a + s = k * C + c
    BY <1>7
  <2> HIDE DEF a, b, e, scaled, q, r, fine, s, f, c, k
  <2>7. before = (a * F + b + q) * M + r
    BY <1>0, <1>5, <2>2, <2>3, <2>4, SMT
  <2>8. before = ((a + s) * F + f) * M + r
    <3>1. a * F + b + q = (a + s) * F + f
      BY <1>0, <1>5, <1>6, <2>2, <2>5, SMT
    <3> QED
      BY <2>7, <3>1
  <2>9. (a + s) * F + f = k * C * F + (c * F + f)
    BY <1>0, <1>6, <1>7, <2>2, <2>6, SMT
  <2>10. before = k * (C * F * M) + ((c * F + f) * M + r)
    <3> DEFINE x == k * C * F
    <3> DEFINE y == c * F + f
    <3>1. x \in Int /\ y \in Int
      BY <1>0, <1>6, <1>7, SMT
    <3>2. before = (x + y) * M + r
      BY <2>8, <2>9
    <3>3. x * M = k * (C * F * M)
      BY <1>0, <1>7, SMT
    <3> HIDE DEF x
    <3>4. before = x * M + (y * M + r)
      <4> HIDE DEF y
      <4> QED
        BY <1>0, <1>5, <3>1, <3>2, SMT
    <3> QED
      BY <3>3, <3>4
  <2> QED
    BY <1>9, <2>10 DEF Span, F, M, C
<1>11. after \in 0 .. Span - 1 /\ Span \in Nat \ {0}
  <2> HIDE DEF scaled, q, r, fine, s, f, c, k, after
  <2> DEFINE y == c * F + f
  <2>1. y \in 0 .. C * F - 1
    <3>1. c * F \in Nat /\ c * F <= (C - 1) * F
      BY <1>0, <1>7, SMT
    <3>2. (C - 1) * F + F = C * F
      BY <1>0, SMT
    <3> QED
      BY <1>0, <1>6, <3>1, <3>2, SMT
  <2> DEFINE z == C * F
  <2>2. z \in Nat /\ y \in 0 .. z - 1
    BY <1>0, <2>1, SMT
  <2>3. after = y * M + r
    BY <1>9
  <2>4. Span = z * M
    BY DEF Span, F, M, C
  <2> HIDE DEF y, z
  <2>5. y * M \in Nat /\ y * M <= (z - 1) * M
    BY <1>0, <2>2, SMT
  <2>6. (z - 1) * M + M = z * M
    BY <1>0, <2>2, SMT
  <2> QED
    BY <1>0, <1>5, <2>2, <2>3, <2>4, <2>5, <2>6, SMT
<1>12. before \in Nat
  BY <1>7, <1>10, <1>11, SMT
<1>13. before % Span = after
  <2> HIDE DEF before, after, k
  <2> QED
    BY <1>7, <1>10, <1>11, <1>12, ModUnique
<1> QED
  BY <1>8, <1>13
-----------------------------------------------------------------------------
(* The handlers: mode, memory and time                                     *)

(* c is b but for parameters, housekeeping and the store.                  *)
Keeps(b, c) == IsBoard(c) /\ c.fsm = b.fsm /\ c.mem = b.mem /\ c.obt = b.obt

(* obsw_pus_tm_build touches only the store.                               *)
LEMMA EmitKeeps ==
  ASSUME NEW b, NEW pkt, IsBoard(b)
  PROVE  Keeps(b, Emit(b, pkt))
BY DEF Keeps, IsBoard, Emit

(* So do the verification reports.                                         *)
LEMMA ReportsKeep ==
  ASSUME NEW b, IsBoard(b)
  PROVE  /\ \A code : Keeps(b, Refuse(b, code))
         /\ Keeps(b, Accept(b)) /\ Keeps(b, Succeed(b)) /\ Keeps(b, Fail(b))
BY EmitKeeps DEF Refuse, Accept, Succeed, Fail

(* One field of the board is assigned: the mode machine                    *)
LEMMA SetFsm ==
  ASSUME NEW b, IsBoard(b), NEW v
  PROVE  /\ IsBoard([b EXCEPT !.fsm = v]) /\ [b EXCEPT !.fsm = v].fsm = v
         /\ [b EXCEPT !.fsm = v].mem = b.mem /\ [b EXCEPT !.fsm = v].obt = b.obt
BY DEF IsBoard

(* ... the memory                                                          *)
LEMMA SetMem ==
  ASSUME NEW b, IsBoard(b), NEW v
  PROVE  /\ IsBoard([b EXCEPT !.mem = v]) /\ [b EXCEPT !.mem = v].mem = v
         /\ [b EXCEPT !.mem = v].fsm = b.fsm /\ [b EXCEPT !.mem = v].obt = b.obt
BY DEF IsBoard

(* ... on-board time                                                       *)
LEMMA SetObt ==
  ASSUME NEW b, IsBoard(b), NEW v
  PROVE  /\ IsBoard([b EXCEPT !.obt = v]) /\ [b EXCEPT !.obt = v].obt = v
         /\ [b EXCEPT !.obt = v].fsm = b.fsm /\ [b EXCEPT !.obt = v].mem = b.mem
BY DEF IsBoard

(* ... or a field of no interest here.                                     *)
LEMMA SetRest ==
  ASSUME NEW b, IsBoard(b), NEW v
  PROVE  /\ Keeps(b, [b EXCEPT !.par = v])
         /\ Keeps(b, [b EXCEPT !.hk = v])
         /\ Keeps(b, [b EXCEPT !.store = v])
BY DEF Keeps, IsBoard

(* A handler that only answers                                             *)
LEMMA AnswerKeeps ==
  ASSUME NEW b, IsBoard(b), NEW pkt
  PROVE  /\ Keeps(b, Succeed(Emit(Accept(b), pkt)))
         /\ Keeps(b, Fail(Emit(Accept(b), pkt)))
<1> DEFINE c == Emit(Accept(b), pkt)
<1>1. Keeps(b, Accept(b))
  BY ReportsKeep
<1>2. Keeps(Accept(b), c)
  BY <1>1, EmitKeeps DEF Keeps
<1> HIDE DEF c
<1>3. Keeps(c, Succeed(c)) /\ Keeps(c, Fail(c))
  BY <1>2, ReportsKeep DEF Keeps
<1>4. Keeps(b, Succeed(c)) /\ Keeps(b, Fail(c))
  BY <1>1, <1>2, <1>3 DEF Keeps
<1> QED
  BY <1>4 DEF c

(* obsw_s17_ping                                                           *)
LEMMA S17Effect ==
  ASSUME NEW b, IsBoard(b), NEW a
  PROVE  Keeps(b, S17Ping(b, a))
BY AnswerKeeps DEF S17Ping

(* obsw_s20_get and obsw_s20_set                                           *)
LEMMA S20Effect ==
  ASSUME NEW b, IsBoard(b), NEW a
  PROVE  Keeps(b, S20Get(b, a)) /\ Keeps(b, S20Set(b, a))
<1> DEFINE acc == Accept(b)
<1>0. Keeps(b, acc) /\ IsBoard(acc) /\ \A code : Keeps(b, Refuse(b, code))
  BY ReportsKeep DEF Keeps
<1> HIDE DEF acc
<1>1. Keeps(b, S20Get(b, a))
  BY ReportsKeep, AnswerKeeps DEF S20Get
<1>2. Keeps(b, S20Set(b, a))
  <2> DEFINE c == [acc EXCEPT !.par[a[1]] = a[2]]
  <2>1. Keeps(acc, c)
    BY <1>0 DEF Keeps, IsBoard
  <2> HIDE DEF c
  <2>2. Keeps(b, Succeed(c))
    BY <1>0, <2>1, ReportsKeep DEF Keeps
  <2> QED
    BY <1>0, <2>2 DEF S20Set, c, acc
<1> QED
  BY <1>1, <1>2

(* obsw_s3_enable and obsw_s3_disable                                      *)
LEMMA S3Effect ==
  ASSUME NEW b, IsBoard(b), NEW a
  PROVE  Keeps(b, S3Enable(b, a)) /\ Keeps(b, S3Disable(b, a))
<1> DEFINE acc == Accept(b)
<1>0. Keeps(b, acc) /\ IsBoard(acc) /\ \A code : Keeps(b, Refuse(b, code))
  BY ReportsKeep DEF Keeps
<1> HIDE DEF acc
<1>1. Keeps(b, S3Enable(b, a))
  <2> DEFINE c == [acc EXCEPT !.hk = [on |-> TRUE, every |-> a[2], left |-> a[2]]]
  <2>1. Keeps(acc, c)
    BY <1>0, SetRest
  <2> HIDE DEF c
  <2>2. Keeps(b, Succeed(c))
    BY <1>0, <2>1, ReportsKeep DEF Keeps
  <2> QED
    BY <1>0, <2>2 DEF S3Enable, c, acc
<1>2. Keeps(b, S3Disable(b, a))
  <2> DEFINE v == [acc.hk EXCEPT !.on = FALSE]
  <2> DEFINE c == [acc EXCEPT !.hk = v]
  <2>1. Keeps(acc, c)
    <3> HIDE DEF v
    <3> QED
      BY <1>0, SetRest
  <2> HIDE DEF c
  <2>2. Keeps(b, Succeed(c))
    BY <1>0, <2>1, ReportsKeep DEF Keeps
  <2> QED
    BY <1>0, <2>2 DEF S3Disable, c, v, acc
<1> QED
  BY <1>1, <1>2

(* obsw_s6_check and obsw_s6_dump                                          *)
LEMMA S6Effect ==
  ASSUME NEW b, IsBoard(b), NEW a
  PROVE  Keeps(b, S6Check(b, a)) /\ Keeps(b, S6Dump(b, a))
<1>1. Keeps(b, S6Check(b, a))
  BY ReportsKeep, AnswerKeeps DEF S6Check
<1>2. Keeps(b, S6Dump(b, a))
  BY ReportsKeep, AnswerKeeps DEF S6Dump
<1> QED
  BY <1>1, <1>2

(* obsw_s8_perform runs a function of the table or changes nothing.        *)
LEMMA S8Effect ==
  ASSUME NEW b, IsBoard(b), NEW a, NEW functions
  PROVE  LET c == S8Perform(b, a, functions) IN
           /\ IsBoard(c) /\ c.mem = b.mem /\ c.obt = b.obt
           /\ c.fsm = b.fsm \/ (\E fn \in functions : c.fsm = Perform(b.fsm, fn))
<1> DEFINE acc == Accept(b)
<1> DEFINE v == Perform(acc.fsm, a[1])
<1> DEFINE d == [acc EXCEPT !.fsm = v]
<1>0. Keeps(b, acc) /\ IsBoard(acc) /\ \A code : Keeps(b, Refuse(b, code))
  BY ReportsKeep DEF Keeps
<1> HIDE DEF acc
<1>1. IsBoard(d) /\ d.mem = b.mem /\ d.obt = b.obt /\ d.fsm = Perform(b.fsm, a[1])
  <2>1. v = Perform(b.fsm, a[1])
    BY <1>0 DEF Keeps
  <2> HIDE DEF v
  <2> QED
    BY <1>0, <2>1, SetFsm DEF Keeps
<1> HIDE DEF d
<1>2. Keeps(d, Succeed(d))
  BY <1>1, ReportsKeep
<1>3. CASE a = Short
  BY <1>0, <1>3 DEF S8Perform, Keeps
<1>4. CASE a # Short /\ a[1] \notin functions
  BY <1>0, <1>4 DEF S8Perform, Keeps
<1>5. CASE a # Short /\ a[1] \in functions
  <2>1. S8Perform(b, a, functions) = Succeed(d)
    BY <1>5 DEF S8Perform, d, acc
  <2> QED
    BY <1>1, <1>2, <1>5, <2>1 DEF Keeps
<1> QED
  BY <1>3, <1>4, <1>5

(* obsw_s9_set_obt                                                         *)
LEMMA S9Effect ==
  ASSUME NEW b, IsBoard(b), NEW a
  PROVE  LET c == S9SetObt(b, a) IN
           /\ IsBoard(c) /\ c.mem = b.mem /\ c.fsm = b.fsm
           /\ c.obt = IF a = Short THEN b.obt ELSE ObtSet(a[1], a[2])
<1> DEFINE acc == Accept(b)
<1> DEFINE v == ObtSet(a[1], a[2])
<1> DEFINE d == [acc EXCEPT !.obt = v]
<1>0. Keeps(b, acc) /\ IsBoard(acc) /\ \A code : Keeps(b, Refuse(b, code))
  BY ReportsKeep DEF Keeps
<1> HIDE DEF acc
<1>1. IsBoard(d) /\ d.mem = b.mem /\ d.fsm = b.fsm /\ d.obt = v
  <2> HIDE DEF v
  <2> QED
    BY <1>0, SetObt DEF Keeps
<1> HIDE DEF d
<1>2. Keeps(d, Succeed(d))
  BY <1>1, ReportsKeep
<1>3. CASE a = Short
  BY <1>0, <1>3 DEF S9SetObt, Keeps
<1>4. CASE a # Short
  <2>1. S9SetObt(b, a) = Succeed(d)
    BY <1>4 DEF S9SetObt, d, acc
  <2> QED
    BY <1>1, <1>2, <1>4, <2>1 DEF Keeps
<1> QED
  BY <1>3, <1>4

(* obsw_s6_load writes where s6_resolve points, or nothing.                *)
LEMMA S6LoadEffect ==
  ASSUME NEW b, IsBoard(b), NEW a
  PROVE  LET c == S6Load(b, a) IN
           /\ IsBoard(c) /\ c.obt = b.obt /\ c.fsm = b.fsm
           /\ \/ c.mem = b.mem
              \/ /\ a # Short /\ Served(a[1], a[2], "write")
                 /\ c.mem = Written(b.mem, Resolve(a[1], a[2], "write"), a[2], a[3])
<1> DEFINE acc == Accept(b)
<1> DEFINE cell == Resolve(a[1], a[2], "write")
<1> DEFINE v == Written(acc.mem, cell, a[2], a[3])
<1> DEFINE d == [acc EXCEPT !.mem = v]
<1>0. Keeps(b, acc) /\ IsBoard(acc) /\ \A code : Keeps(b, Refuse(b, code))
  BY ReportsKeep DEF Keeps
<1> HIDE DEF acc
<1>1. /\ IsBoard(d) /\ d.obt = b.obt /\ d.fsm = b.fsm
      /\ d.mem = Written(b.mem, cell, a[2], a[3])
  <2>1. v = Written(b.mem, cell, a[2], a[3])
    BY <1>0 DEF Keeps
  <2> HIDE DEF v
  <2> QED
    BY <1>0, <2>1, SetMem DEF Keeps
<1> HIDE DEF d
<1>2. Keeps(d, Succeed(d))
  BY <1>1, ReportsKeep
<1>3. CASE a = Short \/ a[2] > Len(a[3]) \/ ~Served(a[1], a[2], "write")
  <2>1. \E code : S6Load(b, a) = Refuse(b, code)
    BY <1>3 DEF S6Load
  <2> QED
    BY <1>0, <2>1 DEF Keeps
<1>4. CASE ~(a = Short \/ a[2] > Len(a[3]) \/ ~Served(a[1], a[2], "write"))
  <2>1. S6Load(b, a) = Succeed(d)
    BY <1>4 DEF S6Load, d, acc
  <2> QED
    BY <1>1, <1>2, <1>4, <2>1 DEF Keeps
<1> QED
  BY <1>3, <1>4

(* What a telecommand can do to the mode, the memory and the time          *)
LEMMA HandleEffect ==
  ASSUME NEW b, IsBoard(b), NEW tc, NEW functions
  PROVE  LET c == Handle(b, tc, functions) IN
           /\ IsBoard(c)
           /\ c.fsm = b.fsm \/ (\E fn \in functions : c.fsm = Perform(b.fsm, fn))
           /\ c.obt = IF Is(tc, 9, 128) /\ tc.arg # Short
                      THEN ObtSet(tc.arg[1], tc.arg[2]) ELSE b.obt
           /\ \/ c.mem = b.mem
              \/ /\ Is(tc, 6, 2) /\ tc.arg # Short /\ Served(tc.arg[1], tc.arg[2], "write")
                 /\ c.mem = Written(b.mem, Resolve(tc.arg[1], tc.arg[2], "write"),
                                    tc.arg[2], tc.arg[3])
<1> DEFINE c == Handle(b, tc, functions)
<1>1. CASE Is(tc, 9, 128)
  <2>1. c = S9SetObt(b, tc.arg)
    BY <1>1 DEF Handle, Is
  <2> HIDE DEF c
  <2>2. /\ IsBoard(c) /\ c.mem = b.mem /\ c.fsm = b.fsm
        /\ c.obt = IF tc.arg = Short THEN b.obt ELSE ObtSet(tc.arg[1], tc.arg[2])
    BY <2>1, S9Effect
  <2> QED
    BY <1>1, <2>2 DEF c
<1>2. CASE Is(tc, 6, 2)
  <2>1. c = S6Load(b, tc.arg) /\ ~Is(tc, 9, 128)
    BY <1>2 DEF Handle, Is
  <2> HIDE DEF c
  <2>2. /\ IsBoard(c) /\ c.obt = b.obt /\ c.fsm = b.fsm
        /\ \/ c.mem = b.mem
           \/ /\ tc.arg # Short /\ Served(tc.arg[1], tc.arg[2], "write")
              /\ c.mem = Written(b.mem, Resolve(tc.arg[1], tc.arg[2], "write"),
                                 tc.arg[2], tc.arg[3])
    BY <2>1, S6LoadEffect
  <2> QED
    BY <1>2, <2>1, <2>2 DEF c
<1>3. CASE Is(tc, 8, 1)
  <2>1. c = S8Perform(b, tc.arg, functions) /\ ~Is(tc, 9, 128)
    BY <1>3 DEF Handle, Is
  <2> HIDE DEF c
  <2>2. /\ IsBoard(c) /\ c.mem = b.mem /\ c.obt = b.obt
        /\ c.fsm = b.fsm \/ (\E fn \in functions : c.fsm = Perform(b.fsm, fn))
    BY <2>1, S8Effect
  <2> QED
    BY <2>1, <2>2 DEF c
<1>4. CASE ~Is(tc, 9, 128) /\ ~Is(tc, 6, 2) /\ ~Is(tc, 8, 1)
  <2>1. c \in {S17Ping(b, tc.arg), S20Set(b, tc.arg), S20Get(b, tc.arg),
               S3Enable(b, tc.arg), S3Disable(b, tc.arg), S6Check(b, tc.arg),
               S6Dump(b, tc.arg)}
    BY <1>4 DEF Handle, Is
  <2>2. Keeps(b, c)
    BY <2>1, S17Effect, S20Effect, S3Effect, S6Effect
  <2> QED
    BY <1>4, <2>2 DEF Keeps
<1> QED
  BY <1>1, <1>2, <1>3, <1>4

(* The same behind the gate and the routing table                          *)
LEMMA FeedEffect ==
  ASSUME NEW b, IsBoard(b), NEW tc, NEW routes, NEW gated, NEW functions
  PROVE  LET c == Feed(b, tc, routes, gated, functions) IN
           /\ IsBoard(c)
           /\ c.fsm = b.fsm \/ (\E fn \in functions : c.fsm = Perform(b.fsm, fn))
           /\ c.obt = IF Is(tc, 9, 128) /\ tc.arg # Short /\ Allowed(b, tc, gated)
                           /\ <<9, 128>> \in routes
                      THEN ObtSet(tc.arg[1], tc.arg[2]) ELSE b.obt
           /\ \/ c.mem = b.mem
              \/ /\ Is(tc, 6, 2) /\ Allowed(b, tc, gated) /\ <<6, 2>> \in routes
                 /\ tc.arg # Short /\ Served(tc.arg[1], tc.arg[2], "write")
                 /\ c.mem = Written(b.mem, Resolve(tc.arg[1], tc.arg[2], "write"),
                                    tc.arg[2], tc.arg[3])
<1> DEFINE c == Feed(b, tc, routes, gated, functions)
<1>1. CASE tc = Malformed
  <2>1. c = b /\ ~Is(tc, 9, 128)
    BY <1>1 DEF Feed, Is, Malformed
  <2> QED
    BY <2>1
<1>2. CASE tc # Malformed /\ ~(Allowed(b, tc, gated) /\ <<tc.svc, tc.sub>> \in routes)
  <2>1. \E code : c = Refuse(b, code)
    BY <1>2 DEF Feed
  <2>2. Keeps(b, c)
    BY <2>1, ReportsKeep
  <2>3. ~(Is(tc, 9, 128) /\ Allowed(b, tc, gated) /\ <<9, 128>> \in routes)
    BY <1>2 DEF Is
  <2> QED
    BY <2>2, <2>3 DEF Keeps
<1>3. CASE tc # Malformed /\ Allowed(b, tc, gated) /\ <<tc.svc, tc.sub>> \in routes
  <2>1. c = Handle(b, tc, functions)
    BY <1>3 DEF Feed
  <2>2. /\ Is(tc, 9, 128) => <<9, 128>> \in routes
        /\ Is(tc, 6, 2) => <<6, 2>> \in routes
    BY <1>3 DEF Is
  <2> HIDE DEF c
  <2> QED
    BY <1>3, <2>1, <2>2, HandleEffect DEF c
<1> QED
  BY <1>1, <1>2, <1>3

(* A first region exists if any grants the access.                         *)
LEMMA FirstExists ==
  ASSUME NEW S \in SUBSET Nat, S # {}
  PROVE  \E i \in S : \A j \in S : i <= j
<1>1. PICK i \in S : \A j \in S : ~(<<j, i>> \in OpToRel(<, Nat))
  BY NatLessThanWellFounded, WFMin
<1>2. \A j \in S : ~(j < i)
  BY <1>1 DEF OpToRel
<1> QED
  BY <1>2

(* s6_resolve (s6.c:44): the cell belongs to a region that grants the      *)
(* access to the whole range.                                              *)
LEMMA ResolveSound ==
  ASSUME NEW addr, NEW len, NEW access, Served(addr, len, access)
  PROVE  \E i \in DOMAIN Regions :
           /\ Grants(Regions[i], addr, len, access)
           /\ Resolve(addr, len, access) = Regions[i].base + (addr - Regions[i].start)
<1> DEFINE found == Granting(addr, len, access)
<1> DEFINE i == CHOOSE k \in found : \A j \in found : k <= j
<1>1. found \in SUBSET Nat /\ found # {} /\ found \subseteq DOMAIN Regions
  BY RegionAssumption DEF Served, Granting
<1> HIDE DEF found
<1>2. i \in found
  BY <1>1, FirstExists
<1>3. Resolve(addr, len, access) = Regions[i].base + (addr - Regions[i].start)
  BY DEF Resolve, found
<1>4. Grants(Regions[i], addr, len, access) /\ i \in DOMAIN Regions
  BY <1>2 DEF found, Granting
<1> HIDE DEF i
<1> QED
  BY <1>3, <1>4

(* obsw_s3_tick                                                            *)
LEMMA S3TickKeeps ==
  ASSUME NEW b, IsBoard(b)
  PROVE  Keeps(b, S3Tick(b))
<1> DEFINE left == IF b.hk.left > 0 THEN b.hk.left - 1 ELSE 0
<1> DEFINE v == [b.hk EXCEPT !.left = left]
<1> DEFINE w == [b.hk EXCEPT !.left = b.hk.every]
<1> DEFINE c == [b EXCEPT !.hk = v]
<1> DEFINE d == [b EXCEPT !.hk = w]
<1>1. S3Tick(b) \in {b, c, Emit(d, <<3, 25, <<HkSet>>>>)}
  BY DEF S3Tick
<1> HIDE DEF v, w
<1>2. Keeps(b, c) /\ Keeps(b, d)
  BY SetRest
<1> HIDE DEF c, d
<1>3. Keeps(d, Emit(d, <<3, 25, <<HkSet>>>>))
  BY <1>2, EmitKeeps DEF Keeps
<1> QED
  BY <1>1, <1>2, <1>3 DEF Keeps

(* The control tick of the simulator advances the time once.               *)
LEMMA SimTickedEffect ==
  ASSUME IsBoard(board), NEW s
  PROVE  /\ IsBoard(SimTicked(s)) /\ SimTicked(s).mem = board.mem
         /\ SimTicked(s).obt = ObtAdvance(board.obt, s.dt)
<1> DEFINE v == [board.par EXCEPT ![Uptime] = s.time]
<1> DEFINE b == [board EXCEPT !.par = v]
<1> DEFINE o == ObtAdvance(board.obt, s.dt)
<1> DEFINE c == [b EXCEPT !.obt = o]
<1>1. SimTicked(s) = S3Tick(c)
  <2>1. [board EXCEPT !.par[Uptime] = s.time, !.obt = ObtAdvance(@, s.dt)] = c
    BY DEF IsBoard
  <2> QED
    BY <2>1 DEF SimTicked
<1> HIDE DEF v, o
<1>2. Keeps(board, b)
  BY SetRest
<1> HIDE DEF b
<1>3. IsBoard(c) /\ c.obt = o /\ c.mem = b.mem
  BY <1>2, SetObt DEF Keeps
<1> HIDE DEF c
<1> QED
  BY <1>1, <1>2, <1>3, S3TickKeeps DEF Keeps, o

(* Which builds know the telecommands that set the time and load memory    *)
LEMMA RouteFacts ==
  ASSUME build \in Builds
  PROVE  /\ <<9, 128>> \in Routes[build] <=> build = "sim"
         /\ <<6, 2>> \in Routes[build] => build = "sim"
         /\ build = "msp430" => Functions[build] = {1}
<1>1. build \in {"zynqmp", "msp430", "stm32", "sim"}
  BY BuildAssumption
<1>2. /\ <<9, 128>> \notin ZynqRoutes /\ <<6, 2>> \notin ZynqRoutes
      /\ <<9, 128>> \notin MspRoutes /\ <<6, 2>> \notin MspRoutes
      /\ <<9, 128>> \notin Stm32Routes /\ <<6, 2>> \notin Stm32Routes
      /\ <<9, 128>> \in SimRoutes
  BY DEF ZynqRoutes, MspRoutes, Stm32Routes, SimRoutes
<1>3. /\ Routes["zynqmp"] = ZynqRoutes /\ Routes["msp430"] = MspRoutes
      /\ Routes["stm32"] = Stm32Routes /\ Routes["sim"] = SimRoutes
      /\ Functions["msp430"] = {1}
  BY DEF Routes, Functions, MspFunctions
<1> QED
  BY <1>1, <1>2, <1>3

(* The drain loop                                                          *)
LEMMA DrainedKeeps ==
  ASSUME NEW b, IsBoard(b)
  PROVE  Keeps(b, Drained(b))
<1> DEFINE v == SubSeq(b.store, Sent(b) + 1, Len(b.store))
<1>1. Drained(b) = [b EXCEPT !.store = v]
  BY DEF Drained
<1> HIDE DEF v
<1>2. Keeps(b, [b EXCEPT !.store = v])
  BY SetRest, Zenon
<1> QED
  BY <1>1, <1>2, Zenon

(* The time after a telecommand is the one ClockAfter says.                *)
LEMMA FedClock ==
  ASSUME LoopIInv, NEW tc \in Tcs
  PROVE  /\ IsBoard(Fed(tc)) /\ Fed(tc).obt \in Times
         /\ Instant(Fed(tc).obt) = ClockAfter(tc)
<1>1. /\ IsBoard(board) /\ board.obt \in Times /\ Instant(board.obt) = clock
      /\ build \in Builds
  BY DEF LoopIInv, ClockExact
<1>2. /\ IsBoard(Fed(tc))
      /\ Fed(tc).obt = IF Is(tc, 9, 128) /\ tc.arg # Short /\ Allowed(board, tc, Gated(build))
                          /\ <<9, 128>> \in Routes[build]
                       THEN ObtSet(tc.arg[1], tc.arg[2]) ELSE board.obt
  BY <1>1, FeedEffect DEF Fed
<1>3. build = "sim" => Gated(build) = TRUE
  BY DEF Gated
<1>4. CASE build = "sim" /\ Is(tc, 9, 128) /\ tc.arg # Short /\ Allowed(board, tc, TRUE)
  <2>1. Fed(tc).obt = ObtSet(tc.arg[1], tc.arg[2])
    BY <1>1, <1>2, <1>3, <1>4, RouteFacts
  <2>2. tc.arg[1] \in 0 .. CoarseRange - 1 /\ tc.arg[2] \in 0 .. FineUnits - 1
    BY <1>4, TcAssumption
  <2> DEFINE x == tc.arg[1]
  <2> DEFINE y == tc.arg[2]
  <2>3. ClockAfter(tc) = (x * FineUnits + y) * Millis
    BY <1>4 DEF ClockAfter
  <2> HIDE DEF x, y
  <2>4. x \in 0 .. CoarseRange - 1 /\ y \in 0 .. FineUnits - 1
    BY <2>2 DEF x, y
  <2>5. Fed(tc).obt = [coarse |-> x, fine |-> y, rem |-> 0]
    BY <2>1 DEF ObtSet, x, y
  <2>6. Fed(tc).obt \in Times
    BY <2>4, <2>5, ObtAssumption DEF Times
  <2>7. Instant(Fed(tc).obt) = (x * FineUnits + y) * Millis + 0
    BY <2>5 DEF Instant
  <2>8. (x * FineUnits + y) * Millis \in Int
    BY <2>4, ObtAssumption
  <2> QED
    BY <1>2, <2>3, <2>6, <2>7, <2>8
<1>5. CASE ~(build = "sim" /\ Is(tc, 9, 128) /\ tc.arg # Short /\ Allowed(board, tc, TRUE))
  <2>1. Fed(tc).obt = board.obt
    BY <1>1, <1>2, <1>3, <1>5, RouteFacts
  <2>2. ClockAfter(tc) = clock
    BY <1>5 DEF ClockAfter
  <2> QED
    BY <1>1, <1>2, <2>1, <2>2
<1> QED
  BY <1>4, <1>5

(* Every main() hands its loop a board that satisfies the invariant.       *)
LEMMA InitLoop == Init => LoopIInv
<1> SUFFICES ASSUME Init PROVE LoopIInv
  OBVIOUS
<1>1. build \in Builds /\ build \in {"zynqmp", "msp430", "stm32", "sim"} /\ board = Boot[build]
  BY BuildAssumption DEF Init
<1>2. \A f, st : /\ IsBoard(Fresh(f, st)) /\ Fresh(f, st).obt = ObtZero
                 /\ Fresh(f, st).store = st /\ Fresh(f, st).fsm = f
  BY DEF Fresh, IsBoard
<1>3. /\ Boot["zynqmp"] = ZynqBoot /\ Boot["msp430"] = MspBoot
      /\ Boot["stm32"] = Stm32Boot /\ Boot["sim"] = SimBoot
  BY DEF Boot
<1>4. /\ IsBoard(board) /\ board.obt = ObtZero
      /\ build = "msp430" => board.fsm = FsmInit
  BY <1>1, <1>2, <1>3 DEF ZynqBoot, MspBoot, Stm32Boot, SimBoot
<1>5. ObtZero \in Times /\ Instant(ObtZero) = 0
  BY ObtAssumption DEF ObtZero, Times, Instant
<1>6. WdAlive
  BY LoopAssumption DEF Init, WdInit, WdAlive
<1>7. MspNeverSafe
  BY <1>4, EntryAssumption DEF MspNeverSafe, FsmInit
<1> QED
  BY <1>1, <1>4, <1>5, <1>6, <1>7 DEF LoopIInv, ClockExact, Init

(* The rest of a pass of the MSP430 loop: the watchdog was kicked, so its  *)
(* tick only reloads it, and no event is reported.                         *)
LEMMA MspPassEffect ==
  ASSUME WdAlive, NEW b, IsBoard(b), NEW frames, MspPass(b, frames)
  PROVE  /\ WdAlive' /\ Keeps(b, board') /\ UNCHANGED <<build, seen, halted, clock>>
         /\ loops' = (loops + 1) % LoopsPerTick
         /\ IF loops + 1 >= LoopsPerTick
            THEN board' = S3Tick(b) /\ out' = Append(frames, Sync)
            ELSE board' = b /\ out' = frames
<1> DEFINE kicked == WdKick(wd)
<1> DEFINE ticked == WdTick(kicked)
<1>1. kicked \in [countdown : 0 .. WdTimeout, kicked : {TRUE}, expired : {FALSE}]
  BY DEF WdAlive, WdKick
<1>2. ticked \in [countdown : 0 .. WdTimeout, kicked : {FALSE}, expired : {FALSE}]
  <2> HIDE DEF kicked
  <2>1. kicked.kicked = TRUE /\ kicked.expired = FALSE
    BY <1>1
  <2>2. ticked = WdInit
    BY <2>1 DEF WdTick
  <2> QED
    BY <2>2, LoopAssumption DEF WdInit
<1>3. /\ wd' = ticked \/ wd' = kicked
      /\ IF loops + 1 >= LoopsPerTick
         THEN board' = S3Tick(b) /\ out' = Append(frames, Sync)
         ELSE board' = b /\ out' = frames
  <2>1. ~ticked.expired
    BY <1>2
  <2> QED
    BY <2>1 DEF MspPass
<1>4. WdAlive'
  <2> HIDE DEF kicked, ticked
  <2> QED
    BY <1>1, <1>2, <1>3 DEF WdAlive
<1>5. Keeps(b, board')
  BY <1>3, S3TickKeeps DEF Keeps
<1>6. UNCHANGED <<build, seen, halted, clock>> /\ loops' = (loops + 1) % LoopsPerTick
  BY DEF MspPass
<1> QED
  BY <1>3, <1>4, <1>5, <1>6

(* What one telecommand leaves of the mode on the MSP430                   *)
LEMMA MspFsm ==
  ASSUME LoopIInv, build = "msp430", NEW tc
  PROVE  Fed(tc).fsm \in [mode : {"STANDBY", "NOMINAL"}, entries : 0 .. EntryRange - 1]
<1>1. Functions[build] = {1} /\ IsBoard(board)
  BY RouteFacts DEF LoopIInv
<1>2. Fed(tc).fsm = board.fsm \/ Fed(tc).fsm = Perform(board.fsm, 1)
  BY <1>1, FeedEffect DEF Fed
<1>3. Perform(board.fsm, 1) = FsmToNominal(board.fsm)
  BY DEF Perform
<1> QED
  BY <1>2, <1>3 DEF LoopIInv, MspNeverSafe, FsmToNominal

(* A telecommand frame in the ZynqMP, STM32H7 and simulator loops          *)
LEMMA TcFrameStep ==
  ASSUME LoopIInv, NEW tc \in Tcs, TcFrame(tc)
  PROVE  LoopIInv'
<1>1. IsBoard(board') /\ board'.obt = Fed(tc).obt
  BY FedClock, DrainedKeeps DEF TcFrame, Keeps
<1>2. build # "msp430" /\ UNCHANGED <<build, wd>> /\ clock' = ClockAfter(tc)
  BY DEF TcFrame
<1> QED
  BY <1>1, <1>2, FedClock
     DEF LoopIInv, ClockExact, WdAlive, MspNeverSafe

(* A pass of the MSP430 loop with a telecommand                            *)
LEMMA MspTcStep ==
  ASSUME LoopIInv, NEW tc \in Tcs, MspTc(tc)
  PROVE  LoopIInv'
<1> DEFINE b == Drained(Fed(tc))
<1>1. build = "msp430" /\ MspPass(b, TmFrames(Fed(tc)))
  BY DEF MspTc
<1>2. IsBoard(b) /\ b.obt = Fed(tc).obt /\ b.fsm = Fed(tc).fsm
  BY FedClock, DrainedKeeps DEF Keeps
<1> HIDE DEF b
<1>3. WdAlive' /\ Keeps(b, board') /\ UNCHANGED <<build, clock>>
  BY <1>1, <1>2, MspPassEffect DEF LoopIInv
<1>4. ClockAfter(tc) = clock
  BY <1>1 DEF ClockAfter
<1>5. MspNeverSafe'
  BY <1>1, <1>2, <1>3, MspFsm DEF MspNeverSafe, Keeps
<1> QED
  BY <1>1, <1>2, <1>3, <1>4, <1>5, FedClock
     DEF LoopIInv, ClockExact, Keeps

(* ... and without one                                                     *)
LEMMA MspSkipStep ==
  ASSUME LoopIInv, MspSkip
  PROVE  LoopIInv'
<1>1. build = "msp430" /\ MspPass(board, << >>)
  BY DEF MspSkip
<1>2. WdAlive' /\ Keeps(board, board') /\ UNCHANGED <<build, clock>>
  BY <1>1, MspPassEffect DEF LoopIInv
<1> QED
  BY <1>1, <1>2
     DEF LoopIInv, ClockExact, MspNeverSafe, Keeps

(* A control tick of the simulator                                         *)
LEMMA SimSensorStep ==
  ASSUME LoopIInv, NEW s \in Sensors, SimSensor(s)
  PROVE  LoopIInv'
<1>1. CASE s.long
  <2>1. /\ build = "sim" /\ UNCHANGED build
        /\ board' = Drained(SimTicked(s)) /\ wd' = WdKick(wd)
        /\ clock' = (clock + s.dt * FineUnits) % Span
    BY <1>1 DEF SimSensor
  <2>2. IsBoard(board) /\ board.obt \in Times /\ Instant(board.obt) = clock
    BY DEF LoopIInv, ClockExact
  <2>3. IsBoard(SimTicked(s)) /\ SimTicked(s).obt = ObtAdvance(board.obt, s.dt)
    BY <2>2, SimTickedEffect
  <2>4. IsBoard(board') /\ board'.obt = ObtAdvance(board.obt, s.dt)
    BY <2>1, <2>3, DrainedKeeps DEF Keeps
  <2>5. s.dt \in 0 .. FineUnits - 1
    BY DtAssumption DEF Sensors
  <2>6. board'.obt \in Times /\ Instant(board'.obt) = clock'
    BY <2>1, <2>2, <2>4, <2>5, ObtAdvanceExact
  <2>7. WdAlive'
    BY <2>1 DEF LoopIInv, WdAlive, WdKick
  <2> QED
    BY <2>1, <2>4, <2>6, <2>7
       DEF LoopIInv, ClockExact, MspNeverSafe
<1>2. CASE ~s.long
  BY <1>2
     DEF SimSensor, LoopIInv, ClockExact, WdAlive, MspNeverSafe
<1> QED
  BY <1>1, <1>2

(* The other frames change at most a parameter and the store.              *)
LEMMA QuietStep ==
  ASSUME LoopIInv,
         \/ \E s \in Sensors : ZynqSensor(s) \/ Stm32Sensor(s)
         \/ OtherFrame \/ SkipFrame \/ SimHalt
  PROVE  LoopIInv'
<1>1. build # "msp430" /\ UNCHANGED <<build, wd, clock>>
  BY DEF ZynqSensor, Stm32Sensor, OtherFrame, SkipFrame, SimHalt
<1>2. IsBoard(board)
  BY DEF LoopIInv
<1>3. \/ board' = board \/ board' = Drained(board)
      \/ \E v : board' = [board EXCEPT !.par = v]
  <2>1. CASE \E s \in Sensors : Stm32Sensor(s)
    <3>1. PICK s \in Sensors : Stm32Sensor(s)
      BY <2>1
    <3> DEFINE v == [board.par EXCEPT ![Uptime] = s.time]
    <3>2. board' = board \/ board' = [board EXCEPT !.par = v]
      BY <3>1 DEF Stm32Sensor
    <3> HIDE DEF v
    <3> QED
      BY <3>2
  <2>2. CASE \E s \in Sensors : ZynqSensor(s)
    BY <2>2 DEF ZynqSensor
  <2>3. CASE OtherFrame \/ SkipFrame \/ SimHalt
    BY <2>3 DEF OtherFrame, SkipFrame, SimHalt
  <2> QED
    BY <2>1, <2>2, <2>3
<1>4. Keeps(board, board')
  <2>1. CASE board' = board
    BY <1>2, <2>1 DEF Keeps
  <2>2. CASE board' = Drained(board)
    BY <1>2, <2>2, DrainedKeeps
  <2>3. CASE \E v : board' = [board EXCEPT !.par = v]
    <3>1. PICK v : board' = [board EXCEPT !.par = v]
      BY <2>3
    <3> QED
      BY <1>2, <3>1, SetRest
  <2> QED
    BY <1>3, <2>1, <2>2, <2>3
<1> QED
  BY <1>1, <1>4
     DEF LoopIInv, ClockExact, WdAlive, MspNeverSafe, Keeps

(* Every pass of every loop keeps the invariant.                           *)
LEMMA StepLoop ==
  ASSUME LoopIInv, [Next]_vars
  PROVE  LoopIInv'
<1>1. CASE UNCHANGED vars
  BY <1>1 DEF vars, LoopIInv, ClockExact, WdAlive, MspNeverSafe
<1>2. CASE \E tc \in Tcs : TcFrame(tc) \/ MspTc(tc)
  BY <1>2, TcFrameStep, MspTcStep
<1>3. CASE SensorFrame
  BY <1>3, SimSensorStep, QuietStep DEF SensorFrame
<1>4. CASE OtherFrame \/ SkipFrame \/ SimHalt
  BY <1>4, QuietStep
<1>5. CASE MspSkip
  BY <1>5, MspSkipStep
<1>6. CASE Terminated
  BY <1>1, <1>6 DEF Terminated
<1> QED
  BY <1>1, <1>2, <1>3, <1>4, <1>5, <1>6 DEF Next

(* The main loops keep their inductive invariant for every region table,   *)
(* telecommand set, store size and length of a tick.                       *)
THEOREM LoopInvariant == Spec => []LoopIInv
<1>1. Init => LoopIInv
  BY InitLoop
<1>2. LoopIInv /\ [Next]_vars => LoopIInv'
  BY StepLoop
<1> QED
  BY <1>1, <1>2, PTL DEF Spec

(* ClockExact, for every resolution of the fine time and every range of    *)
(* the seconds: obsw_obt_advance (obt.c:7) loses nothing and carries once, *)
(* as long as a step is shorter than FineUnits milliseconds.               *)
THEOREM ClockIsExact == Spec => []ClockExact
<1>1. LoopIInv => ClockExact
  BY DEF LoopIInv
<1> QED
  BY <1>1, LoopInvariant, PTL

(* What a load may change: the cells of a granting region that it          *)
(* addresses, to the bytes it carries.                                     *)
LEMMA WrittenInRegion ==
  ASSUME NEW mem, NEW addr \in Addresses, NEW len \in Nat, NEW data,
         Served(addr, len, "write"), NEW c \in Cells,
         Written(mem, Resolve(addr, len, "write"), len, data)[c] # mem[c]
  PROVE  \E k \in 1 .. len :
           /\ Addressable(c, addr + k - 1, "write")
           /\ Written(mem, Resolve(addr, len, "write"), len, data)[c] = data[k]
<1> DEFINE cell == Resolve(addr, len, "write")
<1>1. PICK i \in DOMAIN Regions :
        /\ Grants(Regions[i], addr, len, "write")
        /\ cell = Regions[i].base + (addr - Regions[i].start)
  BY ResolveSound
<1> DEFINE r == Regions[i]
<1>2. r.start \in Nat /\ r.size \in Nat /\ r.base \in Int /\ addr \in Nat /\ c \in Int
  <2> DEFINE S == [start : Addresses, size : Nat, base : Int, access : SUBSET {"read", "write"}]
  <2>0. Regions \in Seq(S)
    BY RegionAssumption
  <2>1. Regions[i] \in S
    <3> HIDE DEF S
    <3> QED
      BY <2>0
  <2> HIDE DEF r
  <2> QED
    BY <2>1, RegionAssumption DEF r
<1>3. /\ "write" \in r.access /\ addr >= r.start /\ addr - r.start <= r.size
      /\ len <= r.size - (addr - r.start) /\ cell = r.base + (addr - r.start)
  BY <1>1 DEF Grants
<1> HIDE DEF cell, r
<1>4. cell \in Int
  BY <1>2, <1>3
<1>5. /\ c \in cell .. cell + len - 1
      /\ Written(mem, cell, len, data)[c] = data[c - cell + 1]
  BY DEF Written, cell
<1> DEFINE k == c - cell + 1
<1>6. k \in 1 .. len
  BY <1>2, <1>4, <1>5
<1>7. /\ c \in r.base .. r.base + r.size - 1
      /\ addr + k - 1 = r.start + (c - r.base)
  BY <1>2, <1>3, <1>4, <1>5
<1>8. Addressable(c, addr + k - 1, "write")
  BY <1>3, <1>7 DEF Addressable, r
<1> QED
  BY <1>5, <1>6, <1>8 DEF cell

(* LoadStaysInRegion, for every region table, memory and address range:    *)
(* the bounds test of s6_resolve (s6.c:44) admits no load that leaves its  *)
(* region, and the gate none outside NOMINAL.                              *)
THEOREM LoadsStayInRegion == Spec => LoadStaysInRegion
<1>1. ASSUME LoopIInv, [Next]_vars, NEW c \in Cells, board'.mem[c] # board.mem[c]
      PROVE  /\ board.fsm.mode = "NOMINAL"
             /\ Is(asked'.tc, 6, 2)
             /\ \E k \in 1 .. asked'.tc.arg[2] :
                  /\ Addressable(c, asked'.tc.arg[1] + k - 1, "write")
                  /\ board'.mem[c] = asked'.tc.arg[3][k]
  <2>1. IsBoard(board) /\ build \in Builds /\ WdAlive
    BY <1>1 DEF LoopIInv
  <2>2. PICK tc \in Tcs : TcFrame(tc) \/ MspTc(tc)
    <3>1. CASE \E s \in Sensors : SimSensor(s)
      BY <1>1, <2>1, <3>1, SimTickedEffect, DrainedKeeps DEF SimSensor, Keeps
    <3>2. CASE \E s \in Sensors : ZynqSensor(s)
      BY <1>1, <2>1, <3>2, DrainedKeeps DEF ZynqSensor, Keeps
    <3>3. CASE \E s \in Sensors : Stm32Sensor(s)
      BY <1>1, <2>1, <3>3 DEF Stm32Sensor, IsBoard
    <3>4. CASE OtherFrame \/ SkipFrame \/ SimHalt \/ Terminated \/ UNCHANGED vars
      BY <1>1, <2>1, <3>4, DrainedKeeps
         DEF OtherFrame, SkipFrame, SimHalt, Terminated, vars, Keeps
    <3>5. CASE MspSkip
      BY <1>1, <2>1, <3>5, MspPassEffect DEF MspSkip, Keeps
    <3> QED
      BY <1>1, <3>1, <3>2, <3>3, <3>4, <3>5 DEF Next, SensorFrame
  <2>3. /\ IsBoard(Fed(tc))
        /\ \/ Fed(tc).mem = board.mem
           \/ /\ Is(tc, 6, 2) /\ Allowed(board, tc, Gated(build)) /\ <<6, 2>> \in Routes[build]
              /\ tc.arg # Short /\ Served(tc.arg[1], tc.arg[2], "write")
              /\ Fed(tc).mem = Written(board.mem, Resolve(tc.arg[1], tc.arg[2], "write"),
                                       tc.arg[2], tc.arg[3])
    BY <2>1, FeedEffect DEF Fed
  <2>4. board'.mem = Fed(tc).mem /\ asked'.tc = tc
    <3>1. IsBoard(Drained(Fed(tc))) /\ Drained(Fed(tc)).mem = Fed(tc).mem
      BY <2>3, DrainedKeeps DEF Keeps
    <3>2. CASE TcFrame(tc)
      BY <3>1, <3>2 DEF TcFrame
    <3>3. CASE MspTc(tc)
      BY <2>1, <3>1, <3>3, MspPassEffect DEF MspTc, Keeps
    <3> QED
      BY <2>2, <3>2, <3>3
  <2>5. /\ Is(tc, 6, 2) /\ Allowed(board, tc, Gated(build)) /\ <<6, 2>> \in Routes[build]
        /\ tc.arg # Short /\ Served(tc.arg[1], tc.arg[2], "write")
        /\ Fed(tc).mem = Written(board.mem, Resolve(tc.arg[1], tc.arg[2], "write"),
                                 tc.arg[2], tc.arg[3])
    BY <1>1, <2>3, <2>4
  <2>6. board.fsm.mode = "NOMINAL"
    <3>1. Gated(build)
      BY <2>1, <2>5, RouteFacts DEF Gated
    <3> QED
      BY <2>5, <3>1, GateAssumption DEF Allowed, FsmTcAllowed, Is
  <2>7. tc.arg[1] \in Addresses /\ tc.arg[2] \in Nat
    BY <2>5, TcAssumption DEF Is
  <2> QED
    BY <1>1, <2>4, <2>5, <2>6, <2>7, WrittenInRegion
<1>2. ASSUME LoopIInv, [Next]_vars
      PROVE  [\A c \in Cells : board'.mem[c] # board.mem[c] =>
                /\ board.fsm.mode = "NOMINAL"
                /\ Is(asked'.tc, 6, 2)
                /\ \E k \in 1 .. asked'.tc.arg[2] :
                     /\ Addressable(c, asked'.tc.arg[1] + k - 1, "write")
                     /\ board'.mem[c] = asked'.tc.arg[3][k]]_vars
  BY <1>1, <1>2
<1> QED
  BY <1>2, LoopInvariant, PTL DEF Spec, LoadStaysInRegion

-----------------------------------------------------------------------------
(* The handlers: types and reports                                         *)

BoardOK(b) == b \in Boards /\ Len(b.store) <= StoreCap

(* TM(1,2), and a store without one                                        *)
IsRefusal(pkt) == pkt[1] = 1 /\ pkt[2] = 2
Clean(b) == \A i \in DOMAIN b.store : ~IsRefusal(b.store[i])

(* c is b but for the store.                                               *)
Same(b, c) ==
  c.fsm = b.fsm /\ c.mem = b.mem /\ c.par = b.par /\ c.obt = b.obt /\ c.hk = b.hk

(* A refusal; or acceptance and completion, with a packet of another       *)
(* service in between or not.                                              *)
Answered(st) ==
  \/ Len(st) = 1 /\ IsRefusal(st[1])
  \/ /\ Len(st) = 2 /\ st[1][1] = 1 /\ st[1][2] = 1
     /\ st[2][1] = 1 /\ st[2][2] = 7
  \/ /\ Len(st) = 3 /\ st[1][1] = 1 /\ st[1][2] = 1 /\ st[2][1] # 1
     /\ st[3][1] = 1 /\ st[3][2] \in {7, 8}

(* What a handler that was given board b may return.                       *)
Outcome(b, c) ==
  /\ BoardOK(c)
  /\ Clean(b) => Same(b, c) \/ Clean(c)
  /\ Own(b) => Own(c)
  /\ b.store = << >> => Answered(c.store)

(* Reports and events are among the packets of every build.                *)
LEMMA MakesReports ==
  /\ 1 \in Makes(build) /\ 5 \in Makes(build)
  /\ \A svc, sub : <<svc, sub>> \in Routes[build] => svc \in Makes(build)
<1>1. \A svc, sub : <<svc, sub>>[1] = svc
  OBVIOUS
<1> QED
  BY <1>1, Zenon DEF Makes

(* The store of a board is assigned.                                       *)
LEMMA StoreSet ==
  ASSUME NEW b \in Boards, NEW v \in Seq(Packets)
  PROVE  /\ [b EXCEPT !.store = v] \in Boards /\ [b EXCEPT !.store = v].store = v
         /\ Same(b, [b EXCEPT !.store = v])
BY DEF Boards, Same

LEMMA AppendClean ==
  ASSUME NEW st \in Seq(Packets), NEW pkt \in Packets
  PROVE  /\ Append(st, pkt) \in Seq(Packets) /\ Len(Append(st, pkt)) = Len(st) + 1
         /\ Len(st) \in Nat
         /\ (\A i \in DOMAIN st : ~IsRefusal(st[i])) /\ ~IsRefusal(pkt)
              => \A i \in DOMAIN Append(st, pkt) : ~IsRefusal(Append(st, pkt)[i])
<1>1. /\ Append(st, pkt) \in Seq(Packets) /\ Len(Append(st, pkt)) = Len(st) + 1
      /\ Len(st) \in Nat /\ DOMAIN st = 1 .. Len(st)
      /\ DOMAIN Append(st, pkt) = 1 .. Len(st) + 1
      /\ \A i \in 1 .. Len(st) : Append(st, pkt)[i] = st[i]
      /\ Append(st, pkt)[Len(st) + 1] = pkt
  OBVIOUS
<1>2. \A i \in 1 .. Len(st) + 1 : i \in 1 .. Len(st) \/ i = Len(st) + 1
  BY <1>1
<1> QED
  BY <1>1, <1>2

LEMMA AppendOwn ==
  ASSUME NEW st \in Seq(Packets), NEW pkt \in Packets, NEW S, pkt[1] \in S,
         \A i \in DOMAIN st : st[i][1] \in S
  PROVE  \A i \in DOMAIN Append(st, pkt) : Append(st, pkt)[i][1] \in S
<1>1. /\ Len(st) \in Nat /\ DOMAIN st = 1 .. Len(st)
      /\ DOMAIN Append(st, pkt) = 1 .. Len(st) + 1
      /\ \A i \in 1 .. Len(st) : Append(st, pkt)[i] = st[i]
      /\ Append(st, pkt)[Len(st) + 1] = pkt
  OBVIOUS
<1>2. \A i \in 1 .. Len(st) + 1 : i \in 1 .. Len(st) \/ i = Len(st) + 1
  BY <1>1
<1> QED
  BY <1>1, <1>2

(* obsw_pus_tm_build                                                       *)
LEMMA EmitOutcome ==
  ASSUME NEW b, BoardOK(b), NEW pkt \in Packets
  PROVE  /\ BoardOK(Emit(b, pkt)) /\ Same(b, Emit(b, pkt))
         /\ Clean(b) /\ ~IsRefusal(pkt) => Clean(Emit(b, pkt))
         /\ Own(b) /\ pkt[1] \in Makes(build) => Own(Emit(b, pkt))
         /\ Len(b.store) < StoreCap => Emit(b, pkt).store = Append(b.store, pkt)
<1>1. b \in Boards /\ b.store \in Seq(Packets) /\ StoreCap \in Nat
  BY MemoryAssumption DEF BoardOK, Boards
<1>2. CASE ~Room(b)
  BY <1>2 DEF Room, Emit, Same
<1>3. CASE Room(b)
  <2> DEFINE v == Append(b.store, pkt)
  <2> DEFINE c == [b EXCEPT !.store = v]
  <2>1. Emit(b, pkt) = c
    BY <1>3 DEF Emit
  <2>2. v \in Seq(Packets) /\ Len(v) <= StoreCap
    BY <1>1, <1>3, AppendClean DEF Room
  <2>3. /\ Clean(b) /\ ~IsRefusal(pkt) => \A i \in DOMAIN v : ~IsRefusal(v[i])
        /\ Own(b) /\ pkt[1] \in Makes(build)
             => \A i \in DOMAIN v : v[i][1] \in Makes(build)
    BY <1>1, AppendClean, AppendOwn DEF Clean, Own
  <2> HIDE DEF v
  <2>4. c \in Boards /\ c.store = v /\ Same(b, c)
    BY <1>1, <2>2, StoreSet
  <2> HIDE DEF c
  <2>5. BoardOK(c)
    BY <2>2, <2>4 DEF BoardOK
  <2>6. /\ Clean(b) /\ ~IsRefusal(pkt) => Clean(c)
        /\ Own(b) /\ pkt[1] \in Makes(build) => Own(c)
    BY <2>3, <2>4 DEF Clean, Own
  <2> QED
    BY <2>1, <2>4, <2>5, <2>6 DEF v
<1> QED
  BY <1>2, <1>3

LEMMA PacketIs ==
  ASSUME NEW svc \in Nat, NEW sub \in Nat, NEW data \in Seq(Int)
  PROVE  <<svc, sub, data>> \in Packets
BY DEF Packets

LEMMA TwoPackets ==
  ASSUME NEW a, NEW b
  PROVE  /\ Len(Append(<<a>>, b)) = 2
         /\ Append(<<a>>, b)[1] = a /\ Append(<<a>>, b)[2] = b
OBVIOUS

LEMMA ThreePackets ==
  ASSUME NEW a, NEW b, NEW c, NEW s, s = Append(Append(<<a>>, b), c)
  PROVE  Len(s) = 3 /\ s[1] = a /\ s[2] = b /\ s[3] = c
OBVIOUS

(* The reports of service 1 are packets.                                   *)
LEMMA ReportPackets ==
  /\ <<1, 1, << >>>> \in Packets /\ ~IsRefusal(<<1, 1, << >>>>)
  /\ <<1, 7, << >>>> \in Packets /\ ~IsRefusal(<<1, 7, << >>>>)
  /\ <<1, 8, <<ExecError>>>> \in Packets /\ ~IsRefusal(<<1, 8, <<ExecError>>>>)
  /\ \A code \in Nat : <<1, 2, <<code>>>> \in Packets
<1>1. << >> \in Seq(Int) /\ \A n \in Int : <<n>> \in Seq(Int)
  OBVIOUS
<1>2. ExecError \in Int
  BY DEF ExecError
<1>3. \A sub \in Nat : \A data \in Seq(Int) : <<1, sub, data>> \in Packets
  BY PacketIs
<1>4. ASSUME NEW sub, NEW data, sub # 2
      PROVE  ~IsRefusal(<<1, sub, data>>)
  BY <1>4 DEF IsRefusal
<1>5. /\ ~IsRefusal(<<1, 1, << >>>>) /\ ~IsRefusal(<<1, 7, << >>>>)
      /\ ~IsRefusal(<<1, 8, <<ExecError>>>>)
  BY <1>4
<1>6. /\ <<1, 1, << >>>> \in Packets /\ <<1, 7, << >>>> \in Packets
  BY <1>1, <1>3
<1>7. <<1, 8, <<ExecError>>>> \in Packets
  <2> DEFINE data == <<ExecError>>
  <2>1. data \in Seq(Int)
    BY <1>1, <1>2
  <2> HIDE DEF data
  <2>2. <<1, 8, data>> \in Packets
    BY <1>3, <2>1
  <2> QED
    BY <2>2 DEF data
<1>8. ASSUME NEW code \in Nat PROVE <<1, 2, <<code>>>> \in Packets
  <2> DEFINE data == <<code>>
  <2>1. data \in Seq(Int)
    BY <1>1
  <2> HIDE DEF data
  <2>2. <<1, 2, data>> \in Packets
    BY <1>3, <2>1
  <2> QED
    BY <2>2 DEF data
<1> QED
  BY <1>5, <1>6, <1>7, <1>8, Zenon

LEMMA RefuseOutcome ==
  ASSUME NEW b, BoardOK(b), NEW code \in Nat
  PROVE  Outcome(b, Refuse(b, code))
<1> DEFINE pkt == <<1, 2, <<code>>>>
<1>1. pkt \in Packets /\ IsRefusal(pkt) /\ pkt[1] \in Makes(build)
  BY ReportPackets, MakesReports DEF IsRefusal
<1>2. Refuse(b, code) = Emit(b, pkt)
  BY DEF Refuse
<1> HIDE DEF pkt
<1>3. ASSUME b.store = << >> PROVE Answered(Refuse(b, code).store)
  <2>1. Len(b.store) = 0 /\ Len(b.store) < StoreCap
    BY <1>3, LoopAssumption, MemoryAssumption
  <2>2. Refuse(b, code).store = Append(<< >>, pkt)
    BY <1>1, <1>2, <1>3, <2>1, EmitOutcome
  <2>3. Refuse(b, code).store = <<pkt>>
    BY <2>2
  <2> QED
    BY <1>1, <2>3 DEF Answered
<1> QED
  BY <1>1, <1>2, <1>3, EmitOutcome DEF Outcome

LEMMA AcceptOutcome ==
  ASSUME NEW b, BoardOK(b)
  PROVE  /\ BoardOK(Accept(b)) /\ Same(b, Accept(b)) /\ (Clean(b) => Clean(Accept(b)))
         /\ Own(b) => Own(Accept(b))
         /\ b.store = << >> => Accept(b).store = <<<<1, 1, << >>>>>>
<1> DEFINE pkt == <<1, 1, << >>>>
<1>1. pkt \in Packets /\ ~IsRefusal(pkt) /\ pkt[1] \in Makes(build)
  BY ReportPackets, MakesReports
<1>2. Accept(b) = Emit(b, pkt)
  BY DEF Accept
<1> HIDE DEF pkt
<1>3. ASSUME b.store = << >> PROVE Accept(b).store = <<pkt>>
  <2>1. Len(b.store) = 0 /\ Len(b.store) < StoreCap
    BY <1>3, LoopAssumption, MemoryAssumption
  <2> QED
    BY <1>1, <1>2, <1>3, <2>1, EmitOutcome
<1> QED
  BY <1>1, <1>2, <1>3, EmitOutcome DEF pkt

(* The work leaves the store alone, and its success is reported.           *)
LEMMA WorkOutcome ==
  ASSUME NEW b, BoardOK(b), NEW w \in Boards, w.store = Accept(b).store
  PROVE  Outcome(b, Succeed(w))
<1> DEFINE pkt == <<1, 7, << >>>>
<1>1. /\ pkt \in Packets /\ ~IsRefusal(pkt) /\ pkt[1] = 1 /\ pkt[2] = 7
      /\ pkt[1] \in Makes(build)
  BY ReportPackets, MakesReports
<1>2. Succeed(w) = Emit(w, pkt)
  BY DEF Succeed
<1> HIDE DEF pkt
<1>3. BoardOK(w) /\ (Clean(b) => Clean(w)) /\ (Own(b) => Own(w))
  BY AcceptOutcome DEF BoardOK, Clean, Own
<1>4. ASSUME b.store = << >> PROVE Answered(Succeed(w).store)
  <2> DEFINE acc == <<1, 1, << >>>>
  <2>1. w.store = <<acc>> /\ acc[1] = 1 /\ acc[2] = 1
    BY <1>4, AcceptOutcome
  <2> HIDE DEF acc
  <2>2. Len(w.store) < StoreCap
    BY <2>1, LoopAssumption, MemoryAssumption
  <2>3. Succeed(w).store = Append(<<acc>>, pkt)
    BY <1>1, <1>2, <1>3, <2>1, <2>2, EmitOutcome
  <2> QED
    BY <1>1, <2>1, <2>3, TwoPackets DEF Answered
<1> QED
  BY <1>1, <1>2, <1>3, <1>4, EmitOutcome DEF Outcome

(* A packet of the service itself goes out between the two reports.        *)
LEMMA AnswerOutcome ==
  ASSUME NEW b, BoardOK(b), NEW pkt \in Packets, pkt[1] # 1, pkt[1] \in Makes(build)
  PROVE  /\ Outcome(b, Succeed(Emit(Accept(b), pkt)))
         /\ Outcome(b, Fail(Emit(Accept(b), pkt)))
<1> DEFINE w == Emit(Accept(b), pkt)
<1>1. BoardOK(w) /\ (Clean(b) => Clean(w)) /\ (Own(b) => Own(w))
  BY AcceptOutcome, EmitOutcome DEF IsRefusal
<1> DEFINE acc == <<1, 1, << >>>>
<1>2. acc[1] = 1 /\ acc[2] = 1
  OBVIOUS
<1>3. ASSUME b.store = << >> PROVE w.store = Append(<<acc>>, pkt)
  <2>1. Accept(b).store = <<acc>> /\ BoardOK(Accept(b))
    BY <1>3, AcceptOutcome
  <2> HIDE DEF acc
  <2>2. Len(Accept(b).store) < StoreCap
    BY <2>1, LoopAssumption, MemoryAssumption
  <2> QED
    BY <2>1, <2>2, EmitOutcome
<1> HIDE DEF w, acc
<1>4. ASSUME NEW rep \in Packets, rep[1] = 1, rep[2] \in {7, 8}
      PROVE  Outcome(b, Emit(w, rep))
  <2>1. ASSUME b.store = << >> PROVE Answered(Emit(w, rep).store)
    <3>1. w.store = Append(<<acc>>, pkt)
      BY <1>3, <2>1
    <3>2. Len(w.store) < StoreCap
      BY <3>1, TwoPackets, LoopAssumption, MemoryAssumption
    <3>3. Emit(w, rep).store = Append(Append(<<acc>>, pkt), rep)
      BY <1>1, <1>4, <3>1, <3>2, EmitOutcome
    <3> QED
      BY <1>2, <1>4, <3>3, ThreePackets DEF Answered
  <2>2. ~IsRefusal(rep) /\ rep[1] \in Makes(build)
    BY <1>4, MakesReports DEF IsRefusal
  <2> QED
    BY <1>1, <1>4, <2>1, <2>2, EmitOutcome DEF Outcome
<1>5. Outcome(b, Succeed(w))
  <2> DEFINE rep == <<1, 7, << >>>>
  <2>1. rep \in Packets /\ rep[1] = 1 /\ rep[2] \in {7, 8}
    BY ReportPackets
  <2> HIDE DEF rep
  <2> QED
    BY <1>4, <2>1 DEF Succeed, rep
<1>6. Outcome(b, Fail(w))
  <2> DEFINE rep == <<1, 8, <<ExecError>>>>
  <2>1. rep \in Packets /\ rep[1] = 1 /\ rep[2] \in {7, 8}
    BY ReportPackets
  <2> HIDE DEF rep
  <2> QED
    BY <1>4, <2>1 DEF Fail, rep
<1> QED
  BY <1>5, <1>6 DEF w

LEMMA PacketOf ==
  ASSUME NEW svc \in Nat, NEW sub \in Nat, NEW n \in Int, svc # 1
  PROVE  /\ <<svc, sub, <<n>>>> \in Packets /\ <<svc, sub, <<n>>>>[1] # 1
         /\ <<svc, sub, <<n>>>>[1] = svc
<1> DEFINE data == <<n>>
<1>1. data \in Seq(Int)
  OBVIOUS
<1> HIDE DEF data
<1>2. /\ <<svc, sub, data>> \in Packets /\ <<svc, sub, data>>[1] # 1
      /\ <<svc, sub, data>>[1] = svc
  BY <1>1, PacketIs
<1> QED
  BY <1>2 DEF data

LEMMA PacketBare ==
  ASSUME NEW svc \in Nat, NEW sub \in Nat, svc # 1
  PROVE  /\ <<svc, sub, << >>>> \in Packets /\ <<svc, sub, << >>>>[1] # 1
         /\ <<svc, sub, << >>>>[1] = svc
<1> DEFINE data == << >>
<1>1. data \in Seq(Int)
  OBVIOUS
<1> HIDE DEF data
<1>2. /\ <<svc, sub, data>> \in Packets /\ <<svc, sub, data>>[1] # 1
      /\ <<svc, sub, data>>[1] = svc
  BY <1>1, PacketIs
<1> QED
  BY <1>2 DEF data

(* One field of the board is assigned.                                     *)
LEMMA FieldSet ==
  ASSUME NEW b \in Boards
  PROVE  /\ \A v \in FsmContexts :
              [b EXCEPT !.fsm = v] \in Boards /\ [b EXCEPT !.fsm = v].store = b.store
         /\ \A v \in [Cells -> Bytes] :
              [b EXCEPT !.mem = v] \in Boards /\ [b EXCEPT !.mem = v].store = b.store
         /\ \A v \in [Params -> Values] :
              [b EXCEPT !.par = v] \in Boards /\ [b EXCEPT !.par = v].store = b.store
         /\ \A v \in Times :
              [b EXCEPT !.obt = v] \in Boards /\ [b EXCEPT !.obt = v].store = b.store
         /\ \A v \in [on : BOOLEAN, every : Nat, left : Nat] :
              [b EXCEPT !.hk = v] \in Boards /\ [b EXCEPT !.hk = v].store = b.store
BY DEF Boards

LEMMA S17Outcome ==
  ASSUME NEW b, BoardOK(b), 17 \in Makes(build), NEW a
  PROVE  Outcome(b, S17Ping(b, a))
<1> DEFINE pkt == <<17, 2, << >>>>
<1>1. pkt \in Packets /\ pkt[1] # 1 /\ pkt[1] \in Makes(build)
  BY PacketBare
<1> HIDE DEF pkt
<1> QED
  BY <1>1, AnswerOutcome DEF S17Ping, pkt

LEMMA PerformFsm ==
  ASSUME NEW f \in FsmContexts, NEW fn
  PROVE  Perform(f, fn) \in FsmContexts
<1>1. (f.entries + 1) % EntryRange \in 0 .. EntryRange - 1
  BY EntryAssumption DEF FsmContexts
<1> QED
  BY <1>1 DEF Perform, FsmContexts, FsmToSafe, FsmToStandby, FsmToNominal, Modes

(* The failure codes are numbers.                                          *)
LEMMA Codes ==
  /\ IllegalData \in Nat /\ ExecError \in Nat /\ MemAccess \in Nat /\ ModeGated \in Nat
  /\ IllegalService \in Nat /\ IllegalSubservice \in Nat
BY DEF IllegalData, ExecError, MemAccess, ModeGated, IllegalService, IllegalSubservice

LEMMA S8Outcome ==
  ASSUME NEW b, BoardOK(b), NEW a, NEW functions
  PROVE  Outcome(b, S8Perform(b, a, functions))
<1> DEFINE acc == Accept(b)
<1> DEFINE v == Perform(acc.fsm, a[1])
<1> DEFINE w == [acc EXCEPT !.fsm = v]
<1>1. acc \in Boards
  BY AcceptOutcome DEF BoardOK
<1>2. v \in FsmContexts
  <2> HIDE DEF acc
  <2> QED
    BY <1>1, PerformFsm DEF Boards
<1>3. w \in Boards /\ w.store = acc.store
  <2> HIDE DEF v, acc
  <2> QED
    BY <1>1, <1>2, FieldSet
<1>4. S8Perform(b, a, functions)
        \in {Refuse(b, IllegalData), Refuse(b, ExecError), Succeed(w)}
  BY DEF S8Perform
<1> HIDE DEF w
<1>5. Outcome(b, Succeed(w))
  BY <1>3, WorkOutcome
<1> QED
  BY <1>4, <1>5, RefuseOutcome, Codes

LEMMA S9Outcome ==
  ASSUME NEW b, BoardOK(b), NEW a,
         a # Short => a[1] \in 0 .. CoarseRange - 1 /\ a[2] \in 0 .. FineUnits - 1
  PROVE  Outcome(b, S9SetObt(b, a))
<1>1. CASE a = Short
  BY <1>1, RefuseOutcome, Codes DEF S9SetObt
<1>2. CASE a # Short
  <2> DEFINE acc == Accept(b)
  <2> DEFINE v == ObtSet(a[1], a[2])
  <2> DEFINE w == [acc EXCEPT !.obt = v]
  <2>1. acc \in Boards
    BY AcceptOutcome DEF BoardOK
  <2>2. v \in Times
    BY <1>2, ObtAssumption DEF ObtSet, Times
  <2>3. w \in Boards /\ w.store = acc.store
    <3> HIDE DEF v, acc
    <3> QED
      BY <2>1, <2>2, FieldSet
  <2>4. S9SetObt(b, a) = Succeed(w)
    BY <1>2 DEF S9SetObt
  <2> HIDE DEF w
  <2> QED
    BY <2>3, <2>4, WorkOutcome
<1> QED
  BY <1>1, <1>2

LEMMA S20SetOutcome ==
  ASSUME NEW b, BoardOK(b), NEW a, a # Short /\ a[1] \in Params => a[2] \in Values
  PROVE  Outcome(b, S20Set(b, a))
<1>1. CASE a = Short \/ a[1] \notin Params
  BY <1>1, RefuseOutcome, Codes DEF S20Set
<1>2. CASE ~(a = Short \/ a[1] \notin Params)
  <2> DEFINE acc == Accept(b)
  <2> DEFINE v == [acc.par EXCEPT ![a[1]] = a[2]]
  <2> DEFINE w == [acc EXCEPT !.par = v]
  <2>1. acc \in Boards
    BY AcceptOutcome DEF BoardOK
  <2>2. v \in [Params -> Values]
    <3> HIDE DEF acc
    <3> QED
      BY <1>2, <2>1 DEF Boards
  <2>3. w \in Boards /\ w.store = acc.store
    <3> HIDE DEF v, acc
    <3> QED
      BY <2>1, <2>2, FieldSet
  <2>4. S20Set(b, a) = Succeed(w)
    BY <1>2 DEF S20Set
  <2> HIDE DEF w
  <2> QED
    BY <2>3, <2>4, WorkOutcome
<1> QED
  BY <1>1, <1>2

LEMMA S20GetOutcome ==
  ASSUME NEW b, BoardOK(b), 20 \in Makes(build), NEW a
  PROVE  Outcome(b, S20Get(b, a))
<1>1. CASE a = Short \/ a[1] \notin Params
  BY <1>1, RefuseOutcome, Codes DEF S20Get
<1>2. CASE ~(a = Short \/ a[1] \notin Params)
  <2> DEFINE pkt == <<20, 2, <<b.par[a[1]]>>>>
  <2>1. b.par[a[1]] \in Int
    BY <1>2, MemoryAssumption DEF BoardOK, Boards
  <2>2. pkt \in Packets /\ pkt[1] # 1 /\ pkt[1] \in Makes(build)
    BY <2>1, PacketOf
  <2>3. S20Get(b, a) = Succeed(Emit(Accept(b), pkt))
    BY <1>2 DEF S20Get
  <2> HIDE DEF pkt
  <2> QED
    BY <2>2, <2>3, AnswerOutcome
<1> QED
  BY <1>1, <1>2

LEMMA S3Outcome ==
  ASSUME NEW b, BoardOK(b), NEW a
  PROVE  /\ (a # Short => a[2] \in Nat) => Outcome(b, S3Enable(b, a))
         /\ Outcome(b, S3Disable(b, a))
<1> DEFINE acc == Accept(b)
<1>1. acc \in Boards
  BY AcceptOutcome DEF BoardOK
<1>2. CASE a = Short \/ a[1] # HkSet
  BY <1>2, RefuseOutcome, Codes DEF S3Enable, S3Disable
<1>3. CASE ~(a = Short \/ a[1] # HkSet)
  <2>1. ASSUME a[2] \in Nat PROVE Outcome(b, S3Enable(b, a))
    <3> DEFINE v == [on |-> TRUE, every |-> a[2], left |-> a[2]]
    <3> DEFINE w == [acc EXCEPT !.hk = v]
    <3>1. v \in [on : BOOLEAN, every : Nat, left : Nat]
      BY <2>1
    <3>2. w \in Boards /\ w.store = acc.store
      <4> HIDE DEF v, acc
      <4> QED
        BY <1>1, <3>1, FieldSet
    <3>3. S3Enable(b, a) = Succeed(w)
      BY <1>3 DEF S3Enable
    <3> HIDE DEF w
    <3> QED
      BY <3>2, <3>3, WorkOutcome
  <2>2. Outcome(b, S3Disable(b, a))
    <3> DEFINE v == [acc.hk EXCEPT !.on = FALSE]
    <3> DEFINE w == [acc EXCEPT !.hk = v]
    <3>1. v \in [on : BOOLEAN, every : Nat, left : Nat]
      <4> HIDE DEF acc
      <4> QED
        BY <1>1 DEF Boards
    <3>2. w \in Boards /\ w.store = acc.store
      <4> HIDE DEF v, acc
      <4> QED
        BY <1>1, <3>1, FieldSet
    <3>3. S3Disable(b, a) = Succeed(w)
      BY <1>3 DEF S3Disable
    <3> HIDE DEF w
    <3> QED
      BY <3>2, <3>3, WorkOutcome
  <2> QED
    BY <1>3, <2>1, <2>2
<1> QED
  BY <1>2, <1>3

(* A range that s6_resolve serves lies in the memory.                      *)
LEMMA ResolveCells ==
  ASSUME NEW addr \in Addresses, NEW len \in Nat, NEW access, Served(addr, len, access)
  PROVE  LET cell == Resolve(addr, len, access) IN
           cell \in Int /\ \A k \in 1 .. len : cell + k - 1 \in Cells
<1> DEFINE cell == Resolve(addr, len, access)
<1>1. PICK i \in DOMAIN Regions :
        /\ Grants(Regions[i], addr, len, access)
        /\ cell = Regions[i].base + (addr - Regions[i].start)
  BY ResolveSound
<1> DEFINE r == Regions[i]
<1>2. r.start \in Nat /\ r.size \in Nat /\ r.base \in Int /\ addr \in Nat
  <2> DEFINE S == [start : Addresses, size : Nat, base : Int, access : SUBSET {"read", "write"}]
  <2>0. Regions \in Seq(S)
    BY RegionAssumption
  <2>1. Regions[i] \in S
    <3> HIDE DEF S
    <3> QED
      BY <2>0
  <2> HIDE DEF r
  <2> QED
    BY <2>1, RegionAssumption DEF r
<1>3. r.base .. r.base + r.size - 1 \subseteq Cells
  BY MemoryAssumption
<1>4. /\ addr >= r.start /\ addr - r.start <= r.size
      /\ len <= r.size - (addr - r.start) /\ cell = r.base + (addr - r.start)
  BY <1>1 DEF Grants
<1> HIDE DEF cell, r
<1>5. cell \in Int
  BY <1>2, <1>4
<1>6. \A k \in 1 .. len : cell + k - 1 \in r.base .. r.base + r.size - 1
  BY <1>2, <1>4, <1>5
<1> QED
  BY <1>3, <1>5, <1>6 DEF cell

LEMMA ReadBytes ==
  ASSUME NEW b, BoardOK(b), NEW addr \in Addresses, NEW len \in Nat,
         Served(addr, len, "read")
  PROVE  ReadFrom(b, Resolve(addr, len, "read"), len) \in [1 .. len -> Bytes]
<1> DEFINE cell == Resolve(addr, len, "read")
<1>1. \A k \in 1 .. len : cell + k - 1 \in Cells
  BY ResolveCells
<1>2. b.mem \in [Cells -> Bytes]
  BY DEF BoardOK, Boards
<1> HIDE DEF cell
<1>3. ReadFrom(b, cell, len) \in [1 .. len -> Bytes]
  BY <1>1, <1>2 DEF ReadFrom
<1> QED
  BY <1>3 DEF cell

LEMMA S6LoadOutcome ==
  ASSUME NEW b, BoardOK(b), NEW a,
         a # Short => a[1] \in Addresses /\ a[2] \in Nat /\ a[3] \in Seq(Bytes)
  PROVE  Outcome(b, S6Load(b, a))
<1>1. CASE a = Short \/ a[2] > Len(a[3]) \/ ~Served(a[1], a[2], "write")
  BY <1>1, RefuseOutcome, Codes DEF S6Load
<1>2. CASE ~(a = Short \/ a[2] > Len(a[3]) \/ ~Served(a[1], a[2], "write"))
  <2> DEFINE acc == Accept(b)
  <2> DEFINE cell == Resolve(a[1], a[2], "write")
  <2> DEFINE v == Written(acc.mem, cell, a[2], a[3])
  <2> DEFINE w == [acc EXCEPT !.mem = v]
  <2>1. acc \in Boards
    BY AcceptOutcome DEF BoardOK
  <2>2. v \in [Cells -> Bytes]
    <3>1. cell \in Int
      BY <1>2, ResolveCells
    <3>2. acc.mem \in [Cells -> Bytes]
      BY <2>1 DEF Boards
    <3> HIDE DEF acc, cell
    <3> DEFINE n == a[2]
    <3> DEFINE data == a[3]
    <3>3. n \in Nat /\ data \in Seq(Bytes) /\ n <= Len(data)
      <4>1. n \in Nat /\ data \in Seq(Bytes)
        BY <1>2
      <4>2. Len(data) \in Nat /\ ~(n > Len(data))
        BY <1>2, <4>1
      <4> QED
        BY <4>1, <4>2
    <3> HIDE DEF n, data
    <3>4. ASSUME NEW c \in Cells, c \in cell .. cell + n - 1
          PROVE  data[c - cell + 1] \in Bytes
      <4>1. c \in Int
        BY RegionAssumption
      <4>2. c - cell + 1 \in 1 .. Len(data)
        BY <3>1, <3>3, <3>4, <4>1
      <4> QED
        BY <3>3, <4>2
    <3>5. Written(acc.mem, cell, n, data) \in [Cells -> Bytes]
      BY <3>2, <3>4 DEF Written
    <3> QED
      BY <3>5 DEF n, data
  <2>3. S6Load(b, a) = Succeed(w)
    BY <1>2 DEF S6Load
  <2>4. w \in Boards /\ w.store = acc.store
    <3> HIDE DEF v, acc
    <3> QED
      BY <2>1, <2>2, FieldSet
  <2> HIDE DEF w
  <2> QED
    BY <2>3, <2>4, WorkOutcome
<1> QED
  BY <1>1, <1>2

LEMMA S6CheckOutcome ==
  ASSUME NEW b, BoardOK(b), 6 \in Makes(build), NEW a,
         a # Short => /\ a[1] \in Addresses /\ a[2] \in Nat
                      /\ \A s \in [1 .. a[2] -> Bytes] : Crc(s) \in Int
  PROVE  Outcome(b, S6Check(b, a))
<1>1. CASE a = Short \/ ~Served(a[1], a[2], "read")
  BY <1>1, RefuseOutcome, Codes DEF S6Check
<1>2. CASE ~(a = Short \/ ~Served(a[1], a[2], "read"))
  <2> DEFINE actual == Crc(ReadFrom(b, Resolve(a[1], a[2], "read"), a[2]))
  <2>1. actual \in Int
    BY <1>2, ReadBytes
  <2> DEFINE good == <<6, 10, << >>>>
  <2> DEFINE bad == <<6, 11, <<actual>>>>
  <2>2. S6Check(b, a) \in {Succeed(Emit(Accept(b), good)), Fail(Emit(Accept(b), bad))}
    BY <1>2 DEF S6Check
  <2>3. good \in Packets /\ good[1] # 1 /\ good[1] \in Makes(build)
    BY PacketBare
  <2> HIDE DEF actual
  <2>4. bad \in Packets /\ bad[1] # 1 /\ bad[1] \in Makes(build)
    BY <2>1, PacketOf
  <2> HIDE DEF good, bad
  <2> QED
    BY <2>2, <2>3, <2>4, AnswerOutcome
<1> QED
  BY <1>1, <1>2

LEMMA S6DumpOutcome ==
  ASSUME NEW b, BoardOK(b), 6 \in Makes(build), NEW a, a # Short => a[1] \in Addresses /\ a[2] \in Nat
  PROVE  Outcome(b, S6Dump(b, a))
<1>1. CASE a = Short \/ a[2] > MaxDump \/ ~Served(a[1], a[2], "read")
  BY <1>1, RefuseOutcome, Codes DEF S6Dump
<1>2. CASE ~(a = Short \/ a[2] > MaxDump \/ ~Served(a[1], a[2], "read"))
  <2> DEFINE data == ReadFrom(b, Resolve(a[1], a[2], "read"), a[2])
  <2> DEFINE n == a[2]
  <2>1. data \in [1 .. n -> Bytes] /\ n \in Nat
    BY <1>2, ReadBytes
  <2> DEFINE pkt == <<6, 6, data>>
  <2>2. S6Dump(b, a) = Succeed(Emit(Accept(b), pkt))
    BY <1>2 DEF S6Dump
  <2> HIDE DEF data, n
  <2>3. data \in Seq(Int)
    <3>1. data \in [1 .. n -> Int]
      BY <2>1, MemoryAssumption
    <3> QED
      BY <2>1, <3>1
  <2>4. pkt \in Packets /\ pkt[1] # 1 /\ pkt[1] \in Makes(build)
    BY <2>3, PacketIs
  <2> HIDE DEF pkt
  <2> QED
    BY <2>2, <2>4, AnswerOutcome
<1> QED
  BY <1>1, <1>2

(* obsw_tc_dispatcher_feed                                                 *)
LEMMA FeedOutcome ==
  ASSUME NEW b, BoardOK(b), NEW tc \in Tcs, tc # Malformed,
         NEW routes, NEW gated, NEW functions, routes = Routes[build],
         routes \in {ZynqRoutes, MspRoutes, Stm32Routes, SimRoutes}
  PROVE  Outcome(b, Feed(b, tc, routes, gated, functions))
<1> DEFINE c == Feed(b, tc, routes, gated, functions)
<1>1. CASE ~(Allowed(b, tc, gated) /\ <<tc.svc, tc.sub>> \in routes)
  <2>1. \E code \in Nat : c = Refuse(b, code)
    BY <1>1, Codes DEF Feed, Unrouted
  <2> QED
    BY <2>1, RefuseOutcome
<1>2. CASE Allowed(b, tc, gated) /\ <<tc.svc, tc.sub>> \in routes
  <2>1. c = Handle(b, tc, functions)
    BY <1>2 DEF Feed
  <2>2. <<tc.svc, tc.sub>> \in SimRoutes /\ tc.svc \in Makes(build)
    BY <1>2, MakesReports DEF ZynqRoutes, MspRoutes, Stm32Routes, SimRoutes
  <2> SUFFICES Outcome(b, Handle(b, tc, functions))
    BY <2>1
  <2>3. CASE Is(tc, 17, 1)
    BY <2>2, <2>3, S17Outcome DEF Handle, Is
  <2>4. CASE Is(tc, 8, 1)
    BY <2>4, S8Outcome DEF Handle, Is
  <2>5. CASE Is(tc, 9, 128)
    BY <2>5, S9Outcome, TcAssumption DEF Handle, Is
  <2>6. CASE Is(tc, 20, 1)
    BY <2>6, S20SetOutcome, TcAssumption DEF Handle, Is
  <2>7. CASE Is(tc, 20, 3)
    BY <2>2, <2>7, S20GetOutcome DEF Handle, Is
  <2>8. CASE Is(tc, 3, 5)
    BY <2>8, S3Outcome, TcAssumption DEF Handle, Is
  <2>9. CASE Is(tc, 3, 6)
    BY <2>9, S3Outcome DEF Handle, Is
  <2>10. CASE Is(tc, 6, 2)
    BY <2>10, S6LoadOutcome, TcAssumption DEF Handle, Is
  <2>11. CASE Is(tc, 6, 5)
    BY <2>2, <2>11, S6CheckOutcome, TcAssumption DEF Handle, Is
  <2>12. CASE Is(tc, 6, 9)
    BY <2>2, <2>12, S6DumpOutcome, TcAssumption DEF Handle, Is
  <2> QED
    BY <2>2, <2>3, <2>4, <2>5, <2>6, <2>7, <2>8, <2>9, <2>10, <2>11, <2>12
       DEF SimRoutes, Is
<1> QED
  BY <1>1, <1>2

-----------------------------------------------------------------------------
(* The loops: types and reports                                            *)

Frames == Nat \X Nat \X Nat \X Seq(Int)

(* A time in range stands for an instant before the wrap.                  *)
LEMMA InstantInRange ==
  ASSUME NEW o \in Times
  PROVE  Instant(o) \in 0 .. Span - 1
<1> DEFINE F == FineUnits
<1> DEFINE M == Millis
<1> DEFINE C == CoarseRange
<1> DEFINE c == o.coarse
<1> DEFINE f == o.fine
<1> DEFINE r == o.rem
<1>1. F \in Nat \ {0} /\ M \in Nat \ {0} /\ C \in Nat \ {0}
  BY ObtAssumption
<1>2. c \in 0 .. C - 1 /\ f \in 0 .. F - 1 /\ r \in 0 .. M - 1
  BY DEF Times
<1>3. Instant(o) = (c * F + f) * M + r /\ Span = C * F * M
  BY DEF Instant, Span
<1> HIDE DEF F, M, C, c, f, r
<1> DEFINE y == c * F + f
<1> DEFINE z == C * F
<1>4. y \in 0 .. z - 1 /\ z \in Nat
  <2>1. c * F \in Nat /\ c * F <= (C - 1) * F
    BY <1>1, <1>2, SMT
  <2>2. (C - 1) * F + F = C * F
    BY <1>1, SMT
  <2> QED
    BY <1>1, <1>2, <2>1, <2>2, SMT
<1>5. Instant(o) = y * M + r /\ Span = z * M
  BY <1>3
<1> HIDE DEF y, z
<1>6. y * M \in Nat /\ y * M <= (z - 1) * M
  BY <1>1, <1>4, SMT
<1>7. (z - 1) * M + M = z * M
  BY <1>1, <1>4, SMT
<1> QED
  BY <1>1, <1>2, <1>4, <1>5, <1>6, <1>7, SMT

(* What a telemetry frame shows of its packet.                             *)
LEMMA FrameOf ==
  ASSUME NEW pkt \in Packets
  PROVE  /\ TM(pkt) \in Frames /\ TM(pkt)[1] = 4
         /\ TM(pkt)[2] = pkt[1] /\ TM(pkt)[3] = pkt[2]
BY DEF TM, Frames, Packets

(* The drain loop stops only at an empty store.                            *)
LEMMA AllSent ==
  ASSUME NEW b, BoardOK(b), Own(b), build \in Builds
  PROVE  Sent(b) = Len(b.store)
<1>1. Len(b.store) \in Nat /\ DOMAIN b.store = 1 .. Len(b.store)
  BY DEF BoardOK, Boards
<1>2. \A i \in 1 .. Len(b.store) : ~TooLarge(b.store[i])
  BY <1>1, DrainAssumption, Zenon DEF Own, TooLarge
<1> DEFINE n == Len(b.store)
<1> DEFINE P(k) == /\ \A i \in 1 .. k : ~TooLarge(b.store[i])
                   /\ k = n \/ TooLarge(b.store[k + 1])
<1>3. n \in 0 .. n /\ P(n)
  BY <1>1, <1>2
<1>4. \A k \in 0 .. n : P(k) => k = n
  BY <1>1, <1>2
<1>5. Sent(b) = CHOOSE k \in 0 .. n : P(k)
  BY DEF Sent
<1> HIDE DEF n, P
<1>6. Sent(b) = n
  BY <1>3, <1>4, <1>5
<1> QED
  BY <1>6 DEF n

LEMMA FramesOf ==
  ASSUME NEW b, BoardOK(b), Own(b), build \in Builds
  PROVE  /\ TmFrames(b) \in Seq(Frames) /\ Len(b.store) \in Nat
         /\ Len(TmFrames(b)) = Len(b.store) /\ DOMAIN b.store = 1 .. Len(b.store)
         /\ \A i \in 1 .. Len(b.store) :
              /\ TmFrames(b)[i][1] = 4 /\ TmFrames(b)[i][2] = b.store[i][1]
              /\ TmFrames(b)[i][3] = b.store[i][2]
<1>1. b.store \in Seq(Packets)
  BY DEF BoardOK, Boards
<1>2. /\ Len(b.store) \in Nat /\ DOMAIN b.store = 1 .. Len(b.store)
      /\ \A i \in 1 .. Len(b.store) : b.store[i] \in Packets
  BY <1>1
<1> DEFINE n == Len(b.store)
<1> DEFINE f == TmFrames(b)
<1>3. \A i \in 1 .. n : f[i] = TM(b.store[i])
  BY <1>2, AllSent DEF TmFrames
<1>4. DOMAIN f = 1 .. n /\ f = [i \in 1 .. n |-> f[i]]
  BY <1>2, AllSent DEF TmFrames
<1>5. \A i \in 1 .. n : f[i] \in Frames
  BY <1>2, <1>3, FrameOf
<1>6. \A i \in 1 .. n : f[i][1] = 4 /\ f[i][2] = b.store[i][1] /\ f[i][3] = b.store[i][2]
  BY <1>2, <1>3, FrameOf
<1> HIDE DEF f, n
<1>7. f \in [1 .. n -> Frames] /\ n \in Nat
  BY <1>2, <1>4, <1>5 DEF n
<1>8. f \in Seq(Frames) /\ Len(f) = n
  BY <1>7
<1> QED
  BY <1>2, <1>6, <1>8 DEF f, n

LEMMA WireFrames ==
  /\ Sync \in Frames /\ Sync[1] # 4
  /\ \A s : Actuator(Command(s)) \in Frames /\ Actuator(Command(s))[1] # 4
<1>1. ASSUME NEW data \in Seq(Int), NEW type \in {255, 3}
      PROVE  <<type, 0, 0, data>> \in Frames /\ <<type, 0, 0, data>>[1] # 4
  BY DEF Frames
<1>2. Sync \in Frames /\ Sync[1] # 4
  <2> DEFINE data == << >>
  <2>1. data \in Seq(Int)
    OBVIOUS
  <2> HIDE DEF data
  <2>2. <<255, 0, 0, data>> \in Frames /\ <<255, 0, 0, data>>[1] # 4
    BY <1>1, <2>1
  <2> QED
    BY <2>2 DEF data, Sync
<1>3. ASSUME NEW s
      PROVE  Actuator(Command(s)) \in Frames /\ Actuator(Command(s))[1] # 4
  <2> DEFINE data == <<Command(s)>>
  <2>1. Command(s) \in Int
    BY DEF Command, AdcsStep, BdotStep, Off, Torque, ZeroDipole, Dipole
  <2>2. data \in Seq(Int)
    BY <2>1
  <2> HIDE DEF data
  <2>3. <<3, 0, 0, data>> \in Frames /\ <<3, 0, 0, data>>[1] # 4
    BY <1>1, <2>2
  <2> QED
    BY <2>3 DEF data, Actuator
<1> QED
  BY <1>2, <1>3

(* obsw_s3_tick                                                            *)
LEMMA TickOutcome ==
  ASSUME NEW b, BoardOK(b), 3 \in Makes(build)
  PROVE  /\ BoardOK(S3Tick(b)) /\ (Clean(b) => Clean(S3Tick(b)))
         /\ Own(b) => Own(S3Tick(b))
         /\ S3Tick(b).fsm = b.fsm /\ S3Tick(b).mem = b.mem /\ S3Tick(b).par = b.par
         /\ S3Tick(b).obt = b.obt /\ S3Tick(b).hk.on = b.hk.on
         /\ S3Tick(b).hk.every = b.hk.every
<1>1. b \in Boards /\ b.hk \in [on : BOOLEAN, every : Nat, left : Nat]
  BY DEF BoardOK, Boards
<1> DEFINE left == IF b.hk.left > 0 THEN b.hk.left - 1 ELSE 0
<1> DEFINE v == [b.hk EXCEPT !.left = left]
<1> DEFINE w == [b.hk EXCEPT !.left = b.hk.every]
<1> DEFINE pkt == <<3, 25, <<HkSet>>>>
<1>2. S3Tick(b) \in {b, [b EXCEPT !.hk = v], Emit([b EXCEPT !.hk = w], pkt)}
  BY DEF S3Tick
<1>3. /\ v \in [on : BOOLEAN, every : Nat, left : Nat] /\ v.on = b.hk.on /\ v.every = b.hk.every
      /\ w \in [on : BOOLEAN, every : Nat, left : Nat] /\ w.on = b.hk.on /\ w.every = b.hk.every
  BY <1>1
<1>4. pkt \in Packets /\ pkt[1] # 1 /\ pkt[1] \in Makes(build)
  BY PacketOf, MemoryAssumption
<1> HIDE DEF v, w, pkt
<1>5. ASSUME NEW h \in [on : BOOLEAN, every : Nat, left : Nat]
      PROVE  LET c == [b EXCEPT !.hk = h] IN
               /\ BoardOK(c) /\ c.store = b.store /\ c.fsm = b.fsm /\ c.mem = b.mem
               /\ c.par = b.par /\ c.obt = b.obt /\ c.hk = h
  <2>1. /\ [b EXCEPT !.hk = h] \in Boards /\ [b EXCEPT !.hk = h].store = b.store
    BY <1>1, FieldSet
  <2>2. /\ [b EXCEPT !.hk = h].fsm = b.fsm /\ [b EXCEPT !.hk = h].mem = b.mem
        /\ [b EXCEPT !.hk = h].par = b.par /\ [b EXCEPT !.hk = h].obt = b.obt
        /\ [b EXCEPT !.hk = h].hk = h
    BY <1>1 DEF Boards
  <2> QED
    BY <2>1, <2>2 DEF BoardOK
<1> DEFINE c == [b EXCEPT !.hk = v]
<1> DEFINE d == [b EXCEPT !.hk = w]
<1>6. /\ BoardOK(c) /\ c.store = b.store /\ c.fsm = b.fsm /\ c.mem = b.mem
      /\ c.par = b.par /\ c.obt = b.obt /\ c.hk = v
  BY <1>3, <1>5
<1>7. /\ BoardOK(d) /\ d.store = b.store /\ d.fsm = b.fsm /\ d.mem = b.mem
      /\ d.par = b.par /\ d.obt = b.obt /\ d.hk = w
  BY <1>3, <1>5
<1> HIDE DEF c, d
<1>8. CASE S3Tick(b) = b
  BY <1>8
<1>9. CASE S3Tick(b) = c
  BY <1>3, <1>6, <1>9 DEF Clean, Own
<1>10. CASE S3Tick(b) = Emit(d, pkt)
  <2>1. /\ BoardOK(Emit(d, pkt)) /\ Same(d, Emit(d, pkt))
        /\ (Clean(d) => Clean(Emit(d, pkt))) /\ (Own(d) => Own(Emit(d, pkt)))
    BY <1>4, <1>7, EmitOutcome DEF IsRefusal
  <2> QED
    BY <1>3, <1>7, <1>10, <2>1 DEF Same, Clean, Own
<1> QED
  BY <1>2, <1>8, <1>9, <1>10 DEF c, d

(* A pass that answers in full leaves a complete set of reports.           *)
LEMMA CompleteFrom ==
  ASSUME NEW c, BoardOK(c), Own(c), build \in Builds, Answered(c.store),
         out' = TmFrames(c) \/ out' = Append(TmFrames(c), Sync)
  PROVE  Complete'
<1> DEFINE n == Len(c.store)
<1>1. /\ TmFrames(c) \in Seq(Frames) /\ n \in Nat /\ Len(TmFrames(c)) = n
      /\ \A i \in 1 .. n : /\ TmFrames(c)[i][1] = 4 /\ TmFrames(c)[i][2] = c.store[i][1]
                          /\ TmFrames(c)[i][3] = c.store[i][2]
  BY FramesOf
<1>2. /\ \A i \in 1 .. n : out'[i] = TmFrames(c)[i]
      /\ DOMAIN out' = 1 .. n \/ (DOMAIN out' = 1 .. n + 1 /\ out'[n + 1] = Sync)
  <2>1. CASE out' = TmFrames(c)
    BY <1>1, <2>1
  <2>2. CASE out' = Append(TmFrames(c), Sync)
    BY <1>1, <2>2
  <2> QED
    BY <2>1, <2>2
<1> DEFINE V == {i \in DOMAIN out' : out'[i][1] = 4 /\ out'[i][2] = 1}
<1>3. Verification' = V
  BY DEF Verification
<1>4. /\ 1 .. n \subseteq DOMAIN out'
      /\ \A i \in 1 .. n : /\ out'[i][1] = 4 /\ out'[i][2] = c.store[i][1]
                          /\ out'[i][3] = c.store[i][2]
  BY <1>1, <1>2
<1>5. \A i \in DOMAIN out' : i \in 1 .. n \/ out'[i][1] # 4
  BY <1>1, <1>2, WireFrames
<1>6. V = {i \in 1 .. n : c.store[i][1] = 1}
  BY <1>4, <1>5
<1> HIDE DEF V
<1>7. CASE n = 1 /\ IsRefusal(c.store[1])
  <2>1. V = {1} /\ out'[1][3] = 2
    BY <1>4, <1>6, <1>7 DEF IsRefusal
  <2> QED
    BY <1>3, <2>1 DEF Complete
<1>8. CASE n = 2 /\ c.store[1][1] = 1 /\ c.store[1][2] = 1
             /\ c.store[2][1] = 1 /\ c.store[2][2] = 7
  <2>1. V = {1, 2} /\ out'[1][3] = 1 /\ out'[2][3] \in {7, 8}
    BY <1>4, <1>6, <1>8
  <2> QED
    BY <1>3, <2>1 DEF Complete
<1>9. CASE n = 3 /\ c.store[1][1] = 1 /\ c.store[1][2] = 1 /\ c.store[2][1] # 1
             /\ c.store[3][1] = 1 /\ c.store[3][2] \in {7, 8}
  <2>1. out'[1][3] = 1 /\ out'[3][3] \in {7, 8}
    BY <1>4, <1>9
  <2>2. V = {1, 3}
    BY <1>6, <1>9
  <2> QED
    BY <1>3, <2>1, <2>2 DEF Complete
<1> QED
  BY <1>7, <1>8, <1>9 DEF Answered

(* The parts of the type invariant that a pass computes, with what is left *)
(* in the store and the reports.                                           *)
PassOK ==
  /\ BoardOK(board) /\ KeepsNoRefusal /\ Own(board) /\ StoreDrained /\ OnlyTicked
  /\ out \in Seq(Frames)
  /\ asked.tc \in Tcs \cup {Malformed} /\ asked.pending \in 0 .. StoreCap
  /\ loops \in 0 .. LoopsPerTick - 1
  /\ seen \in BOOLEAN /\ halted \in BOOLEAN
  /\ AnsweredIfStoreEmpty

LEMMA TypedFrom == LoopIInv /\ PassOK => TypeOK
<1> SUFFICES ASSUME LoopIInv, PassOK PROVE TypeOK
  OBVIOUS
<1>1. clock \in 0 .. Span - 1
  BY InstantInRange DEF LoopIInv, ClockExact
<1>2. wd \in [countdown : 0 .. WdTimeout, kicked : BOOLEAN, expired : BOOLEAN]
  BY DEF LoopIInv, WdAlive
<1> QED
  BY <1>1, <1>2 DEF LoopIInv, PassOK, BoardOK, TypeOK, Frames

(* A pass without a telecommand has none to answer.                        *)
LEMMA NothingAsked ==
  ASSUME asked' = NoTc
  PROVE  /\ (asked.tc \in Tcs \cup {Malformed} /\ asked.pending \in 0 .. StoreCap)'
         /\ AnsweredIfStoreEmpty' /\ OnlyTicked'
BY MemoryAssumption DEF NoTc, AnsweredIfStoreEmpty, OnlyTicked

(* The drain loop                                                          *)
LEMMA DrainedOK ==
  ASSUME NEW b, BoardOK(b), Own(b), build \in Builds
  PROVE  /\ BoardOK(Drained(b)) /\ Clean(Drained(b)) /\ Same(b, Drained(b))
         /\ Own(Drained(b)) /\ Drained(b).store = << >>
<1>1. << >> \in Seq(Packets) /\ Len(<< >>) = 0 /\ DOMAIN << >> = {}
  OBVIOUS
<1>2. b \in Boards /\ b.store \in Seq(Packets)
  BY DEF BoardOK, Boards
<1> DEFINE n == Len(b.store)
<1>3. n \in Nat /\ SubSeq(b.store, n + 1, n) = << >>
  BY <1>2
<1>4. Drained(b) = [b EXCEPT !.store = SubSeq(b.store, n + 1, n)]
  BY AllSent DEF Drained
<1>5. Drained(b) = [b EXCEPT !.store = << >>]
  BY <1>3, <1>4
<1>6. Drained(b) \in Boards /\ Drained(b).store = << >> /\ Same(b, Drained(b))
  BY <1>1, <1>2, <1>5, StoreSet
<1> QED
  BY <1>1, <1>6, MemoryAssumption DEF BoardOK, Clean, Own

(* The builds that tick housekeeping have service 3.                       *)
LEMMA TicksAreMade ==
  ASSUME build \in {"msp430", "sim"}
  PROVE  3 \in Makes(build)
<1>1. <<3, 5>> \in Routes[build]
  <2>1. Routes["msp430"] = MspRoutes /\ Routes["sim"] = SimRoutes
    BY DEF Routes
  <2>2. <<3, 5>> \in MspRoutes /\ <<3, 5>> \in SimRoutes
    BY DEF MspRoutes, SimRoutes
  <2> QED
    BY <2>1, <2>2
<1> QED
  BY <1>1, MakesReports

(* What the dispatcher leaves, for the routes of the build that runs       *)
LEMMA FedOutcome ==
  ASSUME LoopIInv, PassOK, NEW tc \in Tcs
  PROVE  /\ BoardOK(Fed(tc)) /\ (Same(board, Fed(tc)) \/ Clean(Fed(tc)))
         /\ Own(Fed(tc)) /\ build \in Builds
         /\ tc # Malformed /\ board.store = << >> => Answered(Fed(tc).store)
<1>1. BoardOK(board) /\ Clean(board) /\ Own(board) /\ build \in Builds
  BY DEF PassOK, KeepsNoRefusal, Clean, IsRefusal, LoopIInv
<1>2. CASE tc = Malformed
  <2>1. Fed(tc) = board
    BY <1>2 DEF Fed, Feed
  <2> QED
    BY <1>1, <1>2, <2>1
<1>3. CASE tc # Malformed
  <2>1. Routes[build] \in {ZynqRoutes, MspRoutes, Stm32Routes, SimRoutes}
    <3>1. build \in {"zynqmp", "msp430", "stm32", "sim"}
      BY BuildAssumption DEF LoopIInv
    <3>2. /\ Routes["zynqmp"] = ZynqRoutes /\ Routes["msp430"] = MspRoutes
          /\ Routes["stm32"] = Stm32Routes /\ Routes["sim"] = SimRoutes
      BY DEF Routes
    <3> QED
      BY <3>1, <3>2
  <2>2. Outcome(board, Fed(tc))
    BY <1>1, <1>3, <2>1, FeedOutcome DEF Fed
  <2> QED
    BY <1>1, <2>2 DEF Outcome
<1> QED
  BY <1>2, <1>3

LEMMA CleanKeepsNoRefusal ==
  ASSUME Clean(board'), Own(board'), build' = build
  PROVE  KeepsNoRefusal' /\ Own(board)'
BY DEF Clean, KeepsNoRefusal, IsRefusal, Own

(* The number of packets that wait when a telecommand comes                *)
LEMMA Pending ==
  ASSUME PassOK
  PROVE  /\ Len(board.store) \in 0 .. StoreCap
         /\ Len(board.store) = 0 => board.store = << >>
<1>1. board.store \in Seq(Packets) /\ Len(board.store) <= StoreCap
  BY DEF PassOK, BoardOK, Boards
<1> QED
  BY <1>1, MemoryAssumption

LEMMA TcFramePass ==
  ASSUME LoopIInv, PassOK, NEW tc \in Tcs, TcFrame(tc)
  PROVE  PassOK'
<1>1. /\ out' = Append(TmFrames(Fed(tc)), Sync) /\ board' = Drained(Fed(tc))
      /\ asked' = [tc |-> tc, pending |-> Len(board.store)]
      /\ UNCHANGED <<build, loops, seen, halted>>
  BY DEF TcFrame
<1>2. BoardOK(Fed(tc)) /\ Own(Fed(tc)) /\ build \in Builds
  BY FedOutcome
<1>3. /\ BoardOK(board') /\ KeepsNoRefusal' /\ Own(board)' /\ board'.store = << >>
      /\ StoreDrained' /\ OnlyTicked'
  BY <1>1, <1>2, DrainedOK, CleanKeepsNoRefusal DEF StoreDrained, OnlyTicked
<1>4. out' \in Seq(Frames)
  <2>1. TmFrames(Fed(tc)) \in Seq(Frames) /\ Sync \in Frames
    BY <1>2, FramesOf, WireFrames
  <2> QED
    BY <1>1, <2>1
<1>5. asked'.tc = tc /\ asked'.pending = Len(board.store)
  BY <1>1
<1>6. AnsweredIfStoreEmpty'
  <2>1. ASSUME tc # Malformed, Len(board.store) = 0 PROVE Complete'
    <3>1. board.store = << >>
      BY <2>1, Pending
    <3>2. Answered(Fed(tc).store)
      BY <2>1, <3>1, FedOutcome
    <3> QED
      BY <1>1, <1>2, <3>2, CompleteFrom
  <2> QED
    BY <1>5, <2>1 DEF AnsweredIfStoreEmpty
<1> QED
  BY <1>1, <1>3, <1>4, <1>5, <1>6, Pending DEF PassOK

(* The count of passes starts again at every tick.                         *)
LEMMA PassCount ==
  ASSUME NEW n \in Nat \ {0}, NEW k \in 0 .. n - 1
  PROVE  (k + 1) % n \in 0 .. n - 1 /\ (k + 1 >= n => (k + 1) % n = 0)
<1>1. (k + 1) % n \in 0 .. n - 1
  BY DivMod
<1>2. CASE k + 1 >= n
  <2>1. k + 1 = 1 * n + 0 /\ 0 \in 0 .. n - 1 /\ k + 1 \in Nat
    BY <1>2
  <2>2. (k + 1) % n = 0
    BY <2>1, ModUnique
  <2> QED BY <1>1, <2>2
<1> QED
  BY <1>1, <1>2

(* The rest of a pass of the MSP430 loop                                   *)
LEMMA MspPassOK ==
  ASSUME LoopIInv, PassOK, build = "msp430", NEW b, BoardOK(b), Clean(b), Own(b), IsBoard(b),
         NEW frames \in Seq(Frames), MspPass(b, frames)
  PROVE  /\ BoardOK(board') /\ KeepsNoRefusal' /\ Own(board)' /\ StoreDrained'
         /\ loops' \in 0 .. LoopsPerTick - 1 /\ UNCHANGED <<seen, halted>>
         /\ out' \in Seq(Frames) /\ (out' = frames \/ out' = Append(frames, Sync))
         /\ IF loops + 1 >= LoopsPerTick THEN loops' = 0 ELSE board' = b
         /\ board'.fsm = b.fsm /\ board'.mem = b.mem /\ board'.par = b.par
         /\ board'.obt = b.obt /\ board'.hk.on = b.hk.on /\ board'.hk.every = b.hk.every
<1>1. /\ IF loops + 1 >= LoopsPerTick
         THEN board' = S3Tick(b) /\ out' = Append(frames, Sync)
         ELSE board' = b /\ out' = frames
      /\ loops' = (loops + 1) % LoopsPerTick /\ UNCHANGED <<build, seen, halted>>
  BY MspPassEffect DEF LoopIInv
<1>2. /\ loops' \in 0 .. LoopsPerTick - 1
      /\ loops + 1 >= LoopsPerTick => loops' = 0
  BY <1>1, PassCount, LoopAssumption DEF PassOK
<1>3. /\ BoardOK(board') /\ Clean(board') /\ Own(board')
      /\ board'.fsm = b.fsm /\ board'.mem = b.mem /\ board'.par = b.par
      /\ board'.obt = b.obt /\ board'.hk.on = b.hk.on /\ board'.hk.every = b.hk.every
  BY <1>1, TickOutcome, TicksAreMade
<1>4. KeepsNoRefusal' /\ Own(board)' /\ StoreDrained'
  BY <1>1, <1>3, CleanKeepsNoRefusal DEF StoreDrained
<1>5. out' \in Seq(Frames) /\ (out' = frames \/ out' = Append(frames, Sync))
  BY <1>1, WireFrames
<1> QED
  BY <1>1, <1>2, <1>3, <1>4, <1>5

LEMMA MspTcPass ==
  ASSUME LoopIInv, PassOK, NEW tc \in Tcs, MspTc(tc)
  PROVE  PassOK'
<1>1. /\ build = "msp430" /\ MspPass(Drained(Fed(tc)), TmFrames(Fed(tc)))
      /\ asked' = [tc |-> tc, pending |-> Len(board.store)]
  BY DEF MspTc
<1>2. BoardOK(Fed(tc)) /\ IsBoard(Fed(tc)) /\ Own(Fed(tc)) /\ build \in Builds
  BY FedOutcome, FedClock
<1> DEFINE b == Drained(Fed(tc))
<1>3. BoardOK(b) /\ Clean(b) /\ IsBoard(b) /\ Own(b) /\ b.store = << >>
  BY <1>2, DrainedOK, DrainedKeeps DEF Keeps
<1> HIDE DEF b
<1>4. TmFrames(Fed(tc)) \in Seq(Frames)
  BY <1>2, FramesOf
<1>5. /\ BoardOK(board') /\ KeepsNoRefusal' /\ Own(board)' /\ StoreDrained'
      /\ loops' \in 0 .. LoopsPerTick - 1 /\ UNCHANGED <<seen, halted>>
      /\ out' \in Seq(Frames)
      /\ out' = TmFrames(Fed(tc)) \/ out' = Append(TmFrames(Fed(tc)), Sync)
      /\ IF loops + 1 >= LoopsPerTick THEN loops' = 0 ELSE board' = b
  BY <1>1, <1>3, <1>4, MspPassOK DEF b
<1>6. asked'.tc = tc /\ asked'.pending = Len(board.store)
  BY <1>1
<1>7. AnsweredIfStoreEmpty'
  <2>1. ASSUME tc # Malformed, Len(board.store) = 0 PROVE Complete'
    <3>1. board.store = << >>
      BY <2>1, Pending
    <3>2. Answered(Fed(tc).store)
      BY <2>1, <3>1, FedOutcome
    <3> QED
      BY <1>2, <1>5, <3>2, CompleteFrom
  <2> QED
    BY <1>6, <2>1 DEF AnsweredIfStoreEmpty
<1>8. OnlyTicked'
  BY <1>3, <1>5 DEF OnlyTicked
<1> QED
  BY <1>5, <1>6, <1>7, <1>8, Pending DEF PassOK

LEMMA MspSkipPass ==
  ASSUME LoopIInv, PassOK, MspSkip
  PROVE  PassOK'
<1>1. build = "msp430" /\ asked' = NoTc /\ MspPass(board, << >>)
  BY DEF MspSkip
<1>2. BoardOK(board) /\ Clean(board) /\ IsBoard(board) /\ Own(board)
  BY DEF PassOK, LoopIInv, KeepsNoRefusal, Clean, IsRefusal
<1>3. << >> \in Seq(Frames)
  OBVIOUS
<1>4. /\ BoardOK(board') /\ KeepsNoRefusal' /\ Own(board)' /\ StoreDrained'
      /\ loops' \in 0 .. LoopsPerTick - 1 /\ UNCHANGED <<seen, halted>>
      /\ out' \in Seq(Frames)
  BY <1>1, <1>2, <1>3, MspPassOK
<1> QED
  BY <1>1, <1>4, NothingAsked DEF PassOK

(* The board of a simulator tick                                           *)
LEMMA SimTickedOK ==
  ASSUME PassOK, build = "sim", NEW s \in Sensors
  PROVE  BoardOK(SimTicked(s)) /\ Clean(SimTicked(s)) /\ Own(SimTicked(s))
<1> DEFINE v == [board.par EXCEPT ![Uptime] = s.time]
<1> DEFINE o == ObtAdvance(board.obt, s.dt)
<1> DEFINE b == [board EXCEPT !.par = v]
<1> DEFINE c == [b EXCEPT !.obt = o]
<1>1. board \in Boards /\ Len(board.store) <= StoreCap /\ Clean(board) /\ Own(board)
  BY DEF PassOK, BoardOK, KeepsNoRefusal, Clean, IsRefusal
<1>2. v \in [Params -> Values] /\ o \in Times
  <2>1. s.time \in Values /\ s.dt \in 0 .. FineUnits - 1
    BY DtAssumption DEF Sensors
  <2>2. v \in [Params -> Values]
    BY <1>1, <2>1, LoopAssumption DEF Boards
  <2>3. board.obt \in Times
    BY <1>1 DEF Boards
  <2> QED
    BY <2>1, <2>2, <2>3, ObtAdvanceExact
<1>3. SimTicked(s) = S3Tick(c)
  <2>1. [board EXCEPT !.par[Uptime] = s.time, !.obt = ObtAdvance(@, s.dt)] = c
    BY <1>1 DEF Boards
  <2> QED
    BY <2>1 DEF SimTicked
<1> HIDE DEF v, o
<1>4. b \in Boards /\ b.store = board.store
  BY <1>1, <1>2, FieldSet
<1> HIDE DEF b
<1>5. c \in Boards /\ c.store = board.store
  BY <1>2, <1>4, FieldSet
<1> HIDE DEF c
<1>6. BoardOK(c) /\ Clean(c) /\ Own(c)
  BY <1>1, <1>5 DEF BoardOK, Clean, Own
<1> QED
  BY <1>3, <1>6, TickOutcome, TicksAreMade

LEMMA SimSensorPass ==
  ASSUME LoopIInv, PassOK, NEW s \in Sensors, SimSensor(s)
  PROVE  PassOK'
<1>1. /\ asked' = NoTc /\ UNCHANGED <<build, loops, halted>>
      /\ build = "sim" /\ build \in Builds
  BY DEF SimSensor, LoopIInv
<1>2. CASE s.long
  <2>1. /\ board' = Drained(SimTicked(s)) /\ seen' = Seen(s)
        /\ out' = TmFrames(SimTicked(s)) \o <<Actuator(Command(s)), Sync>>
    BY <1>2 DEF SimSensor
  <2>2. BoardOK(SimTicked(s)) /\ Own(SimTicked(s))
    BY <1>1, SimTickedOK
  <2>3. BoardOK(board') /\ KeepsNoRefusal' /\ Own(board)' /\ StoreDrained'
    BY <1>1, <2>1, <2>2, DrainedOK, CleanKeepsNoRefusal DEF StoreDrained
  <2>4. TmFrames(SimTicked(s)) \in Seq(Frames) /\ <<Actuator(Command(s)), Sync>> \in Seq(Frames)
    BY <1>1, <2>2, FramesOf, WireFrames
  <2>5. out' \in Seq(Frames)
    BY <2>1, <2>4
  <2>6. seen' \in BOOLEAN
    BY <2>1 DEF Seen
  <2> QED
    BY <1>1, <2>3, <2>5, <2>6, NothingAsked DEF PassOK
<1>3. CASE ~s.long
  <2>1. out' = <<Sync>> /\ UNCHANGED <<board, seen>>
    BY <1>3 DEF SimSensor
  <2>2. out' \in Seq(Frames)
    BY <2>1, WireFrames
  <2> QED
    BY <1>1, <2>1, <2>2, NothingAsked DEF PassOK, KeepsNoRefusal, Own, StoreDrained
<1> QED
  BY <1>2, <1>3

LEMMA OtherPass ==
  ASSUME LoopIInv, PassOK,
         \/ \E s \in Sensors : ZynqSensor(s) \/ Stm32Sensor(s)
         \/ OtherFrame \/ SkipFrame \/ SimHalt
  PROVE  PassOK'
<1>1. BoardOK(board) /\ Clean(board) /\ Own(board) /\ build \in Builds
  BY DEF PassOK, KeepsNoRefusal, Clean, IsRefusal, LoopIInv
<1>2. asked' = NoTc /\ UNCHANGED <<build, loops>> /\ build # "msp430" /\ board.store = << >>
  BY DEF ZynqSensor, Stm32Sensor, OtherFrame, SkipFrame, SimHalt, PassOK, StoreDrained
<1>3. ASSUME BoardOK(board'), Clean(board'), Own(board'), board'.store = << >>,
             out' \in Seq(Frames), seen' \in BOOLEAN, halted' \in BOOLEAN
      PROVE  PassOK'
  BY <1>2, <1>3, NothingAsked, CleanKeepsNoRefusal DEF PassOK, StoreDrained
<1>4. /\ BoardOK(Drained(board)) /\ Clean(Drained(board)) /\ Own(Drained(board))
      /\ Drained(board).store = << >>
  BY <1>1, DrainedOK
<1>5. /\ Append(TmFrames(board), Sync) \in Seq(Frames)
      /\ <<Sync>> \in Seq(Frames) /\ << >> \in Seq(Frames)
      /\ \A s : <<Actuator(Command(s))>> \in Seq(Frames)
  BY <1>1, FramesOf, WireFrames
<1>6. ASSUME NEW s \in Sensors, ZynqSensor(s) PROVE PassOK'
  <2>1. out' = <<Actuator(Command(s))>> \o Append(TmFrames(board), Sync)
    BY <1>6 DEF ZynqSensor
  <2>2. out' \in Seq(Frames)
    BY <1>5, <2>1
  <2>3. seen' \in BOOLEAN
    BY <1>6 DEF ZynqSensor, Seen
  <2>4. board' = Drained(board) /\ halted' = halted
    BY <1>6 DEF ZynqSensor
  <2> QED
    BY <1>3, <1>4, <2>2, <2>3, <2>4 DEF PassOK
<1>7. ASSUME NEW s \in Sensors, Stm32Sensor(s) PROVE PassOK'
  <2>1. out' = <<Sync>> /\ UNCHANGED <<seen, halted>>
    BY <1>7 DEF Stm32Sensor
  <2>2. CASE board' = board
    BY <1>1, <1>2, <1>3, <1>5, <2>1, <2>2 DEF PassOK
  <2>3. CASE board' # board
    <3> DEFINE v == [board.par EXCEPT ![Uptime] = s.time]
    <3>1. board' = [board EXCEPT !.par = v]
      BY <1>7, <2>3 DEF Stm32Sensor
    <3>2. board \in Boards /\ board.par \in [Params -> Values] /\ s.time \in Values
      BY <1>1 DEF BoardOK, Boards, Sensors
    <3>3. v \in [Params -> Values]
      BY <3>2, LoopAssumption
    <3> HIDE DEF v
    <3>4. board' \in Boards /\ board'.store = board.store
      BY <3>1, <3>2, <3>3, FieldSet
    <3>5. BoardOK(board') /\ Clean(board') /\ Own(board') /\ board'.store = << >>
      BY <1>1, <1>2, <3>4 DEF BoardOK, Clean, Own
    <3> QED
      BY <1>3, <1>5, <2>1, <3>5 DEF PassOK
  <2> QED
    BY <2>2, <2>3
<1>8. CASE OtherFrame
  <2>1. UNCHANGED <<seen, halted>>
    BY <1>8 DEF OtherFrame
  <2>2. \/ out' = Append(TmFrames(board), Sync) /\ board' = Drained(board)
        \/ out' = <<Sync>> /\ board' = board
    BY <1>8 DEF OtherFrame
  <2> QED
    BY <1>1, <1>2, <1>3, <1>4, <1>5, <2>1, <2>2 DEF PassOK
<1>9. CASE SkipFrame
  BY <1>1, <1>2, <1>3, <1>5, <1>9 DEF SkipFrame, PassOK
<1>10. CASE SimHalt
  <2>1. halted' \in BOOLEAN
    BY <1>10, Zenon DEF SimHalt
  <2> QED
    BY <1>1, <1>2, <1>3, <1>5, <1>10, <2>1 DEF SimHalt, PassOK
<1> QED
  BY <1>6, <1>7, <1>8, <1>9, <1>10

LEMMA NextPass ==
  ASSUME LoopIInv, PassOK, [Next]_vars
  PROVE  PassOK'
<1>1. CASE UNCHANGED vars
  BY <1>1 DEF vars, PassOK, KeepsNoRefusal, Own, StoreDrained, OnlyTicked,
              AnsweredIfStoreEmpty, Complete, Verification
<1>2. CASE \E tc \in Tcs : TcFrame(tc) \/ MspTc(tc)
  BY <1>2, TcFramePass, MspTcPass
<1>3. CASE SensorFrame
  BY <1>3, SimSensorPass, OtherPass DEF SensorFrame
<1>4. CASE OtherFrame \/ SkipFrame \/ SimHalt
  BY <1>4, OtherPass
<1>5. CASE MspSkip
  BY <1>5, MspSkipPass
<1>6. CASE Terminated
  BY <1>1, <1>6 DEF Terminated
<1> QED
  BY <1>1, <1>2, <1>3, <1>4, <1>5, <1>6 DEF Next

LEMMA InitPass == Init => PassOK
<1> SUFFICES ASSUME Init PROVE PassOK
  OBVIOUS
<1>1. build \in {"zynqmp", "msp430", "stm32", "sim"} /\ board = Boot[build]
  BY BuildAssumption DEF Init
<1>2. ASSUME NEW f \in FsmContexts, NEW st \in Seq(Packets)
      PROVE  Fresh(f, st) \in Boards /\ Fresh(f, st).store = st
  <2>1. [on |-> TRUE, every |-> HkInterval, left |-> HkInterval]
          \in [on : BOOLEAN, every : Nat, left : Nat]
    BY MemoryAssumption
  <2>2. ObtZero \in Times
    BY ObtAssumption DEF ObtZero, Times
  <2>3. /\ [c \in Cells |-> 0] \in [Cells -> Bytes]
        /\ [p \in Params |-> 0] \in [Params -> Values]
    BY MemoryAssumption
  <2> QED
    BY <2>1, <2>2, <2>3 DEF Fresh, Boards
<1>3. FsmInit \in FsmContexts /\ FsmToSafe(FsmInit) \in FsmContexts
  <2>1. FsmInit \in FsmContexts
    BY EntryAssumption DEF FsmInit, FsmContexts, Modes
  <2>2. Perform(FsmInit, 2) = FsmToSafe(FsmInit)
    BY DEF Perform
  <2> QED
    BY <2>1, <2>2, PerformFsm
<1> DEFINE event == <<5, 1, << >>>>
<1>4. event \in Packets /\ event[1] # 1 /\ event[1] \in Makes(build)
  BY PacketBare, MakesReports
<1> HIDE DEF event
<1>5. /\ << >> \in Seq(Packets) /\ Len(<< >>) = 0 /\ DOMAIN << >> = {}
      /\ <<event>> \in Seq(Packets) /\ Len(<<event>>) = 1 /\ DOMAIN <<event>> = {1}
      /\ <<event>>[1] = event
  BY <1>4
<1>6. /\ Boot["zynqmp"] = Fresh(FsmInit, << >>) /\ Boot["msp430"] = Fresh(FsmInit, <<event>>)
      /\ Boot["stm32"] = Fresh(FsmInit, << >>)
      /\ Boot["sim"] = Fresh(FsmToSafe(FsmInit), << >>)
  BY DEF Boot, ZynqBoot, MspBoot, Stm32Boot, SimBoot, event
<1>7. board \in Boards /\ (board.store = << >> \/ board.store = <<event>>)
  <2>1. /\ Fresh(FsmInit, << >>) \in Boards /\ Fresh(FsmInit, << >>).store = << >>
        /\ Fresh(FsmToSafe(FsmInit), << >>) \in Boards
        /\ Fresh(FsmToSafe(FsmInit), << >>).store = << >>
    BY <1>2, <1>3, <1>5
  <2>2. Fresh(FsmInit, <<event>>) \in Boards /\ Fresh(FsmInit, <<event>>).store = <<event>>
    BY <1>2, <1>3, <1>5
  <2>3. \/ board = Fresh(FsmInit, << >>) \/ board = Fresh(FsmToSafe(FsmInit), << >>)
        \/ board = Fresh(FsmInit, <<event>>)
    BY <1>1, <1>6, Zenon
  <2> QED
    BY <2>1, <2>2, <2>3, Zenon
<1>8. BoardOK(board) /\ KeepsNoRefusal /\ Own(board)
  <2>1. CASE board.store = << >>
    <3>1. Len(board.store) = 0 /\ DOMAIN board.store = {}
      BY <1>5, <2>1, Zenon
    <3> QED
      BY <1>7, <3>1, MemoryAssumption DEF BoardOK, KeepsNoRefusal, Own
  <2>2. CASE board.store = <<event>>
    <3>1. Len(board.store) = 1 /\ DOMAIN board.store = {1} /\ board.store[1] = event
      BY <1>5, <2>2, Zenon
    <3>2. \A i \in DOMAIN board.store :
             board.store[i][1] # 1 /\ board.store[i][1] \in Makes(build)
      BY <1>4, <3>1
    <3> QED
      BY <1>7, <3>1, <3>2, LoopAssumption, MemoryAssumption DEF BoardOK, KeepsNoRefusal, Own
  <2> QED
    BY <1>7, <2>1, <2>2
<1>9. out \in Seq(Frames) /\ loops \in 0 .. LoopsPerTick - 1
  BY LoopAssumption DEF Init
<1>10. seen \in BOOLEAN /\ halted \in BOOLEAN
  BY Zenon DEF Init
<1>11. /\ asked.tc \in Tcs \cup {Malformed} /\ asked.pending \in 0 .. StoreCap
       /\ AnsweredIfStoreEmpty /\ OnlyTicked
  BY MemoryAssumption DEF Init, NoTc, AnsweredIfStoreEmpty, OnlyTicked
<1>12. StoreDrained
  <2>1. build # "msp430" =>
          board = Fresh(FsmInit, << >>) \/ board = Fresh(FsmToSafe(FsmInit), << >>)
    BY <1>1, <1>6, Zenon
  <2> QED
    BY <1>2, <1>3, <1>5, <2>1, Zenon DEF StoreDrained
<1> QED
  BY <1>8, <1>9, <1>10, <1>11, <1>12 DEF PassOK

LEMMA PassInvariant == Spec => []PassOK
<1>1. LoopIInv /\ PassOK /\ [Next]_vars => PassOK'
  BY NextPass
<1> QED
  BY <1>1, InitPass, LoopInvariant, PTL DEF Spec

(* The TM store of no build exceeds its capacity, on the MSP430 neither,   *)
(* where housekeeping piles up between telecommands; every field of the    *)
(* board, of a packet and of a frame keeps its width.                      *)
THEOREM LoopTypes == Spec => []TypeOK
BY TypedFrom, LoopInvariant, PassInvariant, PTL

(* SRS-082: a telecommand that finds an empty store is answered in full by *)
(* the pass that read it, on every build, by every handler, for every      *)
(* region table and every store of three packets or more.                  *)
THEOREM AnsweredInFull == Spec => []AnsweredIfStoreEmpty
<1>1. PassOK => AnsweredIfStoreEmpty
  BY DEF PassOK
<1> QED
  BY <1>1, PassInvariant, PTL

(* Frames among which there is no TM(1,2)                                  *)
NoRefusal(f) == \A i \in DOMAIN f : ~(f[i][1] = 4 /\ f[i][2] = 1 /\ f[i][3] = 2)

LEMMA NoRefusalConcat ==
  ASSUME NEW f \in Seq(Frames), NEW g \in Seq(Frames), NoRefusal(f), NoRefusal(g)
  PROVE  NoRefusal(f \o g)
<1>1. /\ Len(f) \in Nat /\ Len(g) \in Nat
      /\ DOMAIN f = 1 .. Len(f) /\ DOMAIN g = 1 .. Len(g)
      /\ f \o g \in Seq(Frames) /\ DOMAIN (f \o g) = 1 .. Len(f) + Len(g)
  OBVIOUS
<1>2. ASSUME NEW i \in 1 .. Len(f) + Len(g)
      PROVE  ~((f \o g)[i][1] = 4 /\ (f \o g)[i][2] = 1 /\ (f \o g)[i][3] = 2)
  <2>1. CASE i <= Len(f)
    <3>1. (f \o g)[i] = f[i] /\ i \in DOMAIN f
      BY <1>1, <2>1
    <3> QED
      BY <3>1 DEF NoRefusal
  <2>2. CASE ~(i <= Len(f))
    <3>1. (f \o g)[i] = g[i - Len(f)] /\ i - Len(f) \in DOMAIN g
      BY <1>1, <2>2
    <3> QED
      BY <3>1 DEF NoRefusal
  <2> QED
    BY <2>1, <2>2
<1> QED
  BY <1>1, <1>2 DEF NoRefusal

LEMMA NoRefusalSync ==
  ASSUME NEW f \in Seq(Frames), NoRefusal(f)
  PROVE  NoRefusal(Append(f, Sync))
<1>1. /\ Len(f) \in Nat /\ DOMAIN f = 1 .. Len(f)
      /\ DOMAIN Append(f, Sync) = 1 .. Len(f) + 1
      /\ \A i \in 1 .. Len(f) : Append(f, Sync)[i] = f[i]
      /\ Append(f, Sync)[Len(f) + 1] = Sync
  OBVIOUS
<1>2. \A i \in 1 .. Len(f) + 1 : i \in 1 .. Len(f) \/ i = Len(f) + 1
  BY <1>1
<1> QED
  BY <1>1, <1>2, WireFrames DEF NoRefusal

LEMMA CleanFrames ==
  ASSUME NEW b, BoardOK(b), Clean(b), Own(b), build \in Builds
  PROVE  TmFrames(b) \in Seq(Frames) /\ NoRefusal(TmFrames(b))
<1>1. /\ TmFrames(b) \in Seq(Frames) /\ Len(b.store) \in Nat
      /\ Len(TmFrames(b)) = Len(b.store) /\ DOMAIN b.store = 1 .. Len(b.store)
      /\ \A i \in 1 .. Len(b.store) :
           TmFrames(b)[i][2] = b.store[i][1] /\ TmFrames(b)[i][3] = b.store[i][2]
  BY FramesOf
<1>2. DOMAIN TmFrames(b) = 1 .. Len(b.store)
  BY <1>1
<1> QED
  BY <1>1, <1>2 DEF NoRefusal, Clean, IsRefusal

(* What a refusal must leave alone                                         *)
Untouched ==
  /\ board'.fsm = board.fsm /\ board'.par = board.par
  /\ board'.mem = board.mem /\ board'.obt = board.obt
  /\ board'.hk.on = board.hk.on /\ board'.hk.every = board.hk.every

LEMMA RefusalUntouched ==
  ASSUME LoopIInv, PassOK, [Next]_vars, ~UNCHANGED vars
  PROVE  NoRefusal(out') \/ Untouched
<1>1. BoardOK(board) /\ Clean(board) /\ IsBoard(board) /\ Own(board) /\ build \in Builds
  BY DEF PassOK, LoopIInv, KeepsNoRefusal, Clean, IsRefusal
<1>2. ASSUME NEW tc \in Tcs, TcFrame(tc) \/ MspTc(tc)
      PROVE  NoRefusal(out') \/ Untouched
  <2>1. /\ BoardOK(Fed(tc)) /\ IsBoard(Fed(tc)) /\ Own(Fed(tc))
        /\ Same(board, Fed(tc)) \/ Clean(Fed(tc))
    BY FedOutcome, FedClock
  <2>2. CASE Clean(Fed(tc))
    <3>1. TmFrames(Fed(tc)) \in Seq(Frames) /\ NoRefusal(TmFrames(Fed(tc)))
      BY <1>1, <2>1, <2>2, CleanFrames
    <3>2. out' = TmFrames(Fed(tc)) \/ out' = Append(TmFrames(Fed(tc)), Sync)
      BY <1>2 DEF TcFrame, MspTc, MspPass
    <3> QED
      BY <3>1, <3>2, NoRefusalSync
  <2>3. CASE Same(board, Fed(tc))
    <3> DEFINE b == Drained(Fed(tc))
    <3>1. BoardOK(b) /\ Clean(b) /\ IsBoard(b) /\ Own(b) /\ Same(Fed(tc), b)
      BY <1>1, <2>1, DrainedOK, DrainedKeeps DEF Keeps
    <3>2. board' = b \/ (build = "msp430" /\ MspPass(b, TmFrames(Fed(tc))))
      BY <1>2 DEF TcFrame, MspTc
    <3>0. TmFrames(Fed(tc)) \in Seq(Frames)
      BY <1>1, <2>1, FramesOf
    <3> HIDE DEF b
    <3>3. /\ board'.fsm = b.fsm /\ board'.mem = b.mem /\ board'.par = b.par
          /\ board'.obt = b.obt /\ board'.hk.on = b.hk.on /\ board'.hk.every = b.hk.every
      BY <3>0, <3>1, <3>2, MspPassOK
    <3> QED
      BY <2>3, <3>1, <3>3 DEF Same, Untouched
  <2> QED
    BY <2>1, <2>2, <2>3
<1>3. NoRefusal(<< >>) /\ NoRefusal(<<Sync>>) /\ NoRefusal(Append(TmFrames(board), Sync))
  <2>1. NoRefusal(<< >>) /\ NoRefusal(<<Sync>>)
    BY WireFrames DEF NoRefusal
  <2> QED
    BY <1>1, <2>1, CleanFrames, NoRefusalSync
<1>4. ASSUME NEW s \in Sensors, ZynqSensor(s) PROVE NoRefusal(out')
  <2> DEFINE f == <<Actuator(Command(s))>>
  <2> DEFINE g == Append(TmFrames(board), Sync)
  <2>1. out' = f \o g
    BY <1>4 DEF ZynqSensor
  <2>2. f \in Seq(Frames) /\ NoRefusal(f)
    BY WireFrames DEF NoRefusal
  <2>3. g \in Seq(Frames) /\ NoRefusal(g)
    BY <1>1, <1>3, FramesOf, WireFrames
  <2> HIDE DEF f, g
  <2> QED
    BY <2>1, <2>2, <2>3, NoRefusalConcat
<1>5. ASSUME NEW s \in Sensors, SimSensor(s) PROVE NoRefusal(out')
  <2>1. CASE s.long
    <3> DEFINE f == TmFrames(SimTicked(s))
    <3> DEFINE g == <<Actuator(Command(s)), Sync>>
    <3>1. out' = f \o g
      BY <1>5, <2>1 DEF SimSensor
    <3>2. f \in Seq(Frames) /\ NoRefusal(f)
      BY <1>1, <1>5, SimTickedOK, CleanFrames DEF SimSensor
    <3>3. g \in Seq(Frames) /\ NoRefusal(g)
      BY WireFrames DEF NoRefusal
    <3> HIDE DEF f, g
    <3> QED
      BY <3>1, <3>2, <3>3, NoRefusalConcat
  <2>2. CASE ~s.long
    BY <1>3, <1>5, <2>2 DEF SimSensor
  <2> QED
    BY <2>1, <2>2
<1>6. CASE \E s \in Sensors : Stm32Sensor(s)
  BY <1>3, <1>6 DEF Stm32Sensor
<1>7. CASE OtherFrame \/ SkipFrame \/ MspSkip \/ SimHalt
  <2>1. CASE MspSkip
    <3> DEFINE f == << >>
    <3>1. f \in Seq(Frames) /\ NoRefusal(f)
      BY <1>3
    <3>2. out' = f \/ out' = Append(f, Sync)
      BY <2>1 DEF MspSkip, MspPass
    <3> HIDE DEF f
    <3> QED
      BY <3>1, <3>2, NoRefusalSync
  <2> QED
    BY <1>3, <1>7, <2>1 DEF OtherFrame, SkipFrame, SimHalt
<1> QED
  BY <1>2, <1>4, <1>5, <1>6, <1>7 DEF Next, SensorFrame, Terminated

(* A telecommand refused by the gate, the routing table or any handler has *)
(* changed nothing, on every build; nor does a refusal wait in the store   *)
(* of the MSP430 and go out with a telecommand that is executed.           *)
THEOREM RefusalHasNoEffect == Spec => RefusedHasNoEffect
<1>1. ASSUME LoopIInv, PassOK, [Next]_vars
      PROVE  [(\E i \in DOMAIN out' : out'[i][1] = 4 /\ out'[i][2] = 1 /\ out'[i][3] = 2)
                => /\ board'.fsm = board.fsm /\ board'.par = board.par
                   /\ board'.mem = board.mem /\ board'.obt = board.obt
                   /\ board'.hk.on = board.hk.on /\ board'.hk.every = board.hk.every]_vars
  BY <1>1, RefusalUntouched, Zenon DEF NoRefusal, Untouched
<1> QED
  BY <1>1, LoopInvariant, PassInvariant, PTL DEF Spec, RefusedHasNoEffect

-----------------------------------------------------------------------------
(* RetryFindsRoom, for every store, interval and number of passes per tick *)
(* but 1: what waits behind a telecommand is the housekeeping of the tick  *)
(* that ended its pass, and the next pass does not tick.                   *)
LEMMA RetryStep ==
  ASSUME LoopIInv, PassOK, [Next]_vars, asked.pending > 0, asked'.pending > 0,
         ~UNCHANGED vars
  PROVE  board'.store = << >>
<1>1. PICK tc \in Tcs : TcFrame(tc) \/ MspTc(tc)
  <2>1. NoTc.pending = 0
    BY DEF NoTc
  <2>2. asked' # NoTc
    BY <2>1
  <2> QED
    BY <2>2 DEF Next, SensorFrame, ZynqSensor, Stm32Sensor, SimSensor, OtherFrame,
                SkipFrame, SimHalt, MspSkip, Terminated
<1>2. BoardOK(Fed(tc)) /\ Own(Fed(tc)) /\ build \in Builds /\ IsBoard(Fed(tc))
  BY FedOutcome, FedClock
<1> DEFINE b == Drained(Fed(tc))
<1>3. BoardOK(b) /\ Clean(b) /\ Own(b) /\ IsBoard(b) /\ b.store = << >>
  BY <1>2, DrainedOK, DrainedKeeps DEF Keeps
<1> HIDE DEF b
<1>4. CASE TcFrame(tc)
  BY <1>3, <1>4 DEF TcFrame, b
<1>5. CASE MspTc(tc)
  <2>1. asked'.pending = Len(board.store) /\ build = "msp430"
        /\ MspPass(b, TmFrames(Fed(tc)))
    BY <1>5 DEF MspTc, b
  <2>2. board.store # << >>
    BY <2>1
  <2>3. loops = 0 /\ ~(loops + 1 >= LoopsPerTick)
    BY <2>2, LoopAssumption DEF PassOK, OnlyTicked
  <2>4. TmFrames(Fed(tc)) \in Seq(Frames)
    BY <1>2, FramesOf
  <2>5. board' = b
    BY <1>3, <2>1, <2>3, <2>4, MspPassOK
  <2> QED
    BY <1>3, <2>5
<1> QED
  BY <1>1, <1>4, <1>5

THEOREM RetriesFindRoom == Spec => RetryFindsRoom
<1>1. ASSUME LoopIInv, PassOK, [Next]_vars
      PROVE  [asked.pending > 0 /\ asked'.pending > 0 => board'.store = << >>]_vars
  BY <1>1, RetryStep
<1> QED
  BY <1>1, LoopInvariant, PassInvariant, PTL DEF Spec, RetryFindsRoom

=============================================================================
