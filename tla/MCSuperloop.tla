---------------------------- MODULE MCSuperloop -----------------------------
(* Instances of Superloop for TLC.                                         *)
EXTENDS Superloop

MCWhitelist == {<<17, 1>>, <<8, 1>>, <<9, 128>>, <<20, 3>>}

(* Cell 0 is writable, cell 1 read-only, cell 2 is writable at the top of  *)
(* the address space, and cell 3 belongs to nobody.                        *)
MCRegions ==
  <<[start |-> 0, size |-> 1, base |-> 0, access |-> {"read", "write"}],
    [start |-> 1, size |-> 1, base |-> 1, access |-> {"read"}],
    [start |-> 3, size |-> 1, base |-> 2, access |-> {"write"}]>>

MCCrc(s) == IF s = << >> THEN 1 ELSE s[1]      \* tells apart the bytes read

(* The drain buffer of the ZynqMP is shorter than the longest packets its  *)
(* TM store takes.                                                         *)
MCOversize == {"zynqmp"} \X {3, 6, 20}

MCTc(svc, sub, arg) == [svc |-> svc, sub |-> sub, arg |-> arg]

MCTcs ==
  {Malformed, MCTc(17, 1, << >>), MCTc(17, 2, << >>), MCTc(5, 1, << >>),
   MCTc(8, 1, << >>), MCTc(8, 1, <<9>>)}
  \cup {MCTc(8, 1, <<fn>>) : fn \in 1 .. 3}
  \cup {MCTc(3, 5, <<1, 1>>), MCTc(3, 6, <<1>>), MCTc(3, 6, <<2>>)}
  \cup {MCTc(20, 1, <<"uptime", 1>>), MCTc(20, 1, <<"none", 1>>), MCTc(20, 3, <<"uptime">>)}
  \cup {MCTc(9, 128, << >>), MCTc(9, 128, <<CoarseRange - 1, FineUnits - 1>>)}
  \cup {MCTc(6, 2, <<a, 1, <<1>>>>) : a \in Addresses}
  \cup {MCTc(6, 2, <<a, 2, <<1, 1>>>>) : a \in {0, 3}} \cup {MCTc(6, 2, <<0, 2, <<1>>>>)}
  \cup {MCTc(6, 5, <<a, 1, 1>>) : a \in {0, 3}}
  \cup {MCTc(6, 9, <<0, n>>) : n \in 0 .. 2}

=============================================================================
