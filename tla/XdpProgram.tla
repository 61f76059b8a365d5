-------------------------------- MODULE XdpProgram --------------------------------
(***************************************************************************)
(* The built-in XDP program as its 25 instructions, and the machine that   *)
(* runs them on a frame.  Packet addresses are offsets from the frame's    *)
(* first byte; r4 holds an offset or a loaded value, r0 the verdict.       *)
(* Halfwords are shown in network order, which both sides of a comparison  *)
(* are.                                                                    *)
(***************************************************************************)
EXTENDS UdpDecap

insn(op, off, imm) == [op |-> op, off |-> off, imm |-> imm]

jump(at, target) == target - at - 1

ETH_TYPE == 12
IP_PROTO == 14 + 9
UNTAGGED_PROTO == 15
UDP_CHECK == 16
PASS == 23

\* Mutant: the longest IPv4 header is asked for.
HEADERS_WithOptions == 14 + 60 + 8

HEADERS == 14 + 20 + 8

instructions == <<
    insn("ldx_ctx", 0, 0), insn("ldx_ctx", 0, 0),
    insn("mov_data", 0, 0), insn("add", 0, HEADERS), insn("jgt_end", jump(4, PASS), 0),
    insn("ldx_h", ETH_TYPE, 0), insn("jeq", jump(6, UNTAGGED_PROTO), ETHERTYPE_IPV4),
    insn("jne", jump(7, PASS), ETHERTYPE_VLAN),
    insn("mov_data", 0, 0), insn("add", 0, HEADERS + VLAN_TAG), insn("jgt_end", jump(10, PASS), 0),
    insn("ldx_h", ETH_TYPE + VLAN_TAG, 0), insn("jne", jump(12, PASS), ETHERTYPE_IPV4),
    insn("ldx_b", IP_PROTO + VLAN_TAG, 0), insn("ja", jump(14, UDP_CHECK), 0),
    insn("ldx_b", IP_PROTO, 0), insn("jne", jump(16, PASS), IPPROTO_UDP),
    insn("ldx_ctx", 0, 0), insn("ld_map", 0, 0), insn("ld_map", 0, 0), insn("miss", 0, 0),
    insn("call_redirect", 0, 0), insn("exit", 0, 0), insn("pass", 0, 0), insn("exit", 0, 0)>>

\* The bytes at an offset.  Behind a tag every field sits VLAN_TAG further on; what
\* an untagged frame has in place of the inner type is its total length.
Loaded(f, off) ==
    LET tagged == f.ethertype = ETHERTYPE_VLAN
    IN  CASE off = ETH_TYPE -> f.ethertype
          [] off = ETH_TYPE + VLAN_TAG -> IF tagged THEN f.inner ELSE f.total
          [] off = IP_PROTO -> IF tagged THEN 0 ELSE f.proto
          [] off = IP_PROTO + VLAN_TAG -> IF tagged THEN f.proto ELSE 0

\* One instruction; a load past the end of the frame is a fault.
Execute(f, m) ==
    LET i == instructions[m.pc + 1]
        on == [m EXCEPT !.pc = @ + 1]
        go(taken) == IF taken THEN [m EXCEPT !.pc = @ + 1 + i.off] ELSE on
        width == IF i.op = "ldx_h" THEN 2 ELSE 1
    IN  CASE i.op = "mov_data" -> [on EXCEPT !.r4 = 0]
          [] i.op = "add" -> [on EXCEPT !.r4 = @ + i.imm]
          [] i.op = "jgt_end" -> go(m.r4 > f.len)
          [] i.op \in {"ldx_h", "ldx_b"} ->
                IF i.off + width > f.len THEN [on EXCEPT !.r0 = "fault", !.halted = TRUE]
                ELSE [on EXCEPT !.r4 = Loaded(f, i.off)]
          [] i.op = "jeq" -> go(m.r4 = i.imm)
          [] i.op = "jne" -> go(m.r4 # i.imm)
          [] i.op = "ja" -> go(TRUE)
          [] i.op = "call_redirect" -> [on EXCEPT !.r0 = "redirect"]
          [] i.op = "pass" -> [on EXCEPT !.r0 = "pass"]
          [] i.op = "exit" -> [m EXCEPT !.halted = TRUE]
          [] OTHER -> on

\* What becomes of a frame: no jump goes back, so it takes at most one step for each
\* instruction.
Verdict(f) ==
    LET run[n \in 0 .. Len(instructions)] ==
            IF n = 0 THEN [pc |-> 0, r4 |-> 0, r0 |-> "none", halted |-> FALSE]
            ELSE LET before == run[n - 1]
                 IN  IF before.halted THEN before ELSE Execute(f, before)
    IN  run[Len(instructions)].r0
=============================================================================
