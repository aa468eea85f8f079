------------------------------- MODULE Context -------------------------------
(***************************************************************************)
(* The machine contexts under the coroutines, coroutine/context.  To the   *)
(* state of Coroutine this module adds the registers of each thread and    *)
(* the saved context, a few words of memory, in each struct chiba_co, and  *)
(* to each of its actions what that action does with them.                 *)
(*                                                                         *)
(* A context switch is a table of the registers stored and a table of the  *)
(* registers loaded, with the offsets in the assembly; registers that a    *)
(* callee may change are left out.  A register that belongs to a context   *)
(* holds the value <<context, register>>; the stack pointer with that      *)
(* value points into the context's stack.                                  *)
(***************************************************************************)
EXTENDS Coroutine, Integers, Sequences

VARIABLES
  arch,   \* the architecture the program is built for
  regs,   \* by thread, its registers
  mem     \* by context, the words of its struct chiba_co_asmctx, by offset

cvars == <<vars, arch, regs, mem>>

\* riscv64_soft is riscv64 without registers for doubles.
Archs == {"amd64_sysv", "amd64_windows", "aarch64", "riscv64", "riscv64_soft"}

-----------------------------------------------------------------------------
(* Tables: sets of a register and its offset.                              *)

At(first, names) == {[at |-> first + 8 * (k - 1), reg |-> <<names[k]>>] : k \in DOMAIN names}

Numbered(first, name, lo, hi) ==
  {[at |-> first + 8 * (k - lo), reg |-> <<name, k>>] : k \in lo .. hi}

\* xmm registers are stored and loaded as two words.
Xmm(first, lo, hi) ==
  {[at |-> first + 16 * (k - lo), reg |-> <<"xmm", k, 0>>] : k \in lo .. hi}
    \cup {[at |-> first + 16 * (k - lo) + 8, reg |-> <<"xmm", k, 1>>] : k \in lo .. hi}

\* What stands in the Windows thread block about the stack in use.
ThreadBlock == {<<"fiber_storage">>, <<"dealloc_stack">>, <<"stack_limit">>, <<"stack_base">>}

-----------------------------------------------------------------------------
(* Values, besides the registers of contexts: zero, places in the code, and *)
(* in the table made "the register r of the new coroutine".                 *)

Zero == <<"zero", <<>> >>
Code(n) == <<"code", <<n>> >>
Reg(r) == <<"its", <<r>> >>

Word(at, value) == [at |-> at, value |-> value]

-----------------------------------------------------------------------------
(* The architectures: the layout of chiba_co_asmctx with the stores and the *)
(* loads of _chiba_co_asm_switch, the words chiba_co_asmctx_make sets, and  *)
(* the register in which _chiba_co_asm_entry finds the entry function.  The *)
(* amd64 switches store an address of their own code as the program         *)
(* counter, which must be that of their ret; the others their return        *)
(* address, <<>> here.                                                      *)

\* A plausible mistake: the operand was not changed when a store of 4 bytes came in.
lea_ripBefore == \h39

\* The operand of lea, counted from the end of that instruction of 7 bytes.
lea_rip == \h3d

amd64_sysv ==
  [stores |-> At(0, <<"rip", "rsp", "rbp", "rbx", "r12", "r13", "r14", "r15">>),
   loads  |-> At(8, <<"rsp", "rbp", "rbx", "r12", "r13", "r14", "r15">>) \cup At(0, <<"rip">>),
   made   |-> {Word(0, Code("asm_entry")), Word(8, Reg("rsp")), Word(32, Code("co_entry"))},
   pc |-> <<"rip">>, sp |-> <<"rsp">>, entry |-> <<"r12">>,
   stored |-> <<7 + lea_rip>>,
   ret |-> <<7 + 3 + 7 * 4 + 7 * 4 + 2>>]   \* by the lengths of the instructions before it

amd64_windows ==
  LET saved == At(8, <<"rsp", "rbp", "rbx", "r12", "r13", "r14", "r15", "rdi", "rsi">>)
                 \cup Xmm(\h50, 6, 15)
                 \cup At(\hf0, <<"fiber_storage", "dealloc_stack", "stack_limit", "stack_base">>)
  IN
  [stores |-> At(0, <<"rip">>) \cup saved,
   loads  |-> saved \cup At(0, <<"rip">>),
   made   |-> {Word(0, Code("asm_entry")), Word(8, Reg("rsp")), Word(32, Code("co_entry")),
               Word(\hf8, Reg("dealloc_stack")), Word(\h100, Reg("stack_limit")),
               Word(\h108, Reg("stack_base"))},
   pc |-> <<"rip">>, sp |-> <<"rsp">>, entry |-> <<"r12">>,
   stored |-> <<7 + \h13e>>,
   ret |-> <<7 + 3 + 9 * 4 + (2 * 4 + 5 + 7 * 8) + (9 + 4 * 4 + 3 + 4 * 7)
               + (4 * 7 + 3 * 4 + 7) + (7 * 8 + 5 + 2 * 4) + 9 * 4 + 2>>]

aarch64 ==
  [stores |-> Numbered(0, "x", 19, 30) \cup Numbered(7 * 16, "d", 8, 15) \cup At(6 * 16, <<"sp", "pc">>),
   loads  |-> Numbered(0, "x", 19, 30) \cup Numbered(7 * 16, "d", 8, 15) \cup At(6 * 16, <<"sp", "pc">>),
   made   |-> {Word(104, Code("asm_entry")), Word(96, Reg("sp")), Word(8, Code("co_entry"))},
   pc |-> <<"pc">>, sp |-> <<"sp">>, entry |-> <<"x", 20>>,
   stored |-> <<>>, ret |-> <<>>]

\* With or without registers for doubles.
riscv64(doubles) ==
  LET saved == Numbered(0, "s", 0, 11) \cup At(\h60, <<"ra", "pc", "sp">>)
                 \cup (IF doubles THEN Numbered(\h78, "fs", 0, 11) ELSE {})
  IN
  [stores |-> saved,
   loads  |-> saved,
   made   |-> {Word(\h68, Code("asm_entry")), Word(\h70, Reg("sp")), Word(8, Code("co_entry"))},
   pc |-> <<"pc">>, sp |-> <<"sp">>, entry |-> <<"s", 1>>,
   stored |-> <<>>, ret |-> <<>>]

riscv64_hard == riscv64(TRUE)
riscv64_soft == riscv64(FALSE)

Machine(a) ==
  CASE a = "amd64_sysv"    -> amd64_sysv
    [] a = "amd64_windows" -> amd64_windows
    [] a = "aarch64"       -> aarch64
    [] a = "riscv64"       -> riscv64_hard
    [] a = "riscv64_soft"  -> riscv64_soft

\* The ABIs: the registers a function, and so a context switch, must leave to its
\* caller.  The floating-point control words, which the amd64 ABIs add, are not
\* switched by any of the four.
CalleeSaved(a) ==
  CASE a = "amd64_sysv" -> {<<r>> : r \in {"rsp", "rbp", "rbx", "r12", "r13", "r14", "r15"}}
    [] a = "amd64_windows" ->
         {<<r>> : r \in {"rsp", "rbp", "rbx", "r12", "r13", "r14", "r15", "rdi", "rsi"}}
           \cup {<<"xmm", k, h>> : k \in 6 .. 15, h \in 0 .. 1} \cup ThreadBlock
    [] a = "aarch64" ->
         {<<"x", k>> : k \in 19 .. 29} \cup {<<"sp">>} \cup {<<"d", k>> : k \in 8 .. 15}
    [] a = "riscv64" ->
         {<<"s", k>> : k \in 0 .. 11} \cup {<<"sp">>} \cup {<<"fs", k>> : k \in 0 .. 11}
    [] a = "riscv64_soft" -> {<<"s", k>> : k \in 0 .. 11} \cup {<<"sp">>}

PC == Machine(arch).pc
SP == Machine(arch).sp
Registers == {p.reg : p \in Machine(arch).stores} \cup CalleeSaved(arch)

\* What the switch stores as the program counter, and where its caller goes on.
StoredPC(x) == IF Machine(arch).stored = <<>> THEN <<x, PC>> ELSE Code(Machine(arch).stored[1])
ReturnPC(x) == IF Machine(arch).ret = <<>> THEN <<x, PC>> ELSE Code(Machine(arch).ret[1])

\* What a context finds in its registers while its own code runs; a coroutine has
\* no fiber.
Own(x, r) == IF r = <<"fiber_storage">> /\ x \in Cos THEN Zero ELSE <<x, r>>

-----------------------------------------------------------------------------
Words == {p.at : p \in Machine(arch).stores \cup Machine(arch).loads}

\* The words of the context from, after the registers r of code on the stack of x
\* have been stored.
Stored(from, r, x) ==
  [w \in Words |->
     IF \E p \in Machine(arch).stores : p.at = w
       THEN LET p == CHOOSE q \in Machine(arch).stores : q.at = w IN
            IF p.reg = PC THEN StoredPC(x) ELSE r[p.reg]
       ELSE mem[from][w]]

\* The registers r, after a context has been loaded over them.
Loaded(r, context) ==
  [q \in Registers |->
     IF \E p \in Machine(arch).loads : p.reg = q
       THEN context[(CHOOSE p \in Machine(arch).loads : p.reg = q).at]
       ELSE r[q]]

\* The context made for c, zero where nothing is set.
Fresh(c) ==
  LET made == Machine(arch).made IN
  [w \in Words |->
     IF \E m \in made : m.at = w
       THEN LET v == (CHOOSE m \in made : m.at = w).value IN IF v[1] = "its" THEN <<c, v[2]>> ELSE v
       ELSE Zero]

\* _chiba_co_asm_switch from &from->ctx, on the stack the thread runs on.
AsmSwitch(t, context) ==
  /\ mem' = [mem EXCEPT ![From(t)] = Stored(From(t), regs[t], stack[t])]
  /\ regs' = [regs EXCEPT ![t] = Loaded(regs[t], context)]

CInit ==
  /\ Init
  /\ arch \in Archs
  /\ regs = [t \in Threads |-> [r \in Registers |-> IF r = PC THEN ReturnPC(t) ELSE Own(t, r)]]
  /\ mem = [x \in Contexts |-> [w \in Words |-> Zero]]

CStart(t, c, final) == Start(t, c, final) /\ AsmSwitch(t, Fresh(c))
CSwitchSlow(t, to, final) == SwitchSlow(t, to, final) /\ AsmSwitch(t, mem[to])
CSwitchFast(t, to) == SwitchFast(t, to) /\ AsmSwitch(t, mem[to])

\* The new coroutine's code gives its registers their values, but for the stack
\* pointer and the thread block.
CEntryWrap(t) ==
  /\ EntryWrap(t)
  /\ regs' = [regs EXCEPT ![t] =
       [r \in Registers |->
          IF r \in ThreadBlock \cup {SP} THEN @[r]
          ELSE IF r = PC THEN ReturnPC(stack[t]) ELSE Own(stack[t], r)]]
  /\ UNCHANGED mem

CNext ==
  /\ UNCHANGED arch
  /\ \E t \in Threads :
       \/ \E c \in Cos, final \in BOOLEAN : CStart(t, c, final)
       \/ \E to \in Cos \cup {t}, final \in BOOLEAN : CSwitchSlow(t, to, final)
       \/ \E to \in Cos : CSwitchFast(t, to)
       \/ CEntryWrap(t)
       \/ /\ DeferCall(t) \/ DeferDone(t) \/ EntryReturns(t) \/ StackTooSmall(t) \/ GuardAborts(t)
          /\ UNCHANGED <<regs, mem>>

CSpec == CInit /\ [][CNext]_cvars

CFairSpec == CSpec /\ \A t \in Threads : WF_vars(Progress(t))

-----------------------------------------------------------------------------
(* Properties.                                                             *)

\* A context that goes on finds every register that a function call preserves as it
\* left it, and the code it called the switch from, whatever thread it goes on, and
\* the thread block speaks of its stack.  A new coroutine finds the trampoline, its
\* own stack, and the entry function where the trampoline looks for it.
RegistersSurvive ==
  \A t \in Threads :
    IF pc[t] \in {"entry", "entry_wrap"}
      THEN /\ regs[t][PC] = Code("asm_entry")
           /\ regs[t][Machine(arch).entry] = Code("co_entry")
           /\ regs[t][SP] = <<stack[t], SP>>
      ELSE /\ regs[t][PC] = ReturnPC(stack[t])
           /\ \A r \in CalleeSaved(arch) : regs[t][r] = Own(stack[t], r)
=============================================================================
