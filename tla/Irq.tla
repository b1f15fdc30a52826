-------------------------------- MODULE Irq --------------------------------
(***************************************************************************)
(* External interrupts of ccos: from the receiver of the UART through the  *)
(* PLIC to the handler table of platform.c, the loops of                   *)
(* platform_handle_s_external and uart16550_irq_handler, the ring of       *)
(* console.c and the thread that reads stdin.  Characters keep arriving    *)
(* between any two steps of the handler, which runs under the kernel lock  *)
(* on the boot hart, the only one with SEIE.  Characters are numbered.     *)
(***************************************************************************)
EXTENDS Integers, Sequences, FiniteSets

CONSTANTS
  Boot, Secondary,    \* the boot hart and the set of the others
  MAX_IRQ,            \* size of the handler table
  plic_num_sources,
  UartIrqs,           \* what the device tree may say of the UART
  CONSOLE_RBUF_SIZE,
  FifoSize,           \* of the UART
  ReadLens,           \* sizes of the reads of stdin
  MaxTyped, MaxTime   \* bounds

ASSUME IrqAssumption ==
  /\ Boot \notin Secondary /\ MAX_IRQ \in Nat \ {0} /\ plic_num_sources \in Nat
  /\ UartIrqs \subseteq Nat /\ CONSOLE_RBUF_SIZE \in Nat /\ CONSOLE_RBUF_SIZE > 1
  /\ FifoSize \in Nat \ {0} /\ ReadLens \subseteq Nat \ {0}

Hart == {Boot} \cup Secondary
NULL == "NULL"
Handler == {NULL, "uart16550_irq_handler"}
N == CONSOLE_RBUF_SIZE

VARIABLES
  now,
  uart_irq,                   \* 0 when the device tree has no UART
  fifo, typed, lost,          \* the receiver; characters typed, and dropped
  enabled, pending, inflight, \* PLIC: enable bits of the S contexts, requests, claimed
  s_irq_table, s_irq_stats,
  claims,                     \* auxiliary: times of the interrupts of the UART
  pc,                         \* where each hart is
  irq,                        \* what the handler has claimed
  g_rx_buf, g_rx_head, g_rx_tail,
  waiter,                     \* length of the blocked read, 0 when there is none
  got                         \* auxiliary: the characters read
uart == <<fifo, typed, lost>>
plic == <<enabled, pending, inflight>>
table == <<s_irq_table, s_irq_stats, claims>>
console == <<g_rx_buf, g_rx_head, g_rx_tail, waiter, got>>
vars == <<now, uart_irq, uart, plic, table, pc, irq, console>>

NoStat == [count |-> 0, first_tick |-> 0, last_tick |-> 0, max_delta |-> 0]

Init ==
  /\ now = 0 /\ uart_irq \in UartIrqs
  /\ fifo = <<>> /\ typed = 0 /\ lost = 0
  /\ enabled = [h \in Hart |-> {}] /\ pending = {} /\ inflight = {}
  /\ s_irq_table = [i \in 0 .. MAX_IRQ - 1 |-> NULL]
  /\ s_irq_stats = [i \in 0 .. MAX_IRQ - 1 |-> NoStat] /\ claims = <<>>
  /\ pc = [h \in Hart |-> IF h = Boot THEN "start" ELSE "off"] /\ irq = 0
  /\ g_rx_buf = [k \in 0 .. N - 1 |-> 0] /\ g_rx_head = 0 /\ g_rx_tail = 0
  /\ waiter = 0 /\ got = <<>>

----------------------------------------------------------------------------
(* Devices (external): time, the UART and the PLIC.                        *)

tick == now < MaxTime /\ now' = now + 1 /\ UNCHANGED <<uart_irq, uart, plic, table, pc, irq, console>>

receive ==
  /\ typed < MaxTyped /\ uart_irq # 0
  /\ typed' = typed + 1
  /\ IF Len(fifo) < FifoSize THEN fifo' = Append(fifo, typed') /\ UNCHANGED lost
     ELSE lost' = lost + 1 /\ UNCHANGED fifo
  /\ UNCHANGED <<now, uart_irq, plic, table, pc, irq, console>>

\* The line of the UART is high as long as there is data, and is not looked
\* at again before the interrupt is completed.
gateway ==
  /\ fifo # <<>> /\ uart_irq \in 1 .. plic_num_sources
  /\ uart_irq \notin pending \cup inflight
  /\ pending' = pending \cup {uart_irq}
  /\ UNCHANGED <<now, uart_irq, uart, enabled, inflight, table, pc, irq, console>>

----------------------------------------------------------------------------
(* Set up.                                                                 *)

platform_irq_table_init == s_irq_table' = [i \in 0 .. MAX_IRQ - 1 |-> NULL]

\* Only the first word of enable bits is written; nothing has set a bit of
\* the others yet.
FirstWord == 0 .. 31
plic_init_s_mode(h) == enabled' = [enabled EXCEPT ![h] = @ \ FirstWord]

platform_init ==
  /\ pc[Boot] = "start"
  /\ plic_init_s_mode(Boot) /\ platform_irq_table_init
  /\ pc' = [pc EXCEPT ![Boot] = "register"]
  /\ UNCHANGED <<now, uart_irq, uart, pending, inflight, s_irq_stats, claims, irq, console>>

\* An interrupt that PLIC or table do not have is passed over in silence.
plic_enable_irq(h, i) ==
  enabled' = IF i \in 1 .. plic_num_sources THEN [enabled EXCEPT ![h] = @ \cup {i}] ELSE enabled

platform_register_irq_handler(i, handler) ==
  IF i >= MAX_IRQ THEN UNCHANGED <<enabled, s_irq_table>>
  ELSE s_irq_table' = [s_irq_table EXCEPT ![i] = handler] /\ plic_enable_irq(Boot, i)

platform_boot_hart_init ==
  /\ pc[Boot] = "register"
  /\ platform_register_irq_handler(uart_irq, "uart16550_irq_handler")
  /\ pc' = [pc EXCEPT ![Boot] = "out"]
  /\ UNCHANGED <<now, uart_irq, uart, pending, inflight, s_irq_stats, claims, irq, console>>

platform_secondary_hart_init(h) ==
  /\ pc[h] = "off" /\ pc[Boot] \notin {"start", "register"}
  /\ plic_init_s_mode(h)
  /\ pc' = [pc EXCEPT ![h] = "out"]
  /\ UNCHANGED <<now, uart_irq, uart, pending, inflight, table, irq, console>>

----------------------------------------------------------------------------
(* The interrupt.                                                          *)

Goto(l) == pc' = [pc EXCEPT ![Boot] = l]

trap_external ==
  /\ pc[Boot] = "out" /\ pending \cap enabled[Boot] # {}
  /\ Goto("claim")
  /\ UNCHANGED <<now, uart_irq, uart, plic, table, irq, console>>

count_irq(st, t) ==
  [st EXCEPT !.count = @ + 1, !.last_tick = t, !.first_tick = IF st.count = 0 THEN t ELSE @,
             !.max_delta = IF st.count > 0 /\ t - st.last_tick > @ THEN t - st.last_tick ELSE @]

plic_claim_none ==
  /\ pc[Boot] = "claim" /\ pending \cap enabled[Boot] = {}
  /\ Goto("out")
  /\ UNCHANGED <<now, uart_irq, uart, plic, table, irq, console>>

\* Without a handler the interrupt is reported and completed at once.
plic_claim ==
  /\ pc[Boot] = "claim"
  /\ \E i \in pending \cap enabled[Boot] :
       /\ irq' = i
       /\ pending' = pending \ {i} /\ inflight' = inflight \cup {i}
       /\ IF i < MAX_IRQ THEN s_irq_stats' = [s_irq_stats EXCEPT ![i] = count_irq(@, now)]
          ELSE UNCHANGED s_irq_stats
       /\ claims' = Append(claims, now)
       /\ Goto(IF i < MAX_IRQ /\ s_irq_table[i] # NULL THEN "iir" ELSE "complete")
  /\ UNCHANGED <<now, uart_irq, uart, enabled, s_irq_table, console>>

\* IER enables nothing but received data, so IIR reports nothing else.
uart16550_irq_handler ==
  /\ pc[Boot] = "iir"
  /\ Goto(IF fifo = <<>> THEN "complete" ELSE "drain")
  /\ UNCHANGED <<now, uart_irq, uart, plic, table, irq, console>>

\* The ring takes one character more than it can tell from none.
Bad_rb_is_full == FALSE
rb_is_full == (g_rx_head + 1) % N = g_rx_tail

Available(head) == (head + N - g_rx_tail) % N

\* The characters a read of len takes from the ring buf up to head.
console_read_nonblock(buf, head, len) ==
  LET n == IF Available(head) < len THEN Available(head) ELSE len
  IN  /\ got' = got \o [k \in 1 .. n |-> buf[(g_rx_tail + k - 1) % N]]
      /\ g_rx_tail' = (g_rx_tail + n) % N

\* A full ring drops the character; a waiting reader is given what there is.
console_on_char_from_irq(c) ==
  /\ IF rb_is_full THEN lost' = lost + 1 /\ UNCHANGED <<g_rx_buf, g_rx_head>>
     ELSE /\ g_rx_buf' = [g_rx_buf EXCEPT ![g_rx_head] = c]
          /\ g_rx_head' = (g_rx_head + 1) % N /\ UNCHANGED lost
  /\ IF waiter = 0 THEN UNCHANGED <<got, g_rx_tail>>
     ELSE console_read_nonblock(g_rx_buf', g_rx_head', waiter)
  /\ waiter' = 0

uart16550_drain ==
  /\ pc[Boot] = "drain"
  /\ IF fifo = <<>> THEN Goto("iir") /\ UNCHANGED <<fifo, lost, console>>
     ELSE /\ fifo' = Tail(fifo) /\ console_on_char_from_irq(Head(fifo))
          /\ UNCHANGED pc
  /\ UNCHANGED <<now, uart_irq, typed, plic, table, irq>>

\* The interrupt of a handled device is not completed.
Bad_plic_complete ==
  /\ pc[Boot] = "complete"
  /\ inflight' = IF s_irq_table[irq] = NULL THEN inflight \ {irq} ELSE inflight
  /\ irq' = 0 /\ Goto("claim")
  /\ UNCHANGED <<now, uart_irq, uart, enabled, pending, table, console>>
plic_complete ==
  /\ pc[Boot] = "complete"
  /\ inflight' = inflight \ {irq}
  /\ irq' = 0 /\ Goto("claim")
  /\ UNCHANGED <<now, uart_irq, uart, enabled, pending, table, console>>

\* A thread reads stdin, under the kernel lock.
sys_read(len) ==
  /\ pc[Boot] = "out" /\ waiter = 0
  /\ IF Available(g_rx_head) > 0 THEN console_read_nonblock(g_rx_buf, g_rx_head, len) /\ UNCHANGED waiter
     ELSE waiter' = len /\ UNCHANGED <<got, g_rx_tail>>
  /\ UNCHANGED <<now, uart_irq, uart, plic, table, pc, irq, g_rx_buf, g_rx_head>>

----------------------------------------------------------------------------
Handling == \/ trap_external \/ plic_claim \/ plic_claim_none \/ uart16550_irq_handler
            \/ uart16550_drain \/ plic_complete
SetUp == platform_init \/ platform_boot_hart_init

Next == \/ tick \/ receive \/ gateway \/ SetUp \/ Handling
        \/ \E h \in Secondary : platform_secondary_hart_init(h)
        \/ \E len \in ReadLens : sys_read(len)

Spec == Init /\ [][Next]_vars

\* The hardware raises and delivers interrupts; the boot hart goes on.
FairSpec == Spec /\ WF_vars(gateway) /\ WF_vars(SetUp) /\ WF_vars(Handling)

----------------------------------------------------------------------------
Ring == [k \in 1 .. Available(g_rx_head) |-> g_rx_buf[(g_rx_tail + k - 1) % N]]

\* Every character typed is read once and in order, is still on its way, or
\* was dropped by a full buffer: the ring never takes itself for empty.
InputInOrder ==
  LET all == got \o Ring \o fifo
  IN  /\ Len(all) + lost = typed
      /\ \A j, k \in 1 .. Len(all) : j < k => all[j] < all[k]

\* The statistics that irqstat shows are those of the interrupts that came.
Gaps == {claims[k + 1] - claims[k] : k \in 1 .. Len(claims) - 1}
StatsRight ==
  uart_irq \in 1 .. MAX_IRQ - 1 =>
    LET st == s_irq_stats[uart_irq]
    IN  /\ st.count = Len(claims)
        /\ Len(claims) > 0 => st.first_tick = claims[1] /\ st.last_tick = claims[Len(claims)]
        /\ st.max_delta = IF Gaps = {} THEN 0 ELSE CHOOSE g \in Gaps : \A f \in Gaps : f <= g

\* What the UART sent is accounted for: its characters in the receiver, the
\* ring and the reads (console.c), its interrupts in s_irq_stats.
InputAccounted == InputInOrder /\ StatsRight

Usable == uart_irq \in 1 .. plic_num_sources /\ uart_irq < MAX_IRQ

\* A character never stays in the UART: not even when it arrives after the
\* handler has seen the receiver empty and before it completes the interrupt.
FifoDrained == Usable /\ fifo # <<>> ~> fifo = <<>>

\* A thread that waits for stdin is given the next character.
ReaderServed == Usable /\ waiter # 0 /\ fifo # <<>> ~> waiter = 0

\* The handler comes to an end, and with it the kernel lock is free again.
HandlerReturns == pc[Boot] = "claim" ~> pc[Boot] = "out"

\* Input gets through, and handling it comes to an end, whatever arrives while
\* platform_handle_s_external and uart16550_irq_handler are in their loops and
\* whatever harts start meanwhile and set up the shared handler table.
InputServed == FifoDrained /\ ReaderServed /\ HandlerReturns
=============================================================================
