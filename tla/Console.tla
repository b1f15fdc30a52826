------------------------------ MODULE Console ------------------------------
(***************************************************************************)
(* Blocking reads from stdin: kernel/console.c, sys_read in                *)
(* kernel/sysfile.c and the stdin half of kernel/thread.c, on the kernel   *)
(* record of Sched.tla.  rx counts the characters in the ring g_rx_buf.    *)
(***************************************************************************)
EXTENDS Sched

\* One slot of the ring stays free to tell full from empty.
rb_is_full(s) == s.rx = CONSOLE_RBUF_SIZE - 1

\* How many characters a read of len characters takes.
read_count(s, len) == IF len <= s.rx THEN len ELSE s.rx

thread_block(s, h) ==
  schedule([s EXCEPT !.state[s.current[h]] = "BLOCKED"], h)

thread_wake(s, h, t) ==
  IF s.state[t] = "BLOCKED" THEN thread_make_runnable(s, h, t, h) ELSE s

thread_wait_for_stdin(s, h, len) ==
  LET cur == s.current[h]
  IN  thread_block([s EXCEPT !.pending_read[cur] = len,
                             !.ret[cur] = "due",
                             !.g_stdin_waiter = cur], h)

\* SYS_READ on FD_STDIN.
sys_read(s, h, len) ==
  LET n == read_count(s, len)
  IN  IF n > 0 THEN [s EXCEPT !.rx = @ - n]
      ELSE thread_wait_for_stdin(s, h, len)

\* A read is completed only when all of its characters are there.
Bad_thread_read_wait(s, h) ==
  LET w == s.g_stdin_waiter
  IN  IF s.rx < s.pending_read[w] THEN s
      ELSE thread_wake([s EXCEPT !.rx = @ - s.pending_read[w],
                                 !.ret[w] = "read",
                                 !.pending_read[w] = 0], h, w)

\* tf.a0 of the reader is not written.
Bad_thread_read_a0(s, h) ==
  LET w == s.g_stdin_waiter
      n == read_count(s, s.pending_read[w])
  IN  thread_wake([s EXCEPT !.rx = @ - n, !.pending_read[w] = 0], h, w)

thread_read_from_stdin(s, h) ==
  LET w == s.g_stdin_waiter
      n == read_count(s, s.pending_read[w])
  IN  IF s.pending_read[w] = 0 THEN thread_wake(s, h, w)
      ELSE IF n = 0 THEN s
      ELSE thread_wake([s EXCEPT !.rx = @ - n,
                                 !.ret[w] = "read",
                                 !.pending_read[w] = 0], h, w)

\* One character from the UART, on hart h.
console_on_char_from_irq(s, h) ==
  LET pushed == IF rb_is_full(s) THEN s ELSE [s EXCEPT !.rx = @ + 1]
  IN  IF s.g_stdin_waiter = NONE THEN pushed
      ELSE [thread_read_from_stdin(pushed, h) EXCEPT !.g_stdin_waiter = NONE]
=============================================================================
