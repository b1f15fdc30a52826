-------------------------------- MODULE Log --------------------------------
(***************************************************************************)
(* The log of ccos (lib/log.c): level filter, line buffer and ring buffer, *)
(* called by several harts at once.  g_log_lock is a plain spin lock       *)
(* (config/log_config.h); a loop over the ring takes one step for each     *)
(* character it copies.  The writer behind s_write_fn only sends the line  *)
(* to the UART, under the same lock.                                       *)
(***************************************************************************)
EXTENDS Integers, Sequences

CONSTANTS
  Logger, NONE,          \* the harts that log, and no hart
  LOG_RING_BUFFER_SIZE,
  LOG_BUFFER_SIZE,       \* size of the buffer for one line
  Levels,                \* 1 (error) up to the most verbose level
  Bodies,                \* prefix and message of a call, before truncation
  NL,                    \* the character that ends a line
  ReadSizes              \* the buffer sizes of log_ring_read and log_ring_peek

RingSize == LOG_RING_BUFFER_SIZE
Index == 0 .. RingSize - 1

\* The characters that can be logged.
Char == {NL} \cup UNION {{b[k] : k \in DOMAIN b} : b \in Bodies}

LogAssumption ==
  /\ RingSize \in Nat \ {0} /\ LOG_BUFFER_SIZE \in Nat /\ LOG_BUFFER_SIZE > 1
  /\ Levels \subseteq Nat \ {0} /\ ReadSizes \subseteq Nat /\ NONE \notin Logger
  /\ Bodies \subseteq Seq(Char)

VARIABLES
  s_ring_buf, s_ring_head, s_ring_size,
  s_log_level,
  g_log_lock,  \* the hart that holds it, or NONE
  call,        \* for each hart the call it is in, see Returned
  ret,         \* the last call that read the ring, and what it read
  before       \* auxiliary: what the ring held when the write in progress began
ring == <<s_ring_buf, s_ring_head, s_ring_size>>
log_vars == <<ring, s_log_level, g_log_lock, call, ret, before>>

\* A hart in no call; data is the line to write or what was read so far.
Returned == [pc |-> "none", op |-> "none", data |-> <<>>, i |-> 0, max |-> 0]

LoggingInit ==
  /\ s_ring_buf = [k \in Index |-> NL] /\ s_ring_head = 0 /\ s_ring_size = 0
  /\ s_log_level \in Levels
  /\ g_log_lock = NONE
  /\ call = [h \in Logger |-> Returned]
  /\ ret = <<>> /\ before = <<>>

Tail_ == (s_ring_head + RingSize - s_ring_size) % RingSize

\* The characters in the ring, oldest first.
Contents == [k \in 1 .. s_ring_size |-> s_ring_buf[(Tail_ + k - 1) % RingSize]]

----------------------------------------------------------------------------
log_set_level(l) == s_log_level' = l /\ UNCHANGED <<ring, g_log_lock, call, ret, before>>

\* The line that log_vprintf builds: cut to the buffer, and closed by a new
\* line when there is room for one.
Line(body) == IF Len(body) < LOG_BUFFER_SIZE - 1 THEN Append(body, NL)
              ELSE SubSeq(body, 1, LOG_BUFFER_SIZE - 1)

Call(h, op, data, max) ==
  /\ call[h].pc = "none"
  /\ call' = [call EXCEPT ![h] = [pc |-> "lock", op |-> op, data |-> data, i |-> 0, max |-> max]]
  /\ UNCHANGED <<ring, s_log_level, g_log_lock, ret, before>>

\* A call above the runtime level returns without taking the lock.
log_vprintf(h, level, body) == level <= s_log_level /\ Call(h, "write", Line(body), 0)
log_ring_peek(h, max) == Call(h, "peek", <<>>, max)
log_ring_read(h, max) == Call(h, "read", <<>>, max)
log_ring_clear(h) == Call(h, "clear", <<>>, 0)

\* The amoswap finds the lock taken, and is tried again.
spin(h) == call[h].pc = "lock" /\ g_log_lock # NONE /\ UNCHANGED log_vars

\* Only the last characters of a line that is longer than the ring count.
Data(h) == LET d == call[h].data IN IF Len(d) > RingSize THEN SubSeq(d, Len(d) - RingSize + 1, Len(d)) ELSE d
ToRead(h) == IF s_ring_size < call[h].max THEN s_ring_size ELSE call[h].max

\* The lock is taken without a look at who holds it.
Bad_LOG_LOCK(h) ==
  /\ call[h].pc = "lock"
  /\ g_log_lock' = h
  /\ call' = [call EXCEPT ![h].pc = "locked", ![h].data = Data(h)]
  /\ before' = IF call[h].op = "write" THEN Contents ELSE before
  /\ UNCHANGED <<ring, s_log_level, ret>>
LOG_LOCK(h) ==
  /\ call[h].pc = "lock" /\ g_log_lock = NONE
  /\ g_log_lock' = h
  /\ call' = [call EXCEPT ![h].pc = "locked", ![h].data = Data(h)]
  /\ before' = IF call[h].op = "write" THEN Contents ELSE before
  /\ UNCHANGED <<ring, s_log_level, ret>>

In(h, op) == call[h].pc = "locked" /\ call[h].op = op

ring_write_char(h) ==
  /\ In(h, "write") /\ call[h].i < Len(call[h].data)
  /\ s_ring_buf' = [s_ring_buf EXCEPT ![(s_ring_head + call[h].i) % RingSize] = call[h].data[call[h].i + 1]]
  /\ call' = [call EXCEPT ![h].i = @ + 1]
  /\ UNCHANGED <<s_ring_head, s_ring_size, s_log_level, g_log_lock, ret, before>>

ring_write(h) ==
  /\ In(h, "write") /\ call[h].i = Len(call[h].data)
  /\ s_ring_head' = (s_ring_head + call[h].i) % RingSize
  /\ s_ring_size' = IF s_ring_size + call[h].i >= RingSize THEN RingSize ELSE s_ring_size + call[h].i
  /\ call' = [call EXCEPT ![h].pc = "unlock"]
  /\ UNCHANGED <<s_ring_buf, s_log_level, g_log_lock, ret, before>>

ring_peek_char(h) ==
  /\ In(h, "peek") \/ In(h, "read")
  /\ call[h].i < ToRead(h)
  /\ call' = [call EXCEPT ![h].i = @ + 1,
                          ![h].data = Append(@, s_ring_buf[(Tail_ + call[h].i) % RingSize])]
  /\ UNCHANGED <<ring, s_log_level, g_log_lock, ret, before>>

\* A call that finds nothing returns without releasing the lock.
Bad_ring_peek_internal(h) ==
  /\ In(h, "peek") \/ In(h, "read")
  /\ call[h].i = ToRead(h)
  /\ s_ring_size' = IF call[h].op = "read" THEN s_ring_size - call[h].i ELSE s_ring_size
  /\ ret' = <<h, call[h].op, call[h].max, call[h].data>>
  /\ call' = IF call[h].i = 0 THEN [call EXCEPT ![h] = Returned]
             ELSE [call EXCEPT ![h].pc = "unlock"]
  /\ UNCHANGED <<s_ring_buf, s_ring_head, s_log_level, g_log_lock, before>>
ring_peek_internal(h) ==
  /\ In(h, "peek") \/ In(h, "read")
  /\ call[h].i = ToRead(h)
  /\ s_ring_size' = IF call[h].op = "read" THEN s_ring_size - call[h].i ELSE s_ring_size
  /\ ret' = <<h, call[h].op, call[h].max, call[h].data>>
  /\ call' = [call EXCEPT ![h].pc = "unlock"]
  /\ UNCHANGED <<s_ring_buf, s_ring_head, s_log_level, g_log_lock, before>>

ring_clear(h) ==
  /\ In(h, "clear")
  /\ s_ring_size' = 0
  /\ call' = [call EXCEPT ![h].pc = "unlock"]
  /\ UNCHANGED <<s_ring_buf, s_ring_head, s_log_level, g_log_lock, ret, before>>

LOG_UNLOCK(h) ==
  /\ call[h].pc = "unlock"
  /\ g_log_lock' = NONE
  /\ call' = [call EXCEPT ![h] = Returned]
  /\ UNCHANGED <<ring, s_log_level, ret, before>>

----------------------------------------------------------------------------
Step(h) == \/ LOG_LOCK(h) \/ ring_write_char(h) \/ ring_write(h) \/ ring_peek_char(h)
           \/ ring_peek_internal(h) \/ ring_clear(h) \/ LOG_UNLOCK(h)

LoggingNext ==
  \/ \E l \in Levels : log_set_level(l)
  \/ \E h \in Logger :
       \/ \E l \in Levels, b \in Bodies : log_vprintf(h, l, b)
       \/ \E max \in ReadSizes : log_ring_peek(h, max) \/ log_ring_read(h, max)
       \/ log_ring_clear(h) \/ spin(h) \/ Step(h)

LoggingSpec == LoggingInit /\ [][LoggingNext]_log_vars

\* A hart in a log call goes on: traps return to it.  The lock is not fair.
FairLogging == LoggingSpec /\ \A h \in Logger : WF_log_vars(Step(h))

----------------------------------------------------------------------------
\* The ring implements a bounded queue that drops its oldest characters, and
\* its calls are atomic: a reader on one hart never sees a line that another
\* hart has half written, although the write goes character by character
\* over the oldest ones before head and size move.
Writing == \E h \in Logger : call[h].pc = "locked" /\ call[h].op = "write"
Abs == INSTANCE LogSpec WITH Hart <- Logger, Lines <- {Line(b) : b \in Bodies},
                             log <- IF Writing THEN before ELSE Contents
ImplementsLog == Abs!Spec

\* Whoever takes the lock of the log gives it back, on every path.
LockReleased == g_log_lock # NONE ~> g_log_lock = NONE
=============================================================================
