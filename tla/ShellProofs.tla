---------------------------- MODULE ShellProofs ----------------------------
(***************************************************************************)
(* Theorems about the user programs of ccos (Shell.tla), for every size of *)
(* the thread table and of the tables that the programs share without a    *)
(* lock.  The tables are safe for one reason: there is one shell, and one  *)
(* worker which the shell is about to join or waits for.  The invariant    *)
(* SInv below says this (Shells, Workers, Joins), then what each table     *)
(* means at every point of each command that uses it.  A step that keeps   *)
(* the threads as they are, one that creates a thread, one that ends or    *)
(* joins one and one that begins to wait disturb different parts of it, so *)
(* there is a group of lemmas for each kind of step.                       *)
(*                                                                         *)
(* The theorems hold on a condition: mon stop is not given the tid of a    *)
(* thread that is no monitor.  mon_stop (user/monitor.c) does not check,   *)
(* and kills and joins any thread it is told to.                           *)
(***************************************************************************)
EXTENDS Shell, FiniteSetTheorems, WellFoundedInduction, TLAPS

\* mon stop is given the tid of a monitor only.
StopsMonitors == StopTargets \subseteq {"monitor"}

----------------------------------------------------------------------------
(* The inductive invariant.                                                *)

M == MAX_HARTS

Programs == {"none", "idle", "user_main", "shell", "sh-cmd", "spawn", "monitor"}
Cmd == [name : {"none", "print", "mon start", "mon stop"}, tid : User \cup {NoTid}, count : Int]
Pcs == {"none", "start", "join", "prompt", "create", "spawn", "spawn kill", "spawn join", "spawn clear",
        "copy", "exit", "mon start", "mon record", "mon stop", "mon kill", "mon join", "mon clear",
        "work", "check", "report"}
Thread == [state : {"UNUSED", "READY", "WAITING", "ZOMBIE"}, join_waiter : User \cup {NoTid}, prog : Programs,
           arg : Int, pc : Pcs, tgt : User \cup {NoTid}, slot : Int, cmd : Cmd]
Monitor == [used : {0, 1}, tid : User \cup {NoTid}, remaining : Int]

Types ==
  /\ th \in [Tid -> Thread]
  /\ g_procs \in [Proc -> Cmd] /\ g_mons \in [Mon -> Monitor]
  /\ s_spawn_tid \in [Wid -> User \cup {NoTid}] /\ s_spawn_active \in Int

\* Which threads are free, and the slots of the idle threads and of user_main.
Fixed ==
  /\ \A t \in User : th[t].state = "UNUSED" <=> th[t].prog = "none"
  /\ \A t \in Idle : th[t].state # "UNUSED"
  /\ th[M].prog = "user_main" /\ th[M].join_waiter = NoTid /\ th[M].pc \in {"start", "join"}
  /\ \A t \in User : th[t].prog # "idle" /\ (th[t].prog = "user_main" => t = M)

LiveShell(t) == th[t].prog = "shell" /\ th[t].state \in {"READY", "WAITING"}
LiveWorker(t) == th[t].prog = "sh-cmd" /\ th[t].state \in {"READY", "WAITING"}

\* Only user_main waits, for a shell, and a shell, for a worker.
Joins ==
  \A t, w \in User : th[t].join_waiter = w =>
    \/ LiveShell(t) /\ w = M /\ th[M].state \in {"WAITING", "ZOMBIE"} /\ th[M].pc = "start"
    \/ LiveWorker(t) /\ th[w].prog = "shell" /\ th[w].state = "WAITING"

\* There is one shell, and user_main knows it: it is about to join it or waits.
Shells ==
  /\ \A s \in User : LiveShell(s) => (th[M].pc = "join" /\ th[M].tgt = s) \/ th[s].join_waiter = M
  /\ \A s, u \in User : LiveShell(s) /\ LiveShell(u) => s = u
  /\ th[M].pc = "join" =>
       \E s \in User : th[M].tgt = s /\ th[s].prog = "shell" /\ th[s].join_waiter = NoTid

\* There is one worker, and the shell is about to join it or waits.
Workers ==
  /\ \A w \in User : LiveWorker(w) =>
       \E s \in User : /\ LiveShell(s)
                       /\ (th[s].pc = "join" /\ th[s].tgt = w) \/ th[w].join_waiter = s
  /\ \A w, u \in User : LiveWorker(w) /\ LiveWorker(u) => w = u
  /\ \A s \in User : th[s].prog = "shell" /\ th[s].pc = "join" =>
       \E w \in User : th[s].tgt = w /\ th[w].prog = "sh-cmd" /\ th[w].join_waiter = NoTid

\* Where a shell is in a command, and what its locals are.
Killing == {"spawn kill", "spawn join", "spawn clear"}
Locals(pc, slot) ==
  /\ pc = "create" => slot \in Proc
  /\ pc = "spawn" => slot \in 1 .. SPAWN_MAX
  /\ pc \in Killing => slot \in 0 .. SPAWN_MAX
  /\ pc \in {"spawn join", "spawn clear"} => slot \in Wid
ShellAt ==
  /\ \A t \in User : th[t].pc \in Killing \cup {"spawn", "create"} => th[t].prog = "shell"
  /\ \A s \in User : th[s].prog = "shell" /\ th[s].pc # "prompt" => th[s].state = "READY"
  /\ \A s \in User : th[s].prog = "shell" => Locals(th[s].pc, th[s].slot)

\* The table of spawn.c and the spawned threads; what spawn kill has done.
Entries ==
  \A w \in Wid, u \in User : s_spawn_tid[w] = u =>
    \/ th[u].prog = "spawn" /\ th[u].arg = w
    \/ \E t \in User : th[t].prog = "shell" /\ th[t].pc = "spawn clear" /\ th[t].slot = w
Listed == \A u \in User : th[u].prog = "spawn" => th[u].arg \in Wid /\ s_spawn_tid[th[u].arg] = u
Cleared ==
  \A s \in User, w \in Wid : th[s].pc \in Killing /\ w < th[s].slot => s_spawn_tid[w] = NoTid
Killed ==
  \A s \in User : th[s].pc = "spawn join" =>
    \E u \in User : s_spawn_tid[th[s].slot] = u /\ th[u].state = "ZOMBIE" /\ th[u].prog = "spawn"
Reclaimed ==
  \A s, u \in User : th[s].pc = "spawn clear" /\ th[u].prog = "spawn" => th[u].arg # th[s].slot
Spawned == Entries /\ Listed /\ Cleared /\ Killed /\ Reclaimed
Used == {w \in Wid : s_spawn_tid[w] # NoTid}
Number == (\A t \in User : th[t].pc \notin Killing) => s_spawn_active = Cardinality(Used)

\* The slots of commands.
InUse(p) == \E t \in User : \/ LiveShell(t) /\ th[t].pc = "create" /\ th[t].slot = p
                            \/ LiveWorker(t) /\ th[t].pc = "copy" /\ th[t].arg = p
Slots ==
  /\ \A p \in Proc : g_procs[p] # NoCmd => InUse(p)
  /\ \A p \in Proc : g_procs[p].name = "mon stop" =>
       \E u \in User : g_procs[p].tid = u /\ th[u].prog = "monitor"

\* Where a worker is in a command, and what its locals are.
Stopping == {"mon kill", "mon join", "mon clear"}
Copying(c) == /\ th[c].pc = "copy" => th[c].arg \in Proc
              /\ th[c].pc \in {"copy", "mon start", "mon stop"} => th[c].slot = NoTid
Victim(c) ==
  th[c].pc \in {"mon stop", "mon kill", "mon join"} =>
    \E u \in User : /\ th[c].cmd.tid = u /\ th[u].prog = "monitor"
                    /\ th[c].pc = "mon join" => th[u].state = "ZOMBIE"
Freed(c) ==
  th[c].pc \in Stopping =>
    /\ th[c].slot = NoTid \/ (th[c].slot \in Mon /\ g_mons[th[c].slot].used = 0)
    /\ \A m \in Mon : g_mons[m].used = 1 => g_mons[m].tid # th[c].cmd.tid
Started(c) ==
  th[c].pc = "mon record" =>
    /\ th[c].slot \in Mon /\ g_mons[th[c].slot].tid = NoTid
    /\ \E u \in User : th[c].tgt = u /\ th[u].prog = "monitor" /\ th[u].arg = th[c].slot
WorkerAt == \A c \in User : LiveWorker(c) => Copying(c) /\ Victim(c) /\ Freed(c) /\ Started(c)

\* The monitors and their slots.
Owned(t) ==
  \/ g_mons[th[t].arg].used = 1 /\ g_mons[th[t].arg].tid = t
  \/ \E c \in User : /\ LiveWorker(c) /\ th[c].slot = th[t].arg
                     /\ \/ th[c].pc = "mon record" /\ th[c].tgt = t /\ g_mons[th[t].arg].used = 1
                        \/ th[c].pc = "mon kill" /\ th[c].cmd.tid = t
Monitors ==
  /\ \A m \in Mon, u \in User : g_mons[m].used = 1 /\ g_mons[m].tid = u =>
       th[u].prog = "monitor" /\ th[u].arg = m
  /\ \A t \in User : th[t].prog = "monitor" => th[t].arg \in Mon
  /\ \A t \in User : th[t].prog = "monitor" /\ th[t].state \in {"READY", "WAITING"} /\ th[t].pc # "exit" => Owned(t)

SInv == /\ Types /\ Fixed /\ Joins /\ Shells /\ Workers /\ ShellAt /\ Spawned /\ Number
        /\ Slots /\ WorkerAt /\ Monitors

----------------------------------------------------------------------------
(* Constants and types.                                                    *)

\* A nonempty set of naturals has a least element.
LEMMA Least ==
  ASSUME NEW F, F \subseteq Nat, F # {}
  PROVE  \E n \in F : \A m \in F : n <= m
<1> DEFINE R == {p \in Nat \X Nat : p[1] < p[2]}
<1>1. IsWellFoundedOn(R, Nat)
  BY NatLessThanWellFounded, Zenon DEF OpToRel
<1> HIDE DEF R
<1>2. PICK n \in F : \A m \in F : ~ (<<m, n>> \in R)
  BY <1>1, WFMin
<1>3. ASSUME NEW m \in F PROVE n <= m
  <2>1. m \in Nat /\ n \in Nat /\ <<m, n>> \in Nat \X Nat
    OBVIOUS
  <2>2. ~ (m < n)
    BY <1>2, <2>1 DEF R
  <2> QED
    BY <2>1, <2>2
<1> QED
  BY <1>3

\* Min, with which slots are allocated, returns an element of the set.
LEMMA LowestFree ==
  ASSUME NEW F, F \subseteq Nat, F # {}
  PROVE  Min(F) \in F
BY Least DEF Min

\* Idle and user threads are apart, and NONE is no tid.
LEMMA Tids ==
  /\ Tid = Idle \cup User /\ Idle \cap User = {} /\ M \in User
  /\ NoTid \notin Tid /\ Tid \subseteq Nat /\ NoTid \in Int
BY ShellAssumption DEF Tid, Idle, User, NoTid, M

\* NONE is no index of a table.
LEMMA Tables ==
  /\ NoTid \notin Proc /\ NoTid \notin Wid /\ NoTid \notin Mon /\ SPAWN_MAX \in Nat
  /\ Proc \subseteq Nat /\ Wid \subseteq Nat /\ Mon \subseteq Nat
BY ShellAssumption DEF NoTid, Proc, Wid, Mon

\* thread_create takes a free slot, and it is that of a user thread.
LEMMA NewIsFree ==
  ASSUME Free(th) # {}, Fixed
  PROVE  New(th) \in User /\ th[New(th)].state = "UNUSED"
<1>1. New(th) \in Free(th)
  BY Tids, LowestFree DEF New, Free
<1> QED
  BY <1>1, Tids DEF Free, Fixed

----------------------------------------------------------------------------
(* Steps in which a thread changes its own registers, and maybe kills one   *)
(* that nobody waits for.                                                  *)

Killable == {"user_main", "spawn", "monitor"}
\* Nobody is created or waits, and no shell and no worker ends.
Kept ==
  \A v \in User :
    /\ th'[v].join_waiter = th[v].join_waiter /\ th'[v].prog = th[v].prog /\ th'[v].arg = th[v].arg
    /\ \/ th'[v].state = th[v].state
       \/ th[v].prog \in Killable /\ th[v].state # "UNUSED" /\ th'[v].state = "ZOMBIE"
\* The threads other than those in X keep their registers.
Others(X) == \A v \in User : v \notin X => /\ th'[v].pc = th[v].pc /\ th'[v].tgt = th[v].tgt
                                           /\ th'[v].slot = th[v].slot /\ th'[v].cmd = th[v].cmd
IdleKept == \A v \in Idle : th'[v].state = th[v].state
Registers(t, pc, tgt, slot, cmd) ==
  th'[t].pc = pc /\ th'[t].tgt = tgt /\ th'[t].slot = slot /\ th'[t].cmd = cmd
Local(t, pc, tgt, slot, cmd) ==
  /\ th' \in [Tid -> Thread] /\ IdleKept
  /\ Kept /\ Others({t}) /\ Registers(t, pc, tgt, slot, cmd)

\* A step that changes the registers of t does no more.
LEMMA LocalEffect ==
  ASSUME Types, NEW t \in User, NEW pc \in Pcs, NEW tgt \in User \cup {NoTid}, NEW slot \in Int,
         NEW cmd \in Cmd, NEW r,
         r = [th[t] EXCEPT !.pc = pc, !.tgt = tgt, !.slot = slot, !.cmd = cmd],
         th' = [th EXCEPT ![t] = r]
  PROVE  Local(t, pc, tgt, slot, cmd)
<1>1. t \in Tid /\ t \notin Idle /\ th[t] \in Thread /\ Idle \subseteq Tid /\ User \subseteq Tid
  BY Tids DEF Types
<1>3. r \in Thread
  BY <1>1 DEF Thread
<1>2. th'[t] = r /\ (\A v \in Tid : v # t => th'[v] = th[v]) /\ th' \in [Tid -> Thread]
  BY <1>1, <1>3 DEF Types
<1>4. /\ r.state = th[t].state /\ r.join_waiter = th[t].join_waiter /\ r.prog = th[t].prog /\ r.arg = th[t].arg
      /\ r.pc = pc /\ r.tgt = tgt /\ r.slot = slot /\ r.cmd = cmd
  BY <1>1 DEF Thread
<1>5. IdleKept
  BY <1>1, <1>2 DEF IdleKept
<1>6. Kept /\ Others({t})
  BY ONLY <1>1, <1>2, <1>4, t \in User DEF Kept, Killable, Others
<1> QED
  BY <1>2, <1>4, <1>5, <1>6 DEF Local, Registers

\* What such steps leave alone, for each part of the invariant.
LEMMA FrameFixed ==
  ASSUME Fixed, Kept, IdleKept, th'[M].pc = th[M].pc
  PROVE  Fixed'
BY Tids DEF Fixed, Kept, Killable, IdleKept

LEMMA FrameJoins ==
  ASSUME Joins, Kept, th'[M].pc = th[M].pc
  PROVE  Joins'
BY Tids DEF Joins, LiveShell, LiveWorker, Kept, Killable

LEMMA FrameShells ==
  ASSUME Shells, Kept, th'[M].pc = th[M].pc, th'[M].tgt = th[M].tgt
  PROVE  Shells'
BY Tids DEF Shells, LiveShell, Kept, Killable

LEMMA FrameWorkers ==
  ASSUME Workers, Kept,
         \A s \in User : th[s].prog = "shell" => /\ th'[s].pc = "join" <=> th[s].pc = "join"
                                                 /\ th[s].pc = "join" => th'[s].tgt = th[s].tgt
  PROVE  Workers'
<1>1. \A v \in User : (LiveWorker(v)' <=> LiveWorker(v)) /\ (LiveShell(v)' <=> LiveShell(v))
  BY DEF LiveWorker, LiveShell, Kept, Killable
<1>2. ASSUME NEW w \in User, LiveWorker(w)
      PROVE \E s \in User : /\ LiveShell(s)'
                            /\ (th'[s].pc = "join" /\ th'[s].tgt = w) \/ th'[w].join_waiter = s
  <2>1. PICK s \in User : /\ LiveShell(s)
                          /\ (th[s].pc = "join" /\ th[s].tgt = w) \/ th[w].join_waiter = s
    BY <1>2 DEF Workers
  <2>2. LiveShell(s)' /\ th[s].prog = "shell" /\ th'[w].join_waiter = th[w].join_waiter
    BY <1>1, <2>1 DEF LiveShell, Kept, Killable
  <2> QED BY <2>1, <2>2
<1>3. ASSUME NEW s \in User, th[s].prog = "shell", th[s].pc = "join"
      PROVE  \E w \in User : th'[s].tgt = w /\ th'[w].prog = "sh-cmd" /\ th'[w].join_waiter = NoTid
  BY <1>3 DEF Workers, Kept, Killable
<1>4. \A s \in User : th'[s].prog = th[s].prog
  BY DEF Kept, Killable
<1> QED
  BY <1>1, <1>2, <1>3, <1>4 DEF Workers

\* The shells keep their place in a command, and nobody else is in one.
ShellsKept ==
  \A v \in User : IF th[v].prog = "shell" THEN th'[v].pc = th[v].pc /\ th'[v].slot = th[v].slot
                  ELSE th'[v].pc \notin Killing \cup {"spawn", "create"}
\* The workers keep theirs.
WorkersKept ==
  \A v \in User : th[v].prog = "sh-cmd" => /\ th'[v].pc = th[v].pc /\ th'[v].tgt = th[v].tgt
                                           /\ th'[v].slot = th[v].slot /\ th'[v].cmd = th[v].cmd

LEMMA FrameShellAt ==
  ASSUME ShellAt, Kept, ShellsKept
  PROVE  ShellAt'
BY DEF ShellAt, Kept, Killable, ShellsKept

LEMMA FrameSpawned ==
  ASSUME Spawned, ShellAt, Kept, ShellsKept, UNCHANGED s_spawn_tid
  PROVE  Spawned'
<1>1. \A v \in User : (th'[v].pc \in Killing \/ th[v].pc \in Killing) => th'[v].pc = th[v].pc /\ th'[v].slot = th[v].slot
  BY DEF ShellAt, ShellsKept
<1>2. \A v \in User : (th'[v].pc = "spawn clear" <=> th[v].pc = "spawn clear") /\ (th'[v].pc = "spawn join" <=> th[v].pc = "spawn join")
  BY <1>1 DEF Killing
<1>3. \A v \in User : th[v].pc \in {"spawn clear", "spawn join"} => th'[v].slot = th[v].slot
  BY <1>1 DEF Killing
<1>4. Entries'
  <2> SUFFICES ASSUME NEW w \in Wid, NEW u \in User, s_spawn_tid'[w] = u,
                      ~ (th'[u].prog = "spawn" /\ th'[u].arg = w)
               PROVE  \E t \in User : th'[t].prog = "shell" /\ th'[t].pc = "spawn clear" /\ th'[t].slot = w
    BY DEF Entries
  <2>1. s_spawn_tid[w] = u /\ ~ (th[u].prog = "spawn" /\ th[u].arg = w)
    BY DEF Kept, Killable
  <2>2. PICK t \in User : th[t].prog = "shell" /\ th[t].pc = "spawn clear" /\ th[t].slot = w
    BY <2>1 DEF Spawned, Entries
  <2>3. th'[t].prog = "shell" /\ th'[t].pc = "spawn clear" /\ th'[t].slot = w
    BY <2>2, <1>2, <1>3 DEF Kept, Killable
  <2> QED
    BY <2>3
<1>5. Listed'
  BY DEF Spawned, Listed, Kept, Killable
<1>6. Cleared'
  BY <1>1 DEF Spawned, Cleared
<1>7. Killed'
  <2> SUFFICES ASSUME NEW s \in User, th'[s].pc = "spawn join"
               PROVE  \E u \in User : /\ s_spawn_tid'[th'[s].slot] = u
                                      /\ th'[u].state = "ZOMBIE" /\ th'[u].prog = "spawn"
    BY DEF Killed
  <2>1. th[s].pc = "spawn join" /\ th'[s].slot = th[s].slot
    BY <1>2, <1>3
  <2>2. PICK u \in User : s_spawn_tid[th[s].slot] = u /\ th[u].state = "ZOMBIE" /\ th[u].prog = "spawn"
    BY <2>1, Zenon DEF Spawned, Killed
  <2>3. th'[u].state = "ZOMBIE" /\ th'[u].prog = "spawn"
    BY <2>2 DEF Kept, Killable
  <2> QED
    BY <2>1, <2>2, <2>3
<1>8. Reclaimed'
  BY <1>2, <1>3, ZenonT(40) DEF Spawned, Reclaimed, Kept, Killable
<1> QED
  BY <1>4, <1>5, <1>6, <1>7, <1>8 DEF Spawned

LEMMA FrameNumber ==
  ASSUME Number, ShellAt, Kept, ShellsKept, UNCHANGED <<s_spawn_tid, s_spawn_active>>
  PROVE  Number'
<1>1. Used' = Used
  BY DEF Used
<1>2. \A v \in User : (th'[v].pc \in Killing) <=> (th[v].pc \in Killing)
  BY DEF ShellAt, ShellsKept
<1> QED
  BY <1>1, <1>2 DEF Number

LEMMA FrameSlots ==
  ASSUME Slots, Kept, UNCHANGED g_procs,
         \A v \in User : LiveShell(v) /\ th[v].pc = "create" => th'[v].pc = "create" /\ th'[v].slot = th[v].slot,
         \A v \in User : LiveWorker(v) /\ th[v].pc = "copy" => th'[v].pc = "copy"
  PROVE  Slots'
<1>1. \A v \in User : (LiveWorker(v)' <=> LiveWorker(v)) /\ (LiveShell(v)' <=> LiveShell(v))
  BY DEF LiveWorker, LiveShell, Kept, Killable
<1>2. ASSUME NEW p \in Proc, InUse(p) PROVE InUse(p)'
  BY <1>1, <1>2 DEF InUse, Kept, Killable
<1> QED
  BY <1>2 DEF Slots, Kept, Killable

LEMMA FrameWorkerAt ==
  ASSUME WorkerAt, Kept, WorkersKept, UNCHANGED g_mons
  PROVE  WorkerAt'
<1>1. \A v \in User : (LiveWorker(v)' <=> LiveWorker(v)) /\ (LiveWorker(v) => th[v].prog = "sh-cmd")
  BY DEF LiveWorker, Kept, Killable
<1> SUFFICES ASSUME NEW c \in User, LiveWorker(c)
             PROVE  Copying(c)' /\ Victim(c)' /\ Freed(c)' /\ Started(c)'
  BY <1>1 DEF WorkerAt
<1>2. Copying(c) /\ Victim(c) /\ Freed(c) /\ Started(c)
  BY DEF WorkerAt
<1>3. /\ th'[c].pc = th[c].pc /\ th'[c].tgt = th[c].tgt /\ th'[c].slot = th[c].slot
      /\ th'[c].cmd = th[c].cmd /\ th'[c].arg = th[c].arg
  BY <1>1 DEF WorkersKept, Kept, Killable
<1>4. Copying(c)'
  BY <1>2, <1>3 DEF Copying
<1>5. Victim(c)'
  BY <1>2, <1>3 DEF Victim, Kept, Killable
<1>6. Freed(c)' /\ Started(c)'
  BY <1>2, <1>3 DEF Freed, Started, Kept, Killable
<1> QED
  BY <1>4, <1>5, <1>6

LEMMA FrameMonitors ==
  ASSUME Monitors, Kept, WorkersKept, UNCHANGED g_mons,
         \A v \in User : th[v].prog = "monitor" /\ th'[v].pc # "exit" => th[v].pc # "exit"
  PROVE  Monitors'
<1>1. \A v \in User : (LiveWorker(v)' <=> LiveWorker(v)) /\ (LiveWorker(v) => th[v].prog = "sh-cmd")
  BY DEF LiveWorker, Kept, Killable
<1>2. ASSUME NEW t \in User, Owned(t) PROVE Owned(t)'
  BY <1>1, <1>2, ZenonT(40) DEF Owned, Kept, Killable, WorkersKept
<1> QED
  BY <1>2 DEF Monitors, Kept, Killable

\* A shell between two calls other than join.
LEMMA ShellLocal ==
  ASSUME SInv, NEW t \in User, th[t].prog = "shell", th[t].pc # "join",
         NEW pc, pc # "join", NEW tgt, NEW slot, NEW cmd, Local(t, pc, tgt, slot, cmd), UNCHANGED g_mons
  PROVE  Fixed' /\ Joins' /\ Shells' /\ Workers' /\ WorkerAt' /\ Monitors'
<1>1. Kept /\ IdleKept /\ Others({t}) /\ th'[t].pc = pc
  BY DEF Local, Registers
<1>2. Types /\ Fixed /\ Joins /\ Shells /\ Workers /\ WorkerAt /\ Monitors
  BY DEF SInv
<1>3. M \in User /\ M # t
  BY <1>2, Tids DEF Fixed
<1>4. th'[M].pc = th[M].pc /\ th'[M].tgt = th[M].tgt
  BY <1>1, <1>3 DEF Others
<1>5. Fixed' /\ Joins' /\ Shells'
  BY <1>1, <1>2, <1>4, FrameFixed, FrameJoins, FrameShells
<1>6. Workers'
  BY <1>1, <1>2, FrameWorkers DEF Others
<1>7. WorkersKept
  BY <1>1 DEF WorkersKept, Others
<1>8. \A v \in User : th[v].prog = "monitor" /\ th'[v].pc # "exit" => th[v].pc # "exit"
  BY <1>1 DEF Others
<1>9. WorkerAt' /\ Monitors'
  BY <1>1, <1>2, <1>7, <1>8, FrameWorkerAt, FrameMonitors
<1> QED
  BY <1>5, <1>6, <1>9

\* A worker or a monitor between two calls.
LEMMA OtherLocal ==
  ASSUME SInv, NEW t \in User, th[t].prog \in {"sh-cmd", "monitor"},
         NEW pc, pc \notin Killing \cup {"spawn", "create"}, NEW tgt, NEW slot, NEW cmd, Local(t, pc, tgt, slot, cmd),
         UNCHANGED <<s_spawn_tid, s_spawn_active>>
  PROVE  Fixed' /\ Joins' /\ Shells' /\ Workers' /\ ShellAt' /\ Spawned' /\ Number'
<1>1. Kept /\ IdleKept /\ Others({t}) /\ th'[t].pc = pc
  BY DEF Local, Registers
<1>2. Types /\ Fixed /\ Joins /\ Shells /\ Workers /\ ShellAt /\ Spawned /\ Number
  BY DEF SInv
<1>3. M \in User /\ M # t
  BY <1>2, Tids DEF Fixed
<1>4. th'[M].pc = th[M].pc /\ th'[M].tgt = th[M].tgt
  BY <1>1, <1>3 DEF Others
<1>5. Fixed' /\ Joins' /\ Shells'
  BY <1>1, <1>2, <1>4, FrameFixed, FrameJoins, FrameShells
<1>6. Workers'
  BY <1>1, <1>2, FrameWorkers DEF Others
<1>7. ShellsKept
  BY <1>1, <1>2 DEF ShellsKept, Others, ShellAt
<1>8. ShellAt' /\ Spawned' /\ Number'
  BY <1>1, <1>2, <1>7, FrameShellAt, FrameSpawned, FrameNumber
<1> QED
  BY <1>5, <1>6, <1>8

----------------------------------------------------------------------------
(* Who else can be where when a shell or a worker takes a step.            *)

ShellPcs == Killing \cup {"spawn", "create"}

\* While a shell is ready it is the only one, and it has a worker only when
\* it is about to join it.
LEMMA ShellAlone ==
  ASSUME SInv, NEW t \in User, NEW pc, AtCall(t, "shell", pc)
  PROVE  /\ t \in Tid /\ t # M /\ th[t] \in Thread /\ LiveShell(t)
         /\ th[t].state = "READY" /\ th[t].prog = "shell" /\ th[t].pc = pc
         /\ \A v \in User : v # t => th[v].pc \notin ShellPcs /\ ~ LiveShell(v)
         /\ pc # "join" => \A v \in User : ~ LiveWorker(v)
         /\ \A v \in User : th[v].join_waiter # t
<1>1. th[t].state = "READY" /\ th[t].prog = "shell" /\ th[t].pc = pc
  BY DEF AtCall
<1>2. t \in Tid /\ t # M /\ th[t] \in Thread
  BY <1>1, Tids DEF SInv, Types, Fixed
<1>3. LiveShell(t)
  BY <1>1 DEF LiveShell
<1>4. ASSUME NEW v \in User, v # t PROVE th[v].pc \notin ShellPcs /\ ~ LiveShell(v)
  <2>1. ~ LiveShell(v)
    BY <1>3, <1>4 DEF SInv, Shells
  <2>2. th[v].pc \in ShellPcs => LiveShell(v)
    BY DEF SInv, ShellAt, ShellPcs, LiveShell, Killing
  <2> QED
    BY <2>1, <2>2
<1>5. ASSUME NEW v \in User PROVE th[v].join_waiter # t
  BY <1>1, <1>2 DEF SInv, Joins
<1>6. ASSUME NEW v \in User, LiveWorker(v) PROVE pc = "join"
  <2>1. PICK s \in User : /\ LiveShell(s)
                          /\ (th[s].pc = "join" /\ th[s].tgt = v) \/ th[v].join_waiter = s
    BY <1>6 DEF SInv, Workers
  <2>2. s = t
    BY <1>4, <2>1
  <2> QED
    BY <1>1, <1>5, <2>1, <2>2
<1> QED
  BY <1>1, <1>2, <1>3, <1>4, <1>5, <1>6

\* While a worker runs it is the only one, and no shell is inside a command
\* of its own.
LEMMA WorkerAlone ==
  ASSUME SInv, NEW t \in User, NEW pc, AtCall(t, "sh-cmd", pc)
  PROVE  /\ t \in Tid /\ t # M /\ th[t] \in Thread /\ LiveWorker(t)
         /\ th[t].state = "READY" /\ th[t].prog = "sh-cmd" /\ th[t].pc = pc
         /\ \A v \in User : v # t => ~ LiveWorker(v)
         /\ \A v \in User : th[v].pc \notin ShellPcs
         /\ pc # "copy" => \A p \in Proc : g_procs[p] = NoCmd
<1>1. th[t].state = "READY" /\ th[t].prog = "sh-cmd" /\ th[t].pc = pc
  BY DEF AtCall
<1>2. t \in Tid /\ t # M /\ th[t] \in Thread
  BY <1>1, Tids DEF SInv, Types, Fixed
<1>3. LiveWorker(t)
  BY <1>1 DEF LiveWorker
<1>4. ASSUME NEW v \in User, v # t PROVE ~ LiveWorker(v)
  BY <1>3, <1>4 DEF SInv, Workers
<1>5. ASSUME NEW v \in User PROVE th[v].pc \notin ShellPcs
  <2>1. PICK s \in User : /\ LiveShell(s)
                          /\ (th[s].pc = "join" /\ th[s].tgt = t) \/ th[t].join_waiter = s
    BY <1>3 DEF SInv, Workers
  <2>2. th[s].pc = "join" \/ th[s].state = "WAITING"
    BY <1>1, <2>1 DEF SInv, Joins, LiveShell
  <2>3. th[s].pc \notin ShellPcs
    BY <2>1, <2>2 DEF SInv, ShellAt, ShellPcs, LiveShell, Killing
  <2>4. th[v].pc \in ShellPcs => LiveShell(v)
    BY DEF SInv, ShellAt, ShellPcs, LiveShell, Killing
  <2>5. LiveShell(v) => v = s
    BY <2>1 DEF SInv, Shells
  <2> QED
    BY <2>3, <2>4, <2>5
<1>6. ASSUME pc # "copy", NEW p \in Proc PROVE g_procs[p] = NoCmd
  <2>1. \A v \in User : ~ (LiveShell(v) /\ th[v].pc = "create")
    BY <1>5 DEF ShellPcs
  <2>2. \A v \in User : ~ (LiveWorker(v) /\ th[v].pc = "copy")
    BY <1>1, <1>4, <1>6
  <2>3. ~ InUse(p)
    BY <2>1, <2>2 DEF InUse
  <2> QED
    BY <2>3 DEF SInv, Slots
<1> QED
  BY <1>1, <1>2, <1>3, <1>4, <1>5, <1>6

----------------------------------------------------------------------------
(* The steps of a shell that change its registers only.                    *)

\* The conjuncts of the invariant that such a step can disturb.
LEMMA ShellMoves ==
  ASSUME SInv, NEW t \in User, NEW from, AtCall(t, "shell", from), from # "join",
         NEW pc \in Pcs \ {"join"}, NEW slot \in Int, Local(t, pc, th[t].tgt, slot, th[t].cmd),
         UNCHANGED g_mons, g_procs' \in [Proc -> Cmd],
         s_spawn_tid' \in [Wid -> User \cup {NoTid}], s_spawn_active' \in Int,
         Locals(pc, slot), Entries', Listed', Number', Slots',
         pc \in Killing => \A w \in Wid : w < slot => s_spawn_tid'[w] = NoTid,
         pc = "spawn join" =>
           \E u \in User : s_spawn_tid'[slot] = u /\ th'[u].state = "ZOMBIE" /\ th[u].prog = "spawn",
         pc = "spawn clear" => \A u \in User : th[u].prog = "spawn" => th[u].arg # slot
  PROVE  SInv'
<1>1. /\ t # M /\ th[t].state = "READY" /\ th[t].prog = "shell" /\ th[t].pc = from
      /\ \A v \in User : v # t => th[v].pc \notin ShellPcs
  BY ShellAlone
<1>2. Fixed' /\ Joins' /\ Shells' /\ Workers' /\ WorkerAt' /\ Monitors'
  BY <1>1, ShellLocal
<1>3. Types'
  BY DEF SInv, Types, Local
<1>4. /\ Kept /\ th'[t].pc = pc /\ th'[t].slot = slot
      /\ \A v \in User : v # t => th'[v].pc = th[v].pc /\ th'[v].slot = th[v].slot
  BY DEF Local, Registers, Others
<1>5. ShellAt'
  <2>1. ShellAt
    BY DEF SInv
  <2>2. \A v \in User : th'[v].prog = th[v].prog /\ (th[v].prog = "shell" => th'[v].state = th[v].state)
    BY <1>4 DEF Kept, Killable
  <2>3. ASSUME NEW v \in User
        PROVE  /\ th'[v].pc \in Killing \cup {"spawn", "create"} => th'[v].prog = "shell"
               /\ th'[v].prog = "shell" /\ th'[v].pc # "prompt" => th'[v].state = "READY"
               /\ th'[v].prog = "shell" => Locals(th'[v].pc, th'[v].slot)
    <3>1. CASE v = t
      BY <1>1, <1>4, <2>2, <3>1
    <3>2. CASE v # t
      BY <1>4, <2>1, <2>2, <3>2 DEF ShellAt
    <3> QED
      BY <3>1, <3>2
  <2> QED
    BY <2>3 DEF ShellAt
<1>6. \A v \in User : th'[v].pc \in ShellPcs => v = t
  BY <1>1, <1>4
<1>7. \A v \in User : th'[v].pc \in {"spawn kill", "spawn join", "spawn clear"} => v = t
  BY <1>6 DEF ShellPcs, Killing
<1>8. Cleared'
  BY <1>4, <1>7 DEF Cleared, Killing
<1>9. Killed'
  <2> SUFFICES ASSUME NEW s \in User, th'[s].pc = "spawn join"
               PROVE  \E u \in User : /\ s_spawn_tid'[th'[s].slot] = u
                                      /\ th'[u].state = "ZOMBIE" /\ th'[u].prog = "spawn"
    BY DEF Killed
  <2>1. s = t /\ pc = "spawn join" /\ th'[s].slot = slot
    BY <1>4, <1>7
  <2>2. PICK u \in User : s_spawn_tid'[slot] = u /\ th'[u].state = "ZOMBIE" /\ th[u].prog = "spawn"
    BY <2>1
  <2>3. th'[u].state = "ZOMBIE" /\ th'[u].prog = "spawn"
    BY <1>4, <2>2 DEF Kept, Killable
  <2> QED
    BY <2>1, <2>2, <2>3
<1>10. Reclaimed'
  BY <1>4, <1>7, ZenonT(40) DEF Reclaimed, Kept, Killable
<1> QED
  BY <1>2, <1>3, <1>5, <1>8, <1>9, <1>10 DEF SInv, Spawned

\* The forms in which the actions write such a step.
LEMMA PcEffect ==
  ASSUME Types, NEW t \in User, NEW pc \in Pcs, th' = [th EXCEPT ![t].pc = pc]
  PROVE  Local(t, pc, th[t].tgt, th[t].slot, th[t].cmd)
<1>1. t \in Tid /\ th[t] \in Thread
  BY Tids DEF Types
<1>2. PICK r : r = [th[t] EXCEPT !.pc = pc]
  OBVIOUS
<1>3. th' = [th EXCEPT ![t] = r]
  BY <1>1, <1>2 DEF Types
<1>4. r = [th[t] EXCEPT !.pc = pc, !.tgt = th[t].tgt, !.slot = th[t].slot, !.cmd = th[t].cmd]
  BY <1>1, <1>2 DEF Thread
<1>5. th[t].tgt \in User \cup {NoTid} /\ th[t].slot \in Int /\ th[t].cmd \in Cmd
  BY <1>1 DEF Thread
<1> QED
  BY <1>3, <1>4, <1>5, LocalEffect

LEMMA SlotEffect ==
  ASSUME Types, NEW t \in User, NEW pc \in Pcs, NEW slot \in Int,
         th' = [th EXCEPT ![t].pc = pc, ![t].slot = slot]
  PROVE  Local(t, pc, th[t].tgt, slot, th[t].cmd)
<1>1. t \in Tid /\ th[t] \in Thread
  BY Tids DEF Types
<1>2. PICK r : r = [th[t] EXCEPT !.pc = pc, !.slot = slot]
  OBVIOUS
<1>3. th' = [th EXCEPT ![t] = r]
  BY <1>1, <1>2 DEF Types
<1>4. r = [th[t] EXCEPT !.pc = pc, !.tgt = th[t].tgt, !.slot = slot, !.cmd = th[t].cmd]
  BY <1>1, <1>2 DEF Thread
<1>5. th[t].tgt \in User \cup {NoTid} /\ th[t].cmd \in Cmd
  BY <1>1 DEF Thread
<1> QED
  BY <1>3, <1>4, <1>5, LocalEffect

\* A step of a shell outside spawn kill that leaves the tables alone.
LEMMA TablesKept ==
  ASSUME SInv, NEW t \in User, NEW from, AtCall(t, "shell", from), Kept, UNCHANGED s_spawn_tid,
         from # "spawn clear"
  PROVE  Entries' /\ Listed'
<1>1. \A v \in User : th[v].pc # "spawn clear"
  BY ShellAlone DEF ShellPcs, Killing
<1>2. Listed'
  BY DEF SInv, Spawned, Listed, Kept, Killable
<1>3. ASSUME NEW w \in Wid, NEW u \in User, s_spawn_tid'[w] = u
      PROVE  th'[u].prog = "spawn" /\ th'[u].arg = w
  <2>1. s_spawn_tid[w] = u
    BY <1>3
  <2>2. th[u].prog = "spawn" /\ th[u].arg = w
    BY <1>1, <2>1 DEF SInv, Spawned, Entries
  <2> QED
    BY <2>2 DEF Kept, Killable
<1>4. Entries'
  BY <1>3 DEF Entries
<1> QED
  BY <1>2, <1>4

\* A shell that is not starting a command leaves the slots of commands alone.
LEMMA ProcsKept ==
  ASSUME SInv, NEW t \in User, NEW from, AtCall(t, "shell", from), from \notin {"create", "join"}, Kept,
         UNCHANGED g_procs
  PROVE  Slots'
<1>1. /\ \A v \in User : ~ (LiveShell(v) /\ th[v].pc = "create")
      /\ \A v \in User : ~ LiveWorker(v)
  BY ShellAlone DEF ShellPcs
<1> QED
  BY <1>1, FrameSlots DEF SInv

\* spawn preserves the invariant.
LEMMA SpawnStep ==
  ASSUME SInv, NEW t \in User, spawn(t)
  PROVE  SInv'
<1>1. AtCall(t, "shell", "prompt") /\ UNCHANGED <<g_procs, s_spawn_tid, s_spawn_active, g_mons>>
  BY DEF spawn, tables
<1>2. PICK n \in 1 .. SPAWN_MAX : th' = [th EXCEPT ![t].pc = "spawn", ![t].slot = n]
  BY DEF spawn
<1>3. n \in Int /\ Locals("spawn", n)
  BY Tables DEF Locals, Killing
<1>4. Local(t, "spawn", th[t].tgt, n, th[t].cmd)
  BY <1>2, <1>3, SlotEffect DEF SInv, Pcs
<1>5. Kept
  BY <1>4 DEF Local
<1>6. Entries' /\ Listed' /\ Slots'
  BY <1>1, <1>5, TablesKept, ProcsKept
<1>7. Number'
  <2>1. \A v \in User : th[v].pc \notin Killing
    BY <1>1, ShellAlone DEF ShellPcs, Killing
  <2> QED
    BY <1>1, <2>1 DEF SInv, Number, Used
<1> QED
  BY <1>1, <1>3, <1>4, <1>6, <1>7, ShellMoves DEF SInv, Types, Pcs, Killing

\* spawn_kill preserves the invariant.
LEMMA SpawnKillStep ==
  ASSUME SInv, NEW t \in User, spawn_kill(t)
  PROVE  SInv'
<1>1. AtCall(t, "shell", "prompt") /\ UNCHANGED <<g_procs, s_spawn_tid, s_spawn_active, g_mons>>
  BY DEF spawn_kill, tables
<1>2. PICK n \in Int : n = 0
  OBVIOUS
<1>8. th' = [th EXCEPT ![t].pc = "spawn kill", ![t].slot = n]
  BY <1>2 DEF spawn_kill
<1>3. Locals("spawn kill", n) /\ \A w \in Wid : ~ (w < n)
  <2>1. n \in 0 .. SPAWN_MAX
    BY <1>2, Tables
  <2> QED
    BY <1>2, <2>1, Tables DEF Locals, Killing
<1>4. Local(t, "spawn kill", th[t].tgt, n, th[t].cmd)
  BY <1>8, SlotEffect DEF SInv, Pcs
<1>5. Kept /\ th'[t].pc = "spawn kill"
  BY <1>4 DEF Local, Registers
<1>6. Entries' /\ Listed' /\ Slots'
  BY <1>1, <1>5, TablesKept, ProcsKept
<1>7. Number'
  BY <1>5 DEF Number, Killing
<1> QED
  BY <1>1, <1>3, <1>4, <1>6, <1>7, ShellMoves DEF SInv, Types, Pcs, Killing

\* The loop of spawn kill goes to the next entry.
LEMMA NextWid ==
  ASSUME NEW n \in Wid
  PROVE  /\ n < SPAWN_MAX /\ n + 1 \in Int /\ n + 1 \in 0 .. SPAWN_MAX
         /\ \A w \in Wid : w < n + 1 => w = n \/ w < n
BY Tables DEF Wid

\* The loop of spawn ends early.
LEMMA SpawnAddFails ==
  ASSUME SInv, NEW t \in User, AtCall(t, "shell", "spawn"), UNCHANGED tables,
         th' = [th EXCEPT ![t].pc = "prompt", ![t].slot = NoTid]
  PROVE  SInv'
<1>1. UNCHANGED <<g_procs, s_spawn_tid, s_spawn_active, g_mons>>
  BY DEF tables
<1>3. Locals("prompt", NoTid)
  BY DEF Locals, Killing
<1>4. Local(t, "prompt", th[t].tgt, NoTid, th[t].cmd)
  BY Tids, SlotEffect DEF SInv, Pcs
<1>5. Kept
  BY <1>4 DEF Local
<1>6. Entries' /\ Listed' /\ Slots'
  BY <1>1, <1>5, TablesKept, ProcsKept
<1>7. Number'
  <2>1. \A v \in User : th[v].pc \notin Killing
    BY ShellAlone DEF ShellPcs, Killing
  <2> QED
    BY <1>1, <2>1 DEF SInv, Number, Used
<1> QED
  BY <1>1, <1>3, <1>4, <1>6, <1>7, Tids, ShellMoves DEF SInv, Types, Pcs, Killing

\* spawn kill is at an entry: what it knows about it.
LEMMA KillingFacts ==
  ASSUME SInv, NEW t \in User, NEW pc \in Killing, AtCall(t, "shell", pc)
  PROVE  /\ th[t].slot \in 0 .. SPAWN_MAX /\ th[t].slot \in Int
         /\ \A w \in Wid : w < th[t].slot => s_spawn_tid[w] = NoTid
         /\ th[t].slot # SPAWN_MAX => th[t].slot \in Wid
<1>1. th[t].pc = pc /\ th[t].prog = "shell"
  BY DEF AtCall
<1>2. th[t].slot \in 0 .. SPAWN_MAX
  BY <1>1 DEF SInv, ShellAt, Locals
<1>3. \A w \in Wid : w < th[t].slot => s_spawn_tid[w] = NoTid
  BY <1>1 DEF SInv, Spawned, Cleared
<1> QED
  BY <1>2, <1>3, Tables DEF Wid

\* spawn_kill_next at the end of the table: every entry has been cleared.
LEMMA SpawnKillEnds ==
  ASSUME SInv, NEW t \in User, AtCall(t, "shell", "spawn kill"), UNCHANGED <<g_procs, s_spawn_tid, g_mons>>,
         th[t].slot = SPAWN_MAX, s_spawn_active' = 0,
         th' = [th EXCEPT ![t].pc = "prompt", ![t].slot = NoTid]
  PROVE  SInv' /\ (\A w \in Wid : s_spawn_tid[w] = NoTid)
<1>1. \A w \in Wid : s_spawn_tid[w] = NoTid
  <2>1. \A w \in Wid : w < th[t].slot => s_spawn_tid[w] = NoTid
    BY KillingFacts DEF Killing
  <2> QED
    BY <2>1, NextWid
<1>3. Locals("prompt", NoTid)
  BY DEF Locals, Killing
<1>4. Local(t, "prompt", th[t].tgt, NoTid, th[t].cmd)
  BY Tids, SlotEffect DEF SInv, Pcs
<1>5. Kept
  BY <1>4 DEF Local
<1>6. Entries' /\ Listed' /\ Slots'
  BY <1>5, TablesKept, ProcsKept
<1>7. Number'
  <2>1. Used' = {}
    BY <1>1 DEF Used
  <2> QED
    BY <2>1, FS_EmptySet DEF Number
<1>8. g_procs' \in [Proc -> Cmd] /\ s_spawn_tid' \in [Wid -> User \cup {NoTid}] /\ s_spawn_active' \in Int
  <2>1. s_spawn_active' \in Int
    BY ONLY s_spawn_active' = 0
  <2> QED
    BY <2>1, Zenon DEF SInv, Types
<1>9. SInv'
  BY <1>3, <1>4, <1>6, <1>7, <1>8, Tids, ShellMoves DEF Pcs, Killing
<1> QED
  BY <1>1, <1>9

\* spawn_kill_next at an empty entry.
LEMMA SpawnKillSkips ==
  ASSUME SInv, NEW t \in User, AtCall(t, "shell", "spawn kill"), UNCHANGED tables,
         th[t].slot # SPAWN_MAX, s_spawn_tid[th[t].slot] = NoTid,
         th' = [th EXCEPT ![t].slot = th[t].slot + 1]
  PROVE  SInv'
<1>1. UNCHANGED <<g_procs, s_spawn_tid, s_spawn_active, g_mons>>
  BY DEF tables
<1>2. PICK n : n = th[t].slot + 1
  OBVIOUS
<1>3. n \in Int /\ n \in 0 .. SPAWN_MAX /\ \A w \in Wid : w < n => w = th[t].slot \/ w < th[t].slot
  BY <1>2, KillingFacts, NextWid DEF Killing
<1>4. Locals("spawn kill", n) /\ \A w \in Wid : w < n => s_spawn_tid[w] = NoTid
  BY <1>3, KillingFacts DEF Locals, Killing
<1>5. Local(t, "spawn kill", th[t].tgt, n, th[t].cmd)
  <2>1. t \in Tid /\ th[t] \in Thread /\ th[t].pc = "spawn kill"
    BY ShellAlone
  <2>2. th' = [th EXCEPT ![t].pc = "spawn kill", ![t].slot = n]
    BY <1>2, <2>1 DEF SInv, Types, Thread
  <2> QED
    BY <1>3, <2>2, SlotEffect DEF SInv, Pcs
<1>6. Kept /\ th'[t].pc = "spawn kill"
  BY <1>5 DEF Local, Registers
<1>7. Entries' /\ Listed' /\ Slots'
  BY <1>1, <1>6, TablesKept, ProcsKept
<1>8. Number'
  BY <1>6 DEF Number, Killing
<1> QED
  BY <1>1, <1>3, <1>4, <1>5, <1>7, <1>8, ShellMoves DEF SInv, Types, Pcs, Killing

\* The worker dies, or is dead already.
LEMMA SpawnKillKills ==
  ASSUME SInv, NEW t \in User, AtCall(t, "shell", "spawn kill"), UNCHANGED tables,
         th[t].slot # SPAWN_MAX, NEW u \in User, s_spawn_tid[th[t].slot] = u,
         th[u].prog = "spawn", th'[u].state = "ZOMBIE",
         Local(t, "spawn join", th[t].tgt, th[t].slot, th[t].cmd)
  PROVE  SInv'
<1>1. UNCHANGED <<g_procs, s_spawn_tid, s_spawn_active, g_mons>>
  BY DEF tables
<1>2. /\ th[t].slot \in 0 .. SPAWN_MAX /\ th[t].slot \in Int /\ th[t].slot \in Wid
      /\ \A w \in Wid : w < th[t].slot => s_spawn_tid[w] = NoTid
  BY KillingFacts DEF Killing
<1>3. Locals("spawn join", th[t].slot)
  BY <1>2 DEF Locals, Killing
<1>5. Kept /\ th'[t].pc = "spawn join"
  BY DEF Local, Registers
<1>6. Entries' /\ Listed' /\ Slots'
  BY <1>1, <1>5, TablesKept, ProcsKept
<1>7. Number'
  BY <1>5 DEF Number, Killing
<1>8. \E v \in User : s_spawn_tid'[th[t].slot] = v /\ th'[v].state = "ZOMBIE" /\ th[v].prog = "spawn"
  BY <1>1
<1> QED
  <2>1. g_procs' \in [Proc -> Cmd] /\ s_spawn_tid' \in [Wid -> User \cup {NoTid}] /\ s_spawn_active' \in Int
    BY <1>1 DEF SInv, Types
  <2>2. "spawn join" \in Pcs \ {"join"}
    BY DEF Pcs
  <2>3. \A w \in Wid : w < th[t].slot => s_spawn_tid'[w] = NoTid
    BY <1>1, <1>2
  <2> QED
    BY <1>1, <1>2, <1>3, <1>6, <1>7, <1>8, <2>1, <2>2, <2>3, ShellMoves

\* spawn_kill_clear preserves the invariant: the worker of the entry has
\* been joined.
LEMMA SpawnKillClearStep ==
  ASSUME SInv, NEW t \in User, spawn_kill_clear(t)
  PROVE  SInv'
<1>1. AtCall(t, "shell", "spawn clear") /\ UNCHANGED <<g_procs, s_spawn_active, g_mons>>
  BY DEF spawn_kill_clear
<1>2. PICK n : n = th[t].slot + 1
  OBVIOUS
<1>3. /\ t \in Tid /\ th[t] \in Thread /\ th[t].pc = "spawn clear" /\ th[t].prog = "shell"
      /\ \A v \in User : v # t => th[v].pc \notin ShellPcs
  BY <1>1, ShellAlone
<1>4. th[t].slot \in Wid /\ \A w \in Wid : w < th[t].slot => s_spawn_tid[w] = NoTid
  <2>1. th[t].slot \in Wid
    BY <1>3 DEF SInv, ShellAt, Locals
  <2> QED
    BY <1>1, <2>1, KillingFacts DEF Killing
<1>5. s_spawn_tid' = [s_spawn_tid EXCEPT ![th[t].slot] = NoTid] /\ s_spawn_tid \in [Wid -> User \cup {NoTid}]
  BY DEF spawn_kill_clear, SInv, Types
<1>6. n \in Int /\ n \in 0 .. SPAWN_MAX /\ \A w \in Wid : w < n => w = th[t].slot \/ w < th[t].slot
  BY <1>2, <1>4, NextWid
<1>7. Locals("spawn kill", n) /\ \A w \in Wid : w < n => s_spawn_tid'[w] = NoTid
  <2>1. \A w \in Wid : w < n => s_spawn_tid'[w] = NoTid
    BY <1>4, <1>5, <1>6
  <2> QED
    BY <1>6, <2>1 DEF Locals, Killing
<1>8. Local(t, "spawn kill", th[t].tgt, n, th[t].cmd)
  <2>1. th' = [th EXCEPT ![t].pc = "spawn kill", ![t].slot = n]
    BY <1>2 DEF spawn_kill_clear
  <2> QED
    BY <1>6, <2>1, SlotEffect DEF SInv, Pcs
<1>9. Kept /\ th'[t].pc = "spawn kill"
  BY <1>8 DEF Local, Registers
<1>10. Slots'
  BY <1>1, <1>9, ProcsKept
<1>11. Number'
  BY <1>9 DEF Number, Killing
<1>12. Listed'
  <2> SUFFICES ASSUME NEW u \in User, th[u].prog = "spawn"
               PROVE  th[u].arg \in Wid /\ s_spawn_tid'[th[u].arg] = u
    BY <1>9 DEF Listed, Kept, Killable
  <2>1. th[u].arg \in Wid /\ s_spawn_tid[th[u].arg] = u /\ th[u].arg # th[t].slot
    BY <1>3 DEF SInv, Spawned, Listed, Reclaimed
  <2> QED
    BY <1>5, <2>1
<1>13. Entries'
  <2> SUFFICES ASSUME NEW w \in Wid, NEW u \in User, s_spawn_tid'[w] = u
               PROVE  th'[u].prog = "spawn" /\ th'[u].arg = w
    BY DEF Entries
  <2>1. w # th[t].slot /\ s_spawn_tid[w] = u
    BY <1>4, <1>5, Tids
  <2>2. \A v \in User : th[v].pc = "spawn clear" => v = t
    BY <1>3 DEF ShellPcs, Killing
  <2>3. th[u].prog = "spawn" /\ th[u].arg = w
    BY <2>1, <2>2 DEF SInv, Spawned, Entries
  <2> QED
    BY <1>9, <2>3 DEF Kept, Killable
<1>14. g_procs' \in [Proc -> Cmd] /\ s_spawn_tid' \in [Wid -> User \cup {NoTid}] /\ s_spawn_active' \in Int
  <2>1. g_procs' \in [Proc -> Cmd] /\ s_spawn_active' \in Int
    BY <1>1 DEF SInv, Types
  <2> QED
    BY <1>4, <1>5, <2>1
<1>15. "spawn kill" \in Pcs \ {"join"}
  BY DEF Pcs
<1> QED
  BY <1>1, <1>6, <1>7, <1>8, <1>10, <1>11, <1>12, <1>13, <1>14, <1>15, ShellMoves

\* The command lines that are in the slots.
LEMMA NoCmdIsCmd ==
  NoCmd \in Cmd /\ NoCmd.name # "mon stop"
BY Tids DEF NoCmd, Cmd

LEMMA IsCmd ==
  ASSUME NEW N \in SUBSET {"none", "print", "mon start", "mon stop"}, NEW S \in SUBSET (User \cup {NoTid}),
         NEW K \in SUBSET Int, NEW c \in [name : N, tid : S, count : K]
  PROVE  c \in Cmd
BY DEF Cmd

\* The shell at its prompt takes a slot for a command.
LEMMA ProcAllocStep ==
  ASSUME SInv, StopsMonitors, NEW t \in User, shell_proc_alloc(t)
  PROVE  SInv'
<1>1. AtCall(t, "shell", "prompt") /\ UNCHANGED <<s_spawn_tid, s_spawn_active, g_mons>>
  BY DEF shell_proc_alloc
<1>2. PICK p \in Proc, c \in Command : /\ g_procs' = [g_procs EXCEPT ![p] = c]
                                       /\ th' = [th EXCEPT ![t].pc = "create", ![t].slot = p]
  BY DEF shell_proc_alloc
<1>3. p \in Int /\ Locals("create", p)
  BY Tables DEF Locals, Killing
<1>4. Local(t, "create", th[t].tgt, p, th[t].cmd)
  BY <1>2, <1>3, SlotEffect DEF SInv, Pcs
<1>5. Kept /\ th'[t].pc = "create" /\ th'[t].slot = p
  BY <1>4 DEF Local, Registers
<1>6. Entries' /\ Listed'
  BY <1>1, <1>5, TablesKept
<1>7. Number'
  <2>1. \A v \in User : th[v].pc \notin Killing
    BY <1>1, ShellAlone DEF ShellPcs, Killing
  <2> QED
    BY <1>1, <2>1 DEF SInv, Number, Used
<1>8. c \in Cmd /\ (c.name = "mon stop" => \E u \in User : c.tid = u /\ th[u].prog = "monitor")
  <2>0. CASE c \in [name : {"print"}, tid : {NoTid}, count : {0}]
    <3>1. {"print"} \in SUBSET {"none", "print", "mon start", "mon stop"} /\ {0} \in SUBSET Int
          /\ {NoTid} \in SUBSET (User \cup {NoTid})
      OBVIOUS
    <3>2. c \in Cmd
      BY ONLY <2>0, <3>1, IsCmd
    <3> QED
      BY <2>0, <3>2
  <2>1. CASE c \in [name : {"mon start"}, tid : {NoTid}, count : Counts]
    <3>1. c \in Cmd
      BY <2>1, ShellAssumption, IsCmd
    <3> QED
      BY <2>1, <3>1
  <2>2. CASE c \in [name : {"mon stop"}, tid : {u \in User : th[u].prog \in StopTargets}, count : {0}]
    <3>1. PICK S : S = {u \in User : th[u].prog \in StopTargets}
      OBVIOUS
    <3>2. S \subseteq User /\ \A u \in S : th[u].prog = "monitor"
      BY <3>1 DEF StopsMonitors
    <3>3. c \in [name : {"mon stop"}, tid : S, count : {0}]
      BY <2>2, <3>1
    <3>4. c.tid \in S
      BY <3>3
    <3>5. c \in Cmd
      <4>1. S \in SUBSET (User \cup {NoTid})
        BY <3>2
      <4>2. {0} \in SUBSET Int
        OBVIOUS
      <4>3. {"mon stop"} \in SUBSET {"none", "print", "mon start", "mon stop"}
        OBVIOUS
      <4> QED
        BY ONLY <3>3, <4>1, <4>2, <4>3, IsCmd
    <3>6. c.tid \in User /\ th[c.tid].prog = "monitor"
      BY <3>2, <3>4
    <3> QED
      BY <3>5, <3>6
  <2> QED
    BY <1>2, <2>0, <2>1, <2>2 DEF Command
<1>9. g_procs' \in [Proc -> Cmd]
  BY <1>2, <1>8 DEF SInv, Types
<1>10. Slots'
  <2>1. \A q \in Proc : g_procs[q] = NoCmd
    <3>1. \A q \in Proc : ~ InUse(q)
      BY <1>1, ShellAlone DEF InUse, ShellPcs
    <3> QED
      BY <3>1 DEF SInv, Slots
  <2>2. \A q \in Proc : g_procs'[q] = IF q = p THEN c ELSE NoCmd
    BY <1>2, <2>1 DEF SInv, Types
  <2>3. InUse(p)'
    <3>1. LiveShell(t)'
      BY <1>1, <1>5, ShellAlone DEF LiveShell, Kept, Killable
    <3> QED
      BY <1>5, <3>1 DEF InUse
  <2>4. NoCmd.name # "mon stop"
    BY DEF NoCmd
  <2>5. c.name = "mon stop" => \E u \in User : c.tid = u /\ th'[u].prog = "monitor"
    BY <1>5, <1>8 DEF Kept, Killable
  <2> QED
    BY <2>2, <2>3, <2>4, <2>5 DEF Slots
<1>11. s_spawn_tid' \in [Wid -> User \cup {NoTid}] /\ s_spawn_active' \in Int /\ "create" \in Pcs \ {"join"}
  BY <1>1 DEF SInv, Types, Pcs
<1> QED
  BY <1>1, <1>3, <1>4, <1>6, <1>7, <1>9, <1>10, <1>11, ShellMoves DEF Killing

\* There is no thread for the command: the slot is given back.
LEMMA RunCommandFails ==
  ASSUME SInv, NEW t \in User, AtCall(t, "shell", "create"), UNCHANGED <<s_spawn_tid, s_spawn_active, g_mons>>,
         g_procs' = [g_procs EXCEPT ![th[t].slot] = NoCmd],
         th' = [th EXCEPT ![t].pc = "prompt", ![t].slot = NoTid]
  PROVE  SInv'
<1>3. Locals("prompt", NoTid)
  BY DEF Locals, Killing
<1>4. Local(t, "prompt", th[t].tgt, NoTid, th[t].cmd)
  BY Tids, SlotEffect DEF SInv, Pcs
<1>5. Kept
  BY <1>4 DEF Local
<1>6. Entries' /\ Listed'
  BY <1>5, TablesKept
<1>7. Number'
  <2>1. \A v \in User : th[v].pc \notin Killing
    BY ShellAlone DEF ShellPcs, Killing
  <2> QED
    BY <2>1 DEF SInv, Number, Used
<1>8. NoCmd \in Cmd /\ NoCmd.name # "mon stop"
  BY NoCmdIsCmd
<1>9. g_procs' \in [Proc -> Cmd]
  BY <1>8 DEF SInv, Types
<1>10. Slots'
  <2>1. \A q \in Proc : q # th[t].slot => g_procs[q] = NoCmd
    <3>1. \A q \in Proc : q # th[t].slot => ~ InUse(q)
      BY ShellAlone DEF InUse, ShellPcs
    <3> QED
      BY <3>1 DEF SInv, Slots
  <2>2. \A q \in Proc : g_procs'[q] = NoCmd
    BY <2>1 DEF SInv, Types
  <2> QED
    BY <1>8, <2>2 DEF Slots
<1>11. s_spawn_tid' \in [Wid -> User \cup {NoTid}] /\ s_spawn_active' \in Int /\ "prompt" \in Pcs \ {"join"}
  BY DEF SInv, Types, Pcs
<1> QED
  BY <1>3, <1>4, <1>6, <1>7, <1>9, <1>10, <1>11, Tids, ShellMoves DEF Killing

----------------------------------------------------------------------------
(* The steps of a worker that change its registers only.                   *)

\* A monitor in its loop.
Looping(v) == th[v].prog = "monitor" /\ th[v].state \in {"READY", "WAITING"} /\ th[v].pc # "exit"

\* What is left to show of the monitors when another thread writes g_mons.
LEMMA MonitorsFrom ==
  ASSUME SInv, Kept, NEW t \in User, Others({t}), th[t].prog # "monitor",
         \A m \in Mon, u \in User : g_mons'[m].used = 1 /\ g_mons'[m].tid = u =>
           th[u].prog = "monitor" /\ th[u].arg = m,
         \A v \in User : Looping(v) /\ Looping(v)' => Owned(v)'
  PROVE  Monitors'
<1>1. \A v \in User : th[v].prog = "monitor" => th'[v].pc = th[v].pc
  BY DEF Others
<1>2. ASSUME NEW v \in User,
             th'[v].prog = "monitor" /\ th'[v].state \in {"READY", "WAITING"} /\ th'[v].pc # "exit"
      PROVE  Owned(v)'
  <2>1. Looping(v) /\ Looping(v)'
    BY <1>1, <1>2 DEF Looping, Kept, Killable
  <2> QED
    BY <2>1
<1>3. \A v \in User : th'[v].prog = "monitor" => th'[v].arg \in Mon
  BY DEF SInv, Monitors, Kept, Killable
<1>4. \A m \in Mon, u \in User : g_mons'[m].used = 1 /\ g_mons'[m].tid = u =>
           th'[u].prog = "monitor" /\ th'[u].arg = m
  BY DEF Kept, Killable
<1> QED
  BY <1>2, <1>3, <1>4 DEF Monitors

\* While the worker is elsewhere, a monitor that loops is in the table.
LEMMA InTable ==
  ASSUME SInv, NEW t \in User, NEW from, AtCall(t, "sh-cmd", from), NEW v \in User, Looping(v),
         from \notin {"mon record", "mon kill"}
  PROVE  th[v].arg \in Mon /\ g_mons[th[v].arg].used = 1 /\ g_mons[th[v].arg].tid = v
<1>1. Owned(v) /\ th[v].arg \in Mon
  BY DEF SInv, Monitors, Looping
<1>2. \A c \in User : LiveWorker(c) => th[c].pc = from
  BY WorkerAlone
<1> QED
  BY <1>1, <1>2 DEF Owned

\* No slot of a command is in use.
LEMMA NoCommands ==
  ASSUME \A p \in Proc : g_procs'[p] = NoCmd
  PROVE  Slots'
BY NoCmdIsCmd DEF Slots

\* The parts of the invariant that the registers of a worker do not matter to.
LEMMA WorkerMoves ==
  ASSUME SInv, NEW t \in User, NEW from, AtCall(t, "sh-cmd", from),
         NEW pc \in Pcs \ ShellPcs, NEW tgt, NEW slot, NEW cmd, Local(t, pc, tgt, slot, cmd),
         UNCHANGED <<s_spawn_tid, s_spawn_active>>,
         g_procs' \in [Proc -> Cmd], g_mons' \in [Mon -> Monitor],
         Copying(t)', Victim(t)', Freed(t)', Started(t)',
         from = "copy" => Slots', from # "copy" => UNCHANGED g_procs,
         \A m \in Mon, u \in User : g_mons'[m].used = 1 /\ g_mons'[m].tid = u =>
           th[u].prog = "monitor" /\ th[u].arg = m,
         \A v \in User : Looping(v) /\ Looping(v)' => Owned(v)'
  PROVE  SInv'
<1>1. /\ th[t].prog = "sh-cmd" /\ \A v \in User : v # t => ~ LiveWorker(v)
      /\ from # "copy" => \A p \in Proc : g_procs[p] = NoCmd
  BY WorkerAlone
<1>2. Kept /\ Others({t}) /\ th' \in [Tid -> Thread]
  BY DEF Local
<1>3. Fixed' /\ Joins' /\ Shells' /\ Workers' /\ ShellAt' /\ Spawned' /\ Number'
  BY <1>1, OtherLocal DEF ShellPcs
<1>4. Slots'
  <2>1. CASE from # "copy"
    BY <1>1, <2>1, NoCommands
  <2> QED
    BY <2>1
<1>5. Monitors'
  BY <1>1, <1>2, MonitorsFrom
<1>6. WorkerAt'
  <2>1. \A v \in User : LiveWorker(v)' => v = t
    BY <1>1, <1>2 DEF LiveWorker, Kept, Killable
  <2> QED
    BY <2>1 DEF WorkerAt
<1>7. Types'
  <2>1. s_spawn_tid' \in [Wid -> User \cup {NoTid}] /\ s_spawn_active' \in Int
    BY DEF SInv, Types
  <2> QED
    BY <1>2, <2>1 DEF Types
<1> QED
  BY <1>3, <1>4, <1>5, <1>6, <1>7 DEF SInv

\* The registers of the worker after the step, for the conjuncts about it.
LEMMA Arrived ==
  ASSUME NEW t \in User, NEW pc, NEW tgt, NEW slot, NEW cmd, Local(t, pc, tgt, slot, cmd)
  PROVE  /\ th'[t].pc = pc /\ th'[t].tgt = tgt /\ th'[t].slot = slot /\ th'[t].cmd = cmd
         /\ \A v \in User : th'[v].prog = th[v].prog /\ th'[v].arg = th[v].arg
         /\ \A v \in User : LiveWorker(v)' <=> LiveWorker(v)
BY DEF Local, Registers, Kept, Killable, LiveWorker

\* A worker that is about to exit has no locals left.
LEMMA AtExit ==
  ASSUME NEW t \in User, th'[t].pc = "exit"
  PROVE  Copying(t)' /\ Victim(t)' /\ Freed(t)' /\ Started(t)'
BY DEF Copying, Victim, Freed, Started, Stopping

\* shell_cmd_worker preserves the invariant.
LEMMA CmdWorkerStep ==
  ASSUME SInv, NEW t \in User, shell_cmd_worker(t)
  PROVE  SInv'
<1>1. AtCall(t, "sh-cmd", "copy") /\ UNCHANGED <<s_spawn_tid, s_spawn_active, g_mons>>
  BY DEF shell_cmd_worker
<1>2. /\ t \in Tid /\ t # M /\ th[t] \in Thread /\ LiveWorker(t) /\ th[t].pc = "copy" /\ th[t].prog = "sh-cmd"
      /\ \A v \in User : v # t => ~ LiveWorker(v)
      /\ \A v \in User : th[v].pc \notin ShellPcs
  BY <1>1, WorkerAlone
<1>3. th[t].arg \in Proc /\ th[t].slot = NoTid /\ th[t].tgt \in User \cup {NoTid}
  BY <1>2 DEF SInv, WorkerAt, Copying, Thread
<1>4. PICK c \in Cmd : c = g_procs[th[t].arg]
  BY <1>3 DEF SInv, Types
<1>5. PICK pc : pc = IF c.name = "print" THEN "exit" ELSE c.name
  OBVIOUS
<1>6. pc \in {"none", "exit", "mon start", "mon stop"}
  BY <1>5 DEF Cmd
<1>7. th' = [th EXCEPT ![t].cmd = c, ![t].pc = pc] /\ g_procs' = [g_procs EXCEPT ![th[t].arg] = NoCmd]
  BY <1>4, <1>5 DEF shell_cmd_worker
<1>8. pc \in Pcs \ ShellPcs
  BY <1>6 DEF Pcs, ShellPcs, Killing
<1>9. Local(t, pc, th[t].tgt, th[t].slot, c)
  <2>1. PICK r : r = [th[t] EXCEPT !.cmd = c, !.pc = pc]
    OBVIOUS
  <2>2. th' = [th EXCEPT ![t] = r]
    BY <1>2, <1>7, <2>1 DEF SInv, Types
  <2>3. r = [th[t] EXCEPT !.pc = pc, !.tgt = th[t].tgt, !.slot = th[t].slot, !.cmd = c]
    BY <1>2, <2>1 DEF Thread
  <2>4. th[t].slot \in Int
    BY <1>2 DEF Thread
  <2> QED
    BY <1>3, <1>8, <2>2, <2>3, <2>4, LocalEffect DEF SInv
<1>10. NoCmd \in Cmd
  BY NoCmdIsCmd
<1>11. g_procs' \in [Proc -> Cmd] /\ g_mons' \in [Mon -> Monitor]
  BY <1>1, <1>7, <1>10 DEF SInv, Types
<1>12. Slots'
  <2>1. ASSUME NEW p \in Proc, p # th[t].arg PROVE g_procs[p] = NoCmd
    <3>1. ~ InUse(p)
      BY <1>2, <2>1 DEF InUse, ShellPcs
    <3> QED
      BY <3>1 DEF SInv, Slots
  <2> QED
    BY <1>3, <1>7, <2>1, NoCommands DEF SInv, Types
<1>13. /\ th'[t].pc = pc /\ th'[t].slot = NoTid /\ th'[t].cmd = c
       /\ \A v \in User : th'[v].prog = th[v].prog /\ th'[v].arg = th[v].arg
  BY <1>3, <1>9, Arrived
<1>14. Copying(t)' /\ Freed(t)' /\ Started(t)'
  BY <1>6, <1>13 DEF Copying, Freed, Started, Stopping
<1>15. Victim(t)'
  <2> SUFFICES ASSUME pc = "mon stop"
               PROVE  \E u \in User : c.tid = u /\ th'[u].prog = "monitor"
    BY <1>6, <1>13 DEF Victim
  <2>1. c.name = "mon stop"
    BY <1>5
  <2> QED
    BY <1>3, <1>4, <1>13, <2>1 DEF SInv, Slots
<1>16. ASSUME NEW v \in User, Looping(v) PROVE Owned(v)'
  <2>1. g_mons[th[v].arg].used = 1 /\ g_mons[th[v].arg].tid = v
    <3>1. "copy" \notin {"mon record", "mon kill"}
      OBVIOUS
    <3> QED
      BY <1>1, <1>16, <3>1, InTable, Zenon
  <2>2. th'[v].arg = th[v].arg /\ g_mons' = g_mons
    BY <1>1, <1>13
  <2> QED
    BY <2>1, <2>2 DEF Owned
<1>17. \A m \in Mon, u \in User : g_mons'[m].used = 1 /\ g_mons'[m].tid = u =>
           th[u].prog = "monitor" /\ th[u].arg = m
  BY <1>1 DEF SInv, Monitors
<1> QED
  BY <1>1, <1>8, <1>9, <1>11, <1>12, <1>14, <1>15, <1>16, <1>17, WorkerMoves

\* A worker is done; the slots in use are as before.
LEMMA WorkerDone ==
  ASSUME SInv, NEW t \in User, NEW from, from \notin {"copy", "mon record", "mon kill"}, AtCall(t, "sh-cmd", from),
         th' = [th EXCEPT ![t].pc = "exit"],
         UNCHANGED <<g_procs, s_spawn_tid, s_spawn_active>>, g_mons' \in [Mon -> Monitor],
         \A m \in Mon : (g_mons[m].used = 1 \/ g_mons'[m].used = 1) => g_mons'[m] = g_mons[m]
  PROVE  SInv'
<1>1. Local(t, "exit", th[t].tgt, th[t].slot, th[t].cmd) /\ "exit" \in Pcs \ ShellPcs
  BY PcEffect DEF SInv, Pcs, ShellPcs, Killing
<1>2. /\ th'[t].pc = "exit"
      /\ \A v \in User : th'[v].arg = th[v].arg
  BY <1>1, Arrived, ZenonT(40)
<1>3. g_procs' \in [Proc -> Cmd]
  BY DEF SInv, Types
<1>4. Copying(t)' /\ Victim(t)' /\ Freed(t)' /\ Started(t)'
  BY <1>2, AtExit
<1>5. \A m \in Mon, u \in User : g_mons'[m].used = 1 /\ g_mons'[m].tid = u =>
           th[u].prog = "monitor" /\ th[u].arg = m
  BY DEF SInv, Monitors
<1>6. ASSUME NEW v \in User, Looping(v) PROVE Owned(v)'
  <2>1. th[v].arg \in Mon /\ g_mons[th[v].arg].used = 1 /\ g_mons[th[v].arg].tid = v
    BY <1>6, InTable
  <2>2. g_mons'[th[v].arg] = g_mons[th[v].arg] /\ th'[v].arg = th[v].arg
    BY <1>2, <2>1
  <2> QED
    BY <2>1, <2>2 DEF Owned
<1> QED
  BY <1>1, <1>3, <1>4, <1>5, <1>6, WorkerMoves

\* mon_record preserves the invariant: the slot it writes is still that of
\* the monitor it started.
LEMMA MonRecordStep ==
  ASSUME SInv, NEW t \in User, mon_record(t)
  PROVE  SInv'
<1>1. /\ AtCall(t, "sh-cmd", "mon record") /\ UNCHANGED <<g_procs, s_spawn_tid, s_spawn_active>>
      /\ g_mons' = [g_mons EXCEPT ![th[t].slot].tid = th[t].tgt] /\ th' = [th EXCEPT ![t].pc = "exit"]
  BY DEF mon_record
<1>2. /\ LiveWorker(t) /\ th[t].pc = "mon record"
      /\ \A v \in User : v # t => ~ LiveWorker(v)
  BY <1>1, WorkerAlone
<1>3. PICK s \in Mon, u \in User : /\ s = th[t].slot /\ u = th[t].tgt /\ g_mons[s].tid = NoTid
                                   /\ th[u].prog = "monitor" /\ th[u].arg = s
  BY <1>2 DEF SInv, WorkerAt, Started
<1>4. Local(t, "exit", th[t].tgt, th[t].slot, th[t].cmd) /\ "exit" \in Pcs \ ShellPcs
  BY <1>1, PcEffect DEF SInv, Pcs, ShellPcs, Killing
<1>5. th'[t].pc = "exit" /\ \A v \in User : th'[v].arg = th[v].arg
  BY <1>4, Arrived
<1>6. /\ g_mons' \in [Mon -> Monitor] /\ g_mons'[s].tid = u /\ g_mons'[s].used = g_mons[s].used
      /\ \A m \in Mon : m # s => g_mons'[m] = g_mons[m]
  BY <1>1, <1>3 DEF SInv, Types, Monitor
<1>7. g_procs' \in [Proc -> Cmd]
  BY <1>1 DEF SInv, Types
<1>8. Copying(t)' /\ Victim(t)' /\ Freed(t)' /\ Started(t)'
  BY <1>5, AtExit
<1>9. ASSUME NEW m \in Mon, NEW v \in User, g_mons'[m].used = 1, g_mons'[m].tid = v
      PROVE  th[v].prog = "monitor" /\ th[v].arg = m
  <2>1. CASE m = s
    BY <1>3, <1>6, <1>9, <2>1
  <2>2. CASE m # s
    BY <1>6, <1>9, <2>2 DEF SInv, Monitors
  <2> QED
    BY <2>1, <2>2
<1>10. ASSUME NEW v \in User, Looping(v) PROVE Owned(v)'
  <2>1. Owned(v) /\ th[v].arg \in Mon
    BY <1>10 DEF SInv, Monitors, Looping
  <2>2. \/ g_mons[th[v].arg].used = 1 /\ g_mons[th[v].arg].tid = v
        \/ v = u /\ g_mons[s].used = 1
    BY <1>2, <1>3, <2>1 DEF Owned
  <2>3. CASE v = u /\ g_mons[s].used = 1
    BY <1>3, <1>5, <1>6, <2>3 DEF Owned
  <2>4. CASE g_mons[th[v].arg].used = 1 /\ g_mons[th[v].arg].tid = v
    <3>1. th[v].arg # s
      BY <1>3, <2>4, Tids
    <3> QED
      BY <1>5, <1>6, <2>1, <2>4, <3>1 DEF Owned
  <2> QED
    BY <2>2, <2>3, <2>4
<1>11. \A m \in Mon, v \in User : g_mons'[m].used = 1 /\ g_mons'[m].tid = v =>
           th[v].prog = "monitor" /\ th[v].arg = m
  BY <1>9
<1>12. \A v \in User : Looping(v) => Owned(v)'
  BY <1>10
<1> QED
  BY <1>1, <1>4, <1>6, <1>7, <1>8, <1>11, <1>12, WorkerMoves

\* mon_stop_clear preserves the invariant.
LEMMA MonStopClearStep ==
  ASSUME SInv, NEW t \in User, mon_stop_clear(t)
  PROVE  SInv'
<1>1. /\ AtCall(t, "sh-cmd", "mon clear") /\ UNCHANGED <<g_procs, s_spawn_tid, s_spawn_active>>
      /\ th' = [th EXCEPT ![t].pc = "exit"]
  BY DEF mon_stop_clear
<1>2. LiveWorker(t) /\ th[t].pc = "mon clear"
  BY <1>1, WorkerAlone
<1>3. th[t].slot = NoTid \/ (th[t].slot \in Mon /\ g_mons[th[t].slot].used = 0)
  BY <1>2 DEF SInv, WorkerAt, Freed, Stopping
<1>4. /\ g_mons' \in [Mon -> Monitor]
      /\ \A m \in Mon : (g_mons[m].used = 1 \/ g_mons'[m].used = 1) => g_mons'[m] = g_mons[m]
  <2>1. CASE th[t].slot = NoTid
    <3>1. g_mons' = g_mons
      BY <2>1 DEF mon_stop_clear
    <3> QED
      BY <3>1 DEF SInv, Types
  <2>2. CASE th[t].slot # NoTid
    <3>1. g_mons' = [g_mons EXCEPT ![th[t].slot].tid = NoTid]
      BY <2>2 DEF mon_stop_clear
    <3> QED
      BY <1>3, <2>2, <3>1 DEF SInv, Types, Monitor
  <2> QED
    BY <2>1, <2>2
<1> QED
  BY <1>1, <1>4, WorkerDone

\* The worker is about to stop monitor u.
LEMMA StopFacts ==
  ASSUME SInv, NEW t \in User, NEW pc \in {"mon stop", "mon kill", "mon join"}, AtCall(t, "sh-cmd", pc)
  PROVE  \E u \in User : /\ th[t].cmd.tid = u /\ th[u].prog = "monitor"
                         /\ pc = "mon join" => th[u].state = "ZOMBIE"
<1>1. LiveWorker(t) /\ th[t].pc = pc
  BY WorkerAlone
<1> QED
  BY <1>1 DEF SInv, WorkerAt, Victim

\* mon_stop when no slot in use carries the tid.
LEMMA MonStopNone ==
  ASSUME SInv, NEW t \in User, AtCall(t, "sh-cmd", "mon stop"), th' = [th EXCEPT ![t].pc = "mon kill"],
         UNCHANGED tables, \A m \in Mon : g_mons[m].used = 1 => g_mons[m].tid # th[t].cmd.tid
  PROVE  SInv'
<1>1. UNCHANGED <<g_procs, s_spawn_tid, s_spawn_active, g_mons>>
  BY DEF tables
<1>2. Local(t, "mon kill", th[t].tgt, th[t].slot, th[t].cmd) /\ "mon kill" \in Pcs \ ShellPcs
  BY PcEffect DEF SInv, Pcs, ShellPcs, Killing
<1>3. /\ th'[t].pc = "mon kill" /\ th'[t].slot = th[t].slot /\ th'[t].cmd = th[t].cmd
      /\ \A v \in User : th'[v].arg = th[v].arg /\ th'[v].prog = th[v].prog
  BY ONLY <1>2, t \in User DEF Local, Registers, Kept, Killable, LiveWorker
<1>4. g_procs' \in [Proc -> Cmd] /\ g_mons' \in [Mon -> Monitor]
  BY <1>1 DEF SInv, Types
<1>5. PICK u \in User : th[t].cmd.tid = u /\ th[u].prog = "monitor"
  BY StopFacts
<1>6. th[t].slot = NoTid
  <2>1. LiveWorker(t) /\ th[t].pc = "mon stop"
    BY WorkerAlone
  <2> QED
    BY <2>1 DEF SInv, WorkerAt, Copying
<1>7. Copying(t)' /\ Victim(t)' /\ Started(t)'
  BY <1>3, <1>5 DEF Copying, Victim, Started
<1>8. Freed(t)'
  BY <1>1, <1>3, <1>6 DEF Freed
<1>9. \A m \in Mon, v \in User : g_mons'[m].used = 1 /\ g_mons'[m].tid = v =>
           th[v].prog = "monitor" /\ th[v].arg = m
  BY <1>1 DEF SInv, Monitors
<1>10. ASSUME NEW v \in User, Looping(v) PROVE Owned(v)'
  <2>1. "mon stop" \notin {"mon record", "mon kill"}
    OBVIOUS
  <2>2. g_mons[th[v].arg].used = 1 /\ g_mons[th[v].arg].tid = v
    BY <1>10, <2>1, InTable, Zenon
  <2> QED
    BY <1>1, <1>3, <2>2 DEF Owned
<1>11. \A v \in User : Looping(v) => Owned(v)'
  BY <1>10
<1> QED
  BY <1>1, <1>2, <1>4, <1>7, <1>8, <1>9, <1>11, WorkerMoves

\* mon_stop when slot s carries the tid.
LEMMA MonStopOwn ==
  ASSUME SInv, NEW t \in User, AtCall(t, "sh-cmd", "mon stop"), NEW s \in Mon,
         g_mons[s].used = 1, g_mons[s].tid = th[t].cmd.tid,
         th' = [th EXCEPT ![t].pc = "mon kill", ![t].slot = s],
         g_mons' = [g_mons EXCEPT ![s].used = 0], UNCHANGED <<g_procs, s_spawn_tid, s_spawn_active>>
  PROVE  SInv'
<1>1. s \in Int
  BY ONLY s \in Mon, Tables
<1>2. Local(t, "mon kill", th[t].tgt, s, th[t].cmd) /\ "mon kill" \in Pcs \ ShellPcs
  BY <1>1, SlotEffect DEF SInv, Pcs, ShellPcs, Killing
<1>3. /\ th'[t].pc = "mon kill" /\ th'[t].slot = s /\ th'[t].cmd = th[t].cmd
      /\ \A v \in User : th'[v].arg = th[v].arg /\ th'[v].prog = th[v].prog
      /\ \A v \in User : LiveWorker(v)' <=> LiveWorker(v)
  BY ONLY <1>2, t \in User DEF Local, Registers, Kept, Killable, LiveWorker
<1>4. /\ g_mons' \in [Mon -> Monitor] /\ g_mons'[s].used = 0
      /\ \A m \in Mon : m # s => g_mons'[m] = g_mons[m]
  BY DEF SInv, Types, Monitor
<1>5. g_procs' \in [Proc -> Cmd]
  BY DEF SInv, Types
<1>6. PICK u \in User : th[t].cmd.tid = u /\ th[u].prog = "monitor"
  BY StopFacts
<1>7. \A m \in Mon, v \in User : g_mons[m].used = 1 /\ g_mons[m].tid = v =>
           th[v].prog = "monitor" /\ th[v].arg = m
  BY DEF SInv, Monitors
<1>8. Copying(t)' /\ Victim(t)' /\ Started(t)'
  BY <1>3, <1>6 DEF Copying, Victim, Started
<1>9. Freed(t)'
  <2>1. ASSUME NEW m \in Mon, g_mons'[m].used = 1 PROVE g_mons'[m].tid # th[t].cmd.tid
    <3>1. m # s
      BY ONLY <1>4, <2>1
    <3>2. g_mons[m].used = 1 /\ g_mons'[m].tid = g_mons[m].tid
      BY ONLY <1>4, <2>1, <3>1
    <3>3. g_mons[m].tid = u => th[u].arg = m
      BY ONLY <1>7, <3>2, m \in Mon, u \in User
    <3>4. th[u].arg = s
      BY <1>6, <1>7
    <3> QED
      BY ONLY <1>6, <3>1, <3>2, <3>3, <3>4
  <2> QED
    BY <1>3, <1>4, <2>1 DEF Freed
<1>10. ASSUME NEW m \in Mon, NEW v \in User, g_mons'[m].used = 1, g_mons'[m].tid = v
       PROVE  th[v].prog = "monitor" /\ th[v].arg = m
  <2>1. m # s
    BY ONLY <1>4, <1>10
  <2> QED
    BY ONLY <1>4, <1>7, <1>10, <2>1
<1>11. ASSUME NEW v \in User, Looping(v) PROVE Owned(v)'
  <2>1. "mon stop" \notin {"mon record", "mon kill"}
    OBVIOUS
  <2>2. th[v].arg \in Mon /\ g_mons[th[v].arg].used = 1 /\ g_mons[th[v].arg].tid = v
    BY <1>11, <2>1, InTable, Zenon
  <2>3. CASE th[v].arg = s
    <3>1. LiveWorker(t)
      BY WorkerAlone
    <3> QED
      BY <1>3, <2>2, <2>3, <3>1 DEF Owned
  <2>4. CASE th[v].arg # s
    BY <1>3, <1>4, <2>2, <2>4 DEF Owned
  <2> QED
    BY <2>3, <2>4
<1>12. \A m \in Mon, v \in User : g_mons'[m].used = 1 /\ g_mons'[m].tid = v =>
           th[v].prog = "monitor" /\ th[v].arg = m
  BY <1>10
<1>13. \A v \in User : Looping(v) => Owned(v)'
  BY <1>11
<1> QED
  BY <1>2, <1>4, <1>5, <1>8, <1>9, <1>12, <1>13, WorkerMoves

\* The monitor dies, or is dead already.
LEMMA MonStopKills ==
  ASSUME SInv, NEW t \in User, AtCall(t, "sh-cmd", "mon kill"), NEW u \in User, th[t].cmd.tid = u,
         th[u].prog = "monitor", th'[u].state = "ZOMBIE",
         Local(t, "mon join", th[t].tgt, th[t].slot, th[t].cmd), UNCHANGED tables
  PROVE  SInv'
<1>1. UNCHANGED <<g_procs, s_spawn_tid, s_spawn_active, g_mons>>
  BY DEF tables
<1>2. Local(t, "mon join", th[t].tgt, th[t].slot, th[t].cmd) /\ "mon join" \in Pcs \ ShellPcs
  BY DEF Pcs, ShellPcs, Killing
<1>3. /\ th'[t].pc = "mon join" /\ th'[t].slot = th[t].slot /\ th'[t].cmd = th[t].cmd
      /\ \A v \in User : th'[v].arg = th[v].arg /\ th'[v].prog = th[v].prog
  BY ONLY <1>2, t \in User DEF Local, Registers, Kept, Killable, LiveWorker
<1>4. g_procs' \in [Proc -> Cmd] /\ g_mons' \in [Mon -> Monitor]
  BY <1>1 DEF SInv, Types
<1>5. /\ LiveWorker(t) /\ th[t].pc = "mon kill" /\ \A v \in User : v # t => ~ LiveWorker(v)
  BY WorkerAlone
<1>6. Freed(t)
  BY <1>5 DEF SInv, WorkerAt
<1>7. Copying(t)' /\ Victim(t)' /\ Started(t)'
  BY <1>3 DEF Copying, Victim, Started
<1>8. Freed(t)'
  BY <1>1, <1>3, <1>5, <1>6 DEF Freed, Stopping
<1>9. \A m \in Mon, v \in User : g_mons'[m].used = 1 /\ g_mons'[m].tid = v =>
           th[v].prog = "monitor" /\ th[v].arg = m
  BY <1>1 DEF SInv, Monitors
<1>10. ASSUME NEW v \in User, Looping(v), Looping(v)' PROVE Owned(v)'
  <2>1. Owned(v) /\ v # u
    BY <1>10 DEF SInv, Monitors, Looping
  <2>2. g_mons[th[v].arg].used = 1 /\ g_mons[th[v].arg].tid = v
    BY <1>5, <2>1 DEF Owned
  <2> QED
    BY <1>1, <1>3, <2>2 DEF Owned
<1>11. \A v \in User : Looping(v) /\ Looping(v)' => Owned(v)'
  BY <1>10
<1> QED
  BY ONLY SInv, t \in User, AtCall(t, "sh-cmd", "mon kill"), <1>1, <1>2, <1>4, <1>7, <1>8, <1>9, <1>11, WorkerMoves

----------------------------------------------------------------------------
(* The steps of a monitor.                                                 *)

\* The parts of the invariant that the registers of a monitor do not matter to.
LEMMA MonitorMoves ==
  ASSUME SInv, NEW t \in User, NEW from, AtCall(t, "monitor", from),
         NEW pc \in {"exit", "check", "report"}, th' = [th EXCEPT ![t].pc = pc],
         UNCHANGED <<g_procs, s_spawn_tid, s_spawn_active>>, g_mons' \in [Mon -> Monitor]
  PROVE  /\ Types' /\ Fixed' /\ Joins' /\ Shells' /\ Workers' /\ ShellAt' /\ Spawned' /\ Number' /\ Slots'
         /\ Kept /\ WorkersKept /\ Others({t}) /\ th'[t].pc = pc
         /\ th[t].prog = "monitor" /\ th[t].state = "READY" /\ th[t].pc = from
<1>1. th[t].prog = "monitor" /\ th[t].state = "READY" /\ th[t].pc = from
  BY DEF AtCall
<1>2. pc \in Pcs /\ pc \notin Killing \cup {"spawn", "create"}
  BY DEF Pcs, Killing
<1>3. Local(t, pc, th[t].tgt, th[t].slot, th[t].cmd)
  BY <1>2, PcEffect DEF SInv
<1>4. Kept /\ Others({t}) /\ th'[t].pc = pc /\ th' \in [Tid -> Thread]
  BY ONLY <1>3 DEF Local, Registers
<1>5. Fixed' /\ Joins' /\ Shells' /\ Workers' /\ ShellAt' /\ Spawned' /\ Number'
  BY <1>1, <1>2, <1>3, OtherLocal
<1>6. WorkersKept
  BY ONLY <1>1, <1>4 DEF WorkersKept, Others
<1>7. Slots'
  <2>1. \A v \in User : LiveShell(v) /\ th[v].pc = "create" => th'[v].pc = "create" /\ th'[v].slot = th[v].slot
    BY ONLY <1>1, <1>4 DEF LiveShell, Others
  <2>2. \A v \in User : LiveWorker(v) /\ th[v].pc = "copy" => th'[v].pc = "copy"
    BY ONLY <1>1, <1>4 DEF LiveWorker, Others
  <2> QED
    BY <1>4, <2>1, <2>2, FrameSlots DEF SInv
<1>8. Types'
  BY <1>4 DEF SInv, Types
<1> QED
  BY <1>1, <1>4, <1>5, <1>6, <1>7, <1>8

\* The monitor leaves its slot alone.
LEMMA MonitorQuiet ==
  ASSUME SInv, NEW t \in User, NEW from, from # "exit", AtCall(t, "monitor", from),
         NEW pc \in {"exit", "check", "report"}, th' = [th EXCEPT ![t].pc = pc], UNCHANGED tables
  PROVE  SInv'
<1>1. UNCHANGED <<g_procs, s_spawn_tid, s_spawn_active, g_mons>>
  BY DEF tables
<1>2. g_mons' \in [Mon -> Monitor]
  BY <1>1 DEF SInv, Types
<1>3. /\ Types' /\ Fixed' /\ Joins' /\ Shells' /\ Workers' /\ ShellAt' /\ Spawned' /\ Number' /\ Slots'
      /\ Kept /\ WorkersKept /\ Others({t}) /\ th[t].pc = from
  BY <1>1, <1>2, MonitorMoves
<1>4. \A v \in User : th[v].prog = "monitor" /\ th'[v].pc # "exit" => th[v].pc # "exit"
  BY <1>3 DEF Others
<1>5. WorkerAt' /\ Monitors'
  BY <1>1, <1>3, <1>4, FrameWorkerAt, FrameMonitors DEF SInv
<1> QED
  BY <1>3, <1>5 DEF SInv

\* monitor_check preserves the invariant.
LEMMA MonitorCheckStep ==
  ASSUME SInv, NEW t \in User, monitor_check(t)
  PROVE  SInv'
<1>1. AtCall(t, "monitor", "check") /\ UNCHANGED tables
  BY DEF monitor_check
<1>2. PICK pc \in {"exit", "check", "report"} : th' = [th EXCEPT ![t].pc = pc]
  BY DEF monitor_check
<1> QED
  BY <1>1, <1>2, MonitorQuiet

\* used = 0 is not used = 1.
LEMMA ZeroOne ==
  0 # 1
OBVIOUS

\* Two monitors do not share a slot in use.
LEMMA OneOwner ==
  ASSUME SInv, NEW m \in Mon, g_mons[m].used = 1, NEW t \in User, NEW v \in User,
         th[t].arg = m, th[v].arg = m, Owned(t), Owned(v)
  PROVE  t = v
<1> DEFINE Recorded(x) == \E c \in User : LiveWorker(c) /\ th[c].slot = m /\ th[c].pc = "mon record" /\ th[c].tgt = x
<1>1. \A c \in User : LiveWorker(c) /\ th[c].slot = m => th[c].pc # "mon kill"
  <2> SUFFICES ASSUME NEW c \in User, LiveWorker(c), th[c].slot = m, th[c].pc = "mon kill"
               PROVE  FALSE
    OBVIOUS
  <2>1. Freed(c)
    BY DEF SInv, WorkerAt
  <2>2. th[c].slot = NoTid \/ g_mons[th[c].slot].used = 0
    BY <2>1 DEF Freed, Stopping
  <2> QED
    <3>1. NoTid # m
      BY Tables
    <3>2. g_mons[m].used = 0
      BY <2>2, <3>1
    <3> QED
      BY <3>2, ZeroOne, Zenon
<1>2. ASSUME NEW x \in User, th[x].arg = m, Owned(x) PROVE g_mons[m].tid = x \/ Recorded(x)
  BY <1>1, <1>2 DEF Owned
<1>3. \A c \in User : LiveWorker(c) /\ th[c].slot = m /\ th[c].pc = "mon record" => g_mons[m].tid \notin User
  BY Tids DEF SInv, WorkerAt, Started
<1>4. \A c, d \in User : LiveWorker(c) /\ LiveWorker(d) => c = d
  BY DEF SInv, Workers
<1>5. (g_mons[m].tid = t \/ Recorded(t)) /\ (g_mons[m].tid = v \/ Recorded(v))
  BY <1>2
<1>6. CASE g_mons[m].tid \in User
  <2>1. ~ Recorded(t) /\ ~ Recorded(v)
    BY <1>3, <1>6
  <2> QED
    BY <1>5, <2>1
<1>7. CASE g_mons[m].tid \notin User
  <2>1. Recorded(t) /\ Recorded(v)
    BY <1>5, <1>7
  <2> QED
    BY <1>4, <2>1
<1> QED
  BY <1>6, <1>7

\* The countdown: the last report frees the slot, and the monitor goes on to
\* its end.
LEMMA MonitorCounts ==
  ASSUME SInv, NEW t \in User, AtCall(t, "monitor", "report"), NEW s, s = th[t].arg,
         NEW r \in Int, NEW used \in {0, 1}, used = (IF r = 0 THEN 0 ELSE g_mons[s].used),
         g_mons' = [g_mons EXCEPT ![s].remaining = r, ![s].used = used],
         NEW pc, pc = (IF r = 0 THEN "exit" ELSE "check"), th' = [th EXCEPT ![t].pc = pc],
         UNCHANGED <<g_procs, s_spawn_tid, s_spawn_active>>
  PROVE  SInv'
<1>1. th[t].prog = "monitor" /\ th[t].state = "READY" /\ th[t].pc = "report"
  BY DEF AtCall
<1>2. s \in Mon
  BY <1>1 DEF SInv, Monitors
<1>3. /\ g_mons' \in [Mon -> Monitor] /\ g_mons'[s].used = used /\ g_mons'[s].tid = g_mons[s].tid
      /\ \A m \in Mon : m # s => g_mons'[m] = g_mons[m]
  BY <1>2 DEF SInv, Types, Monitor
<1>4. pc \in {"exit", "check", "report"}
  OBVIOUS
<1>5. /\ Types' /\ Fixed' /\ Joins' /\ Shells' /\ Workers' /\ ShellAt' /\ Spawned' /\ Number' /\ Slots'
      /\ Kept /\ WorkersKept /\ Others({t}) /\ th'[t].pc = pc
  BY <1>3, <1>4, MonitorMoves, ZenonT(40)
<1>6. /\ \A m \in Mon : g_mons'[m].tid = g_mons[m].tid
      /\ \A m \in Mon : g_mons[m].used = 0 => g_mons'[m].used = 0
      /\ \A m \in Mon : g_mons'[m].used = 1 => g_mons[m].used = 1
  <2>1. g_mons[s].used \in {0, 1}
    BY <1>2 DEF SInv, Types, Monitor
  <2> QED
    BY ONLY <1>3, <2>1, used = (IF r = 0 THEN 0 ELSE g_mons[s].used)
<1>7. \A v \in User : (LiveWorker(v)' <=> LiveWorker(v)) /\ (LiveWorker(v) => th[v].prog = "sh-cmd")
  BY ONLY <1>5 DEF LiveWorker, Kept, Killable
<1>8. WorkerAt'
  <2> SUFFICES ASSUME NEW c \in User, LiveWorker(c)
               PROVE  Copying(c)' /\ Victim(c)' /\ Freed(c)' /\ Started(c)'
    BY <1>7 DEF WorkerAt
  <2>1. Copying(c) /\ Victim(c) /\ Freed(c) /\ Started(c)
    BY DEF SInv, WorkerAt
  <2>2. /\ th'[c].pc = th[c].pc /\ th'[c].tgt = th[c].tgt /\ th'[c].slot = th[c].slot
        /\ th'[c].cmd = th[c].cmd /\ th'[c].arg = th[c].arg
    BY ONLY <1>5, <1>7, c \in User, LiveWorker(c) DEF WorkersKept, Kept, Killable
  <2>3. Copying(c)'
    BY ONLY <2>1, <2>2 DEF Copying
  <2>4. Victim(c)'
    BY ONLY <1>5, <2>1, <2>2 DEF Victim, Kept, Killable
  <2>5. Freed(c)'
    BY ONLY <1>6, <2>1, <2>2 DEF Freed
  <2>6. Started(c)'
    BY ONLY <1>5, <1>6, <2>1, <2>2 DEF Started, Kept, Killable
  <2> QED
    BY <2>3, <2>4, <2>5, <2>6
<1>9. Monitors'
  <2>1. Monitors /\ WorkerAt /\ Workers
    BY DEF SInv
  <2>2. \A m \in Mon, u \in User : g_mons'[m].used = 1 /\ g_mons'[m].tid = u =>
          th'[u].prog = "monitor" /\ th'[u].arg = m
    BY ONLY <1>5, <1>6, <2>1 DEF Monitors, Kept, Killable
  <2>3. \A v \in User : th'[v].prog = "monitor" => th'[v].arg \in Mon
    BY ONLY <1>5, <2>1 DEF Monitors, Kept, Killable
  <2>4. ASSUME NEW v \in User, th'[v].prog = "monitor", th'[v].state \in {"READY", "WAITING"}, th'[v].pc # "exit"
        PROVE  Owned(v)'
    <3>1. v # t => Looping(v)
      BY ONLY <1>5, <2>4 DEF Looping, Kept, Killable, Others
    <3>2. Looping(v)
      BY <1>1, <3>1 DEF Looping
    <3>3. Owned(v) /\ th[v].arg \in Mon /\ th'[v].arg = th[v].arg
      BY ONLY <1>5, <2>1, <3>2, v \in User DEF Monitors, Looping, Kept, Killable
    <3>4. g_mons[th[v].arg].used = 1 => g_mons'[th[v].arg].used = 1
      <4>1. CASE th[v].arg # s
        BY ONLY <1>3, <3>3, <4>1
      <4>2. CASE th[v].arg = s /\ r # 0
        BY ONLY <1>3, <4>2, used = (IF r = 0 THEN 0 ELSE g_mons[s].used)
      <4>3. CASE th[v].arg = s /\ r = 0
        <5>1. pc = "exit" /\ v # t
          BY ONLY <1>5, <2>4, <4>3, pc = (IF r = 0 THEN "exit" ELSE "check")
        <5>2. Owned(t)
          BY <1>1, <2>1 DEF Monitors
        <5> QED
          BY <1>2, <3>3, <4>3, <5>1, <5>2, OneOwner
      <4> QED
        BY <4>1, <4>2, <4>3
    <3>5. ASSUME NEW c \in User, LiveWorker(c)
          PROVE  /\ LiveWorker(c)' /\ th'[c].slot = th[c].slot /\ th'[c].pc = th[c].pc
                 /\ th'[c].tgt = th[c].tgt /\ th'[c].cmd = th[c].cmd
      BY ONLY <1>5, <1>7, <3>5 DEF WorkersKept
    <3> QED
      BY ONLY <1>6, <3>3, <3>4, <3>5 DEF Owned
  <2> QED
    BY ONLY <2>2, <2>3, <2>4 DEF Monitors
<1> QED
  BY <1>5, <1>8, <1>9 DEF SInv

\* monitor_report preserves the invariant.
LEMMA MonitorReportStep ==
  ASSUME SInv, NEW t \in User, monitor_report(t)
  PROVE  SInv'
<1>1. AtCall(t, "monitor", "report") /\ UNCHANGED <<g_procs, s_spawn_tid, s_spawn_active>>
  BY DEF monitor_report
<1>2. PICK s : s = th[t].arg
  OBVIOUS
<1>3. s \in Mon /\ g_mons[s] \in Monitor
  BY <1>1, <1>2 DEF AtCall, SInv, Monitors, Types
<1>4. CASE g_mons[s].remaining < 0
  <2>1. th' = [th EXCEPT ![t].pc = "check"] /\ UNCHANGED tables
    BY <1>2, <1>4 DEF monitor_report, tables
  <2> QED
    BY <1>1, <2>1, MonitorQuiet
<1>5. CASE ~ (g_mons[s].remaining < 0)
  <2>1. PICK r : r = g_mons[s].remaining - 1
    OBVIOUS
  <2>2. PICK used : used = IF r = 0 THEN 0 ELSE g_mons[s].used
    OBVIOUS
  <2>3. PICK pc : pc = IF r = 0 THEN "exit" ELSE "check"
    OBVIOUS
  <2>4. r \in Int /\ used \in {0, 1}
    BY <1>3, <2>1, <2>2 DEF Monitor
  <2>5. th' = [th EXCEPT ![t].pc = pc]
    BY <1>2, <1>5, <2>1, <2>3 DEF monitor_report
  <2>6. g_mons' = [g_mons EXCEPT ![s].remaining = r, ![s].used = used]
    BY <1>2, <1>3, <1>5, <2>1, <2>2 DEF monitor_report, SInv, Types, Monitor
  <2> QED
    BY <1>1, <1>2, <2>2, <2>3, <2>4, <2>5, <2>6, MonitorCounts, ZenonT(40)
<1> QED
  BY <1>4, <1>5

----------------------------------------------------------------------------
(* Kills.                                                                  *)

\* So does a step that changes nothing.
LEMMA Stutter ==
  ASSUME SInv, UNCHANGED shell_vars
  PROVE  SInv'
<1>1. UNCHANGED <<th, g_procs, s_spawn_tid, s_spawn_active, g_mons>>
  BY DEF shell_vars, tables
<1>2. Types /\ Fixed /\ Joins /\ Shells /\ Workers /\ ShellAt /\ Spawned /\ Number /\ Slots /\ WorkerAt /\ Monitors
  BY DEF SInv
<1>3. Kept /\ IdleKept /\ WorkersKept
  BY <1>1 DEF Kept, IdleKept, WorkersKept
<1>4. ShellsKept
  BY <1>1, <1>2 DEF ShellsKept, ShellAt
<1>5. Types'
  BY <1>1, <1>2 DEF Types
<1>6. Fixed' /\ Joins' /\ Shells' /\ Workers'
  BY <1>1, <1>2, <1>3, FrameFixed, FrameJoins, FrameShells, FrameWorkers
<1>7. ShellAt' /\ Spawned' /\ Number'
  BY <1>1, <1>2, <1>3, <1>4, FrameShellAt, FrameSpawned, FrameNumber
<1>8. Slots' /\ WorkerAt' /\ Monitors'
  BY <1>1, <1>2, <1>3, FrameSlots, FrameWorkerAt, FrameMonitors
<1> QED
  BY <1>5, <1>6, <1>7, <1>8 DEF SInv

\* Nobody waits for a thread that is neither a shell nor a worker.
LEMMA NoWaiter ==
  ASSUME SInv, NEW u \in User, th[u].prog \notin {"shell", "sh-cmd"}
  PROVE  th[u].join_waiter = NoTid
<1>1. u \in Tid /\ th[u] \in Thread
  BY Tids DEF SInv, Types
<1>2. th[u].join_waiter \in User \cup {NoTid}
  BY <1>1 DEF Thread
<1>3. th[u].join_waiter \notin User
  BY DEF SInv, Joins, LiveShell, LiveWorker
<1> QED
  BY <1>2, <1>3

\* The table with u dead.
Dead(T, u) ==
  /\ T \in [Tid -> Thread] /\ \A v \in Tid : v # u => T[v] = th[v]
  /\ T[u].state = "ZOMBIE" /\ T[u].join_waiter = th[u].join_waiter /\ T[u].prog = th[u].prog
  /\ T[u].arg = th[u].arg /\ T[u].pc = th[u].pc /\ T[u].tgt = th[u].tgt /\ T[u].slot = th[u].slot
  /\ T[u].cmd = th[u].cmd

\* A thread that dies and that nobody waits for only changes its state.
LEMMA ZombieTable ==
  ASSUME Types, NEW u \in User
  PROVE  Dead([th EXCEPT ![u].state = "ZOMBIE"], u)
<1>1. u \in Tid /\ th[u] \in Thread
  BY Tids DEF Types
<1>2. PICK r : r = [th[u] EXCEPT !.state = "ZOMBIE"]
  OBVIOUS
<1>3. PICK T : T = [th EXCEPT ![u].state = "ZOMBIE"]
  OBVIOUS
<1>4. r \in Thread
  BY <1>1, <1>2 DEF Thread
<1>5. T[u] = r /\ (\A v \in Tid : v # u => T[v] = th[v]) /\ T \in [Tid -> Thread]
  BY <1>1, <1>2, <1>3, <1>4 DEF Types
<1>6. /\ r.state = "ZOMBIE" /\ r.join_waiter = th[u].join_waiter /\ r.prog = th[u].prog /\ r.arg = th[u].arg
      /\ r.pc = th[u].pc /\ r.tgt = th[u].tgt /\ r.slot = th[u].slot /\ r.cmd = th[u].cmd
  BY <1>1, <1>2 DEF Thread
<1>7. Dead(T, u)
  BY <1>5, <1>6 DEF Dead
<1> QED
  BY <1>3, <1>7

\* A kill of user_main, of a spawned thread or of a monitor does just that.
LEMMA KillTable ==
  ASSUME SInv, NEW t \in User, NEW u \in User, t # u, th[u].prog \in Killable, th[u].state # "UNUSED"
  PROVE  kill_rc(th, t, u) = 0 /\ Dead(thread_kill(th, t, u), u)
<1>1. kill_rc(th, t, u) = 0
  BY Tids DEF kill_rc
<1>2. u \in Tid /\ th[u] \in Thread /\ th \in [Tid -> Thread]
  BY Tids DEF SInv, Types
<1>3. CASE th[u].state = "ZOMBIE"
  <2>1. thread_kill(th, t, u) = th
    BY <1>3 DEF thread_kill
  <2> QED
    BY <1>1, <1>2, <1>3, <2>1 DEF Dead
<1>4. CASE th[u].state # "ZOMBIE"
  <2>1. th[u].join_waiter = NoTid
    BY NoWaiter DEF Killable
  <2>2. thread_kill(th, t, u) = Ended(th, u)
    BY <1>1, <1>4 DEF thread_kill
  <2>3. Ended(th, u) = [th EXCEPT ![u].state = "ZOMBIE"]
    BY <2>1 DEF Ended
  <2> QED
    BY <1>1, <2>2, <2>3, ZombieTable DEF SInv
<1> QED
  BY <1>3, <1>4

\* Thread u dies and t goes on at pc.
LEMMA KillEffect ==
  ASSUME SInv, NEW t \in User, NEW u \in User, t # u, th[u].prog \in Killable, th[u].state # "UNUSED",
         NEW T, Dead(T, u), NEW pc \in Pcs, th' = [T EXCEPT ![t].pc = pc]
  PROVE  Local(t, pc, th[t].tgt, th[t].slot, th[t].cmd) /\ th'[u].state = "ZOMBIE"
<1>1. t \in Tid /\ u \in Tid /\ th[t] \in Thread /\ Idle \cap User = {} /\ Idle \subseteq Tid /\ User \subseteq Tid
  BY Tids DEF SInv, Types
<1>2. T \in [Tid -> Thread] /\ T[t] = th[t]
  BY <1>1 DEF Dead
<1>3. PICK r : r = [th[t] EXCEPT !.pc = pc]
  OBVIOUS
<1>4. r \in Thread
  BY <1>1, <1>3 DEF Thread
<1>5. th' \in [Tid -> Thread] /\ th'[t] = r /\ \A v \in Tid : v # t => th'[v] = T[v]
  BY <1>1, <1>2, <1>3, <1>4
<1>6. /\ r.state = th[t].state /\ r.join_waiter = th[t].join_waiter /\ r.prog = th[t].prog /\ r.arg = th[t].arg
      /\ r.pc = pc /\ r.tgt = th[t].tgt /\ r.slot = th[t].slot /\ r.cmd = th[t].cmd
  BY <1>1, <1>3 DEF Thread
<1>7. Kept /\ Others({t})
  <2>1. \A v \in User : v \notin {t, u} => th'[v] = th[v]
    BY ONLY <1>1, <1>5, Dead(T, u) DEF Dead
  <2>2. /\ th'[u].state = "ZOMBIE" /\ th'[u].join_waiter = th[u].join_waiter /\ th'[u].prog = th[u].prog
        /\ th'[u].arg = th[u].arg /\ th'[u].pc = th[u].pc /\ th'[u].tgt = th[u].tgt /\ th'[u].slot = th[u].slot
        /\ th'[u].cmd = th[u].cmd
    BY ONLY <1>1, <1>5, t # u, Dead(T, u) DEF Dead
  <2>3. Kept
    BY ONLY <1>5, <1>6, <2>1, <2>2, th[u].prog \in Killable, th[u].state # "UNUSED", t \in User, u \in User DEF Kept
  <2>4. Others({t})
    BY ONLY <2>1, <2>2, u \in User DEF Others
  <2> QED
    BY <2>3, <2>4
<1>8. IdleKept
  BY ONLY <1>1, <1>5, Dead(T, u), t \in User, u \in User DEF IdleKept, Dead
<1>9. th'[u].state = "ZOMBIE"
  BY ONLY <1>1, <1>5, t # u, Dead(T, u) DEF Dead
<1> QED
  BY ONLY <1>5, <1>6, <1>7, <1>8, <1>9 DEF Local, Registers

\* The command kill, given another thread than the shell.
LEMMA CmdKillOther ==
  ASSUME SInv, NEW t \in User, AtCall(t, "shell", "prompt"), UNCHANGED tables, NEW u \in User, u # t,
         th' = thread_kill(th, t, u)
  PROVE  SInv'
<1>1. UNCHANGED <<g_procs, s_spawn_tid, s_spawn_active, g_mons>>
  BY DEF tables
<1>2. CASE th[u].prog \in Killable
  <2>1. th[u].state # "UNUSED"
    BY <1>2 DEF SInv, Fixed, Killable
  <2>2. PICK T : T = thread_kill(th, t, u)
    OBVIOUS
  <2>3. Dead(T, u)
    BY <1>2, <2>1, <2>2, KillTable
  <2>4. t \in Tid /\ th[t].pc = "prompt" /\ th[t] \in Thread /\ th[t].slot \in Int
    BY ShellAlone DEF Thread
  <2>5. th' = [T EXCEPT ![t].pc = "prompt"]
    <3>1. T \in [Tid -> Thread] /\ T[t] = th[t]
      BY ONLY <2>3, <2>4, u # t DEF Dead
    <3>2. [th[t] EXCEPT !.pc = "prompt"] = th[t]
      BY ONLY <2>4 DEF Thread
    <3> QED
      BY ONLY <2>2, <2>4, <3>1, <3>2, th' = thread_kill(th, t, u)
  <2>6. Local(t, "prompt", th[t].tgt, th[t].slot, th[t].cmd)
    BY ONLY SInv, t \in User, u \in User, u # t, <1>2, <2>1, <2>3, <2>5, KillEffect DEF Pcs
  <2>7. Kept
    BY ONLY <2>6 DEF Local
  <2>8. Entries' /\ Listed' /\ Slots'
    BY <1>1, <2>7, TablesKept, ProcsKept
  <2>9. Number'
    <3>1. \A v \in User : th[v].pc \notin Killing
      BY ShellAlone DEF ShellPcs, Killing
    <3> QED
      BY <1>1, <3>1 DEF SInv, Number, Used
  <2>10. Locals("prompt", th[t].slot) /\ "prompt" \in Pcs \ {"join"}
    BY DEF Locals, Killing, Pcs
  <2>11. g_procs' \in [Proc -> Cmd] /\ s_spawn_tid' \in [Wid -> User \cup {NoTid}] /\ s_spawn_active' \in Int
    BY <1>1 DEF SInv, Types
  <2> QED
    BY ONLY SInv, t \in User, AtCall(t, "shell", "prompt"), <1>1, <2>4, <2>6, <2>8, <2>9, <2>10, <2>11, ShellMoves DEF Killing
<1>3. CASE th[u].prog \notin Killable
  <2>1. ~ LiveShell(u) /\ ~ LiveWorker(u)
    BY ShellAlone
  <2>2. th[u].prog \in {"none", "shell", "sh-cmd"} /\ th[u].state \in {"UNUSED", "READY", "WAITING", "ZOMBIE"}
    <3>1. u \in Tid /\ th[u] \in Thread
      BY Tids DEF SInv, Types
    <3> QED
      BY <1>3, <3>1 DEF SInv, Fixed, Thread, Programs, Killable
  <2>3. th[u].state = "UNUSED" \/ th[u].state = "ZOMBIE"
    BY <2>1, <2>2 DEF LiveShell, LiveWorker, SInv, Fixed
  <2>4. thread_kill(th, t, u) = th
    <3>1. CASE th[u].state = "UNUSED"
      <4>1. kill_rc(th, t, u) = -3
        BY <3>1 DEF kill_rc
      <4> QED
        BY <4>1 DEF thread_kill
    <3>2. CASE th[u].state = "ZOMBIE"
      BY <3>2 DEF thread_kill
    <3> QED
      BY <2>3, <3>1, <3>2
  <2> QED
    BY <2>4, Stutter DEF shell_vars
<1> QED
  BY <1>2, <1>3

\* The thread of an entry of s_spawn_cfg.
LEMMA SpawnEntry ==
  ASSUME SInv, NEW w \in Wid, NEW u \in User, s_spawn_tid[w] = u, \A v \in User : th[v].pc # "spawn clear"
  PROVE  th[u].prog = "spawn" /\ th[u].arg = w
BY DEF SInv, Spawned, Entries

\* spawn_kill_next preserves the invariant, and it goes back to the prompt
\* only with an empty table.
LEMMA SpawnKillNextStep ==
  ASSUME SInv, NEW t \in User, spawn_kill_next(t)
  PROVE  /\ SInv'
         /\ th'[t].pc = "prompt" => \A w \in Wid : s_spawn_tid'[w] = NoTid
<1>1. AtCall(t, "shell", "spawn kill") /\ UNCHANGED <<g_procs, s_spawn_tid, g_mons>>
  BY DEF spawn_kill_next
<1>2. t \in Tid /\ th[t].pc = "spawn kill" /\ th[t] \in Thread /\ th[t].prog = "shell"
  BY <1>1, ShellAlone
<1>3. CASE th[t].slot = SPAWN_MAX
  <2>1. th' = [th EXCEPT ![t].pc = "prompt", ![t].slot = NoTid] /\ s_spawn_active' = 0
    BY <1>3 DEF spawn_kill_next
  <2> QED
    BY <1>1, <1>3, <2>1, SpawnKillEnds
<1>4. CASE th[t].slot # SPAWN_MAX /\ s_spawn_tid[th[t].slot] = NoTid
  <2>1. th' = [th EXCEPT ![t].slot = th[t].slot + 1] /\ UNCHANGED tables
    BY <1>1, <1>4 DEF spawn_kill_next, tables
  <2>2. SInv'
    BY <1>1, <1>4, <2>1, SpawnKillSkips
  <2>3. th'[t].pc = "spawn kill"
    BY <1>2, <2>1 DEF SInv, Types, Thread
  <2> QED
    BY <2>2, <2>3
<1>5. CASE th[t].slot # SPAWN_MAX /\ s_spawn_tid[th[t].slot] # NoTid
  <2>1. PICK u : u = s_spawn_tid[th[t].slot]
    OBVIOUS
  <2>2. th[t].slot \in Wid
    BY <1>1, <1>5, KillingFacts DEF Killing
  <2>3. u \in User
    BY <1>5, <2>1, <2>2 DEF SInv, Types
  <2>4. th[u].prog = "spawn"
    <3>1. \A v \in User : th[v].pc # "spawn clear"
      BY <1>1, ShellAlone DEF ShellPcs, Killing
    <3> QED
      BY <2>1, <2>2, <2>3, <3>1, SpawnEntry
  <2>5. u # t /\ th[u].prog \in Killable /\ th[u].state # "UNUSED"
    BY <1>2, <2>3, <2>4 DEF SInv, Fixed, Killable
  <2>6. kill_rc(th, t, u) = 0 /\ Dead(thread_kill(th, t, u), u)
    BY <2>3, <2>5, KillTable
  <2>7. PICK T : T = thread_kill(th, t, u)
    OBVIOUS
  <2>8. th' = [T EXCEPT ![t].pc = "spawn join"] /\ UNCHANGED s_spawn_active
    <3>1. /\ th' = [thread_kill(th, t, s_spawn_tid[th[t].slot]) EXCEPT
                       ![t].pc = IF kill_rc(th, t, s_spawn_tid[th[t].slot]) < 0 THEN "spawn clear" ELSE "spawn join"]
          /\ UNCHANGED s_spawn_active
      BY <1>5 DEF spawn_kill_next
    <3>2. ~ (kill_rc(th, t, u) < 0)
      BY ONLY <2>6
    <3> QED
      BY ONLY <2>1, <2>7, <3>1, <3>2
  <2>9. Dead(T, u)
    BY <2>6, <2>7
  <2>10. Local(t, "spawn join", th[t].tgt, th[t].slot, th[t].cmd) /\ th'[u].state = "ZOMBIE"
    BY ONLY SInv, t \in User, <2>3, <2>5, <2>8, <2>9, KillEffect DEF Pcs
  <2>11. UNCHANGED tables
    BY <1>1, <2>8 DEF tables
  <2>12. SInv'
    BY ONLY SInv, t \in User, <1>1, <1>5, <2>1, <2>3, <2>4, <2>10, <2>11, SpawnKillKills
  <2>13. th'[t].pc = "spawn join"
    BY ONLY <2>10 DEF Local, Registers
  <2> QED
    BY <2>12, <2>13
<1> QED
  BY <1>3, <1>4, <1>5

\* mon_stop_kill preserves the invariant: the thread it kills is a monitor.
LEMMA MonStopKillStep ==
  ASSUME SInv, NEW t \in User, mon_stop_kill(t)
  PROVE  SInv'
<1>1. AtCall(t, "sh-cmd", "mon kill") /\ UNCHANGED tables
  BY DEF mon_stop_kill
<1>2. PICK u \in User : th[t].cmd.tid = u /\ th[u].prog = "monitor"
  BY <1>1, StopFacts
<1>3. u # t /\ th[u].prog \in Killable /\ th[u].state # "UNUSED"
  BY <1>1, <1>2 DEF SInv, Fixed, Killable, AtCall
<1>4. kill_rc(th, t, u) = 0 /\ Dead(thread_kill(th, t, u), u)
  BY <1>3, KillTable
<1>5. PICK T : T = thread_kill(th, t, u)
  OBVIOUS
<1>6. th' = [T EXCEPT ![t].pc = "mon join"]
  BY <1>2, <1>4, <1>5 DEF mon_stop_kill
<1>7. Dead(T, u)
  BY <1>4, <1>5
<1>8. Local(t, "mon join", th[t].tgt, th[t].slot, th[t].cmd) /\ th'[u].state = "ZOMBIE"
  BY ONLY SInv, t \in User, u \in User, <1>3, <1>6, <1>7, KillEffect DEF Pcs
<1> QED
  BY ONLY SInv, t \in User, u \in User, <1>1, <1>2, <1>8, MonStopKills

\* A monitor has left its loop.
LEMMA MonitorExits ==
  ASSUME SInv, NEW t \in User, AtCall(t, "monitor", "exit"), th' = Ended(th, t), UNCHANGED tables
  PROVE  SInv'
<1>1. th[t].prog = "monitor" /\ th[t].state = "READY" /\ th[t].pc = "exit"
  BY DEF AtCall
<1>2. UNCHANGED <<g_procs, s_spawn_tid, s_spawn_active, g_mons>>
  BY DEF tables
<1>3. th' = [th EXCEPT ![t].state = "ZOMBIE"]
  BY <1>1, NoWaiter DEF Ended
<1>4. Dead(th', t)
  BY <1>3, ZombieTable DEF SInv
<1>5. Idle \cap User = {} /\ Tid = Idle \cup User
  BY Tids
<1>6. Kept /\ IdleKept /\ Others({t}) /\ th' \in [Tid -> Thread] /\ th'[t].pc = "exit"
  BY ONLY <1>1, <1>4, <1>5, t \in User DEF Dead, Kept, Killable, IdleKept, Others
<1>7. Local(t, "exit", th[t].tgt, th[t].slot, th[t].cmd)
  BY ONLY <1>1, <1>4, <1>6 DEF Local, Registers, Dead
<1>8. Fixed' /\ Joins' /\ Shells' /\ Workers' /\ ShellAt' /\ Spawned' /\ Number'
  BY <1>1, <1>2, <1>7, OtherLocal DEF Killing
<1>9. WorkersKept
  BY ONLY <1>1, <1>6 DEF WorkersKept, Others
<1>10. Slots'
  <2>1. \A v \in User : LiveShell(v) /\ th[v].pc = "create" => th'[v].pc = "create" /\ th'[v].slot = th[v].slot
    BY ONLY <1>1, <1>6 DEF LiveShell, Others
  <2>2. \A v \in User : LiveWorker(v) /\ th[v].pc = "copy" => th'[v].pc = "copy"
    BY ONLY <1>1, <1>6 DEF LiveWorker, Others
  <2> QED
    BY <1>2, <1>6, <2>1, <2>2, FrameSlots DEF SInv
<1>11. \A v \in User : th[v].prog = "monitor" /\ th'[v].pc # "exit" => th[v].pc # "exit"
  BY ONLY <1>6 DEF Others
<1>12. WorkerAt' /\ Monitors'
  BY <1>2, <1>6, <1>9, <1>11, FrameWorkerAt, FrameMonitors DEF SInv
<1>13. Types'
  BY <1>2, <1>6 DEF SInv, Types
<1> QED
  BY <1>8, <1>10, <1>12, <1>13 DEF SInv

----------------------------------------------------------------------------
(* Steps that create a thread.                                             *)

\* Thread t creates n: nobody else changes.
Grown(n, t) ==
  /\ n \in User /\ n # t /\ n # M /\ th[n].prog = "none" /\ th[n].state = "UNUSED"
  /\ th'[n].state = "READY" /\ th'[n].join_waiter = NoTid
  /\ th'[n].prog \in {"shell", "sh-cmd", "spawn", "monitor"}
  /\ \A v \in User : v # n =>
       /\ th'[v].state = th[v].state /\ th'[v].join_waiter = th[v].join_waiter
       /\ th'[v].prog = th[v].prog /\ th'[v].arg = th[v].arg
  /\ \A v \in User : v \notin {n, t} => /\ th'[v].pc = th[v].pc /\ th'[v].tgt = th[v].tgt
                                        /\ th'[v].slot = th[v].slot /\ th'[v].cmd = th[v].cmd
  /\ IdleKept /\ th' \in [Tid -> Thread]

\* The record of a new thread.
NewRecord(r, prog, arg, pc, cmd) ==
  /\ r \in Thread /\ r.state = "READY" /\ r.join_waiter = NoTid /\ r.prog = prog /\ r.arg = arg /\ r.pc = pc
  /\ r.tgt = NoTid /\ r.slot = NoTid /\ r.cmd = cmd

\* The record of a new thread.
LEMMA NewRecordOf ==
  ASSUME NEW prog \in Programs, NEW arg \in Int, NEW pc \in Pcs
  PROVE  NewRecord([Unused EXCEPT !.state = "READY", !.prog = prog, !.arg = arg, !.pc = pc], prog, arg, pc, NoCmd)
<1>1. NoCmd \in Cmd /\ NoTid \in Int
  BY NoCmdIsCmd, Tids
<1>2. PICK c \in Cmd : c = NoCmd
  BY <1>1
<1>3. PICK r : r = [Unused EXCEPT !.state = "READY", !.prog = prog, !.arg = arg, !.pc = pc]
  OBVIOUS
<1>4. r = [state |-> "READY", join_waiter |-> NoTid, prog |-> prog, arg |-> arg, pc |-> pc, tgt |-> NoTid,
           slot |-> NoTid, cmd |-> c]
  BY <1>2, <1>3 DEF Unused
<1>5. r \in Thread
  BY <1>1, <1>4 DEF Thread
<1>6. NewRecord(r, prog, arg, pc, c)
  BY <1>4, <1>5 DEF NewRecord
<1> QED
  BY <1>2, <1>3, <1>6

\* t goes on with other registers.
Moved(r, t, pc, tgt, slot) ==
  /\ r \in Thread /\ r.state = th[t].state /\ r.join_waiter = th[t].join_waiter /\ r.prog = th[t].prog
  /\ r.arg = th[t].arg /\ r.pc = pc /\ r.tgt = tgt /\ r.slot = slot /\ r.cmd = th[t].cmd

\* The record of the thread that creates it.
LEMMA MovedOf ==
  ASSUME NEW t \in User, th[t] \in Thread, NEW pc \in Pcs, NEW tgt \in User \cup {NoTid}, NEW slot \in Int
  PROVE  Moved([th[t] EXCEPT !.pc = pc, !.tgt = tgt, !.slot = slot], t, pc, tgt, slot)
BY DEF Moved, Thread

Newborn(r) == /\ r \in Thread /\ r.state = "READY" /\ r.join_waiter = NoTid
              /\ r.prog \in {"shell", "sh-cmd", "spawn", "monitor"}
Same(s, t) == /\ s \in Thread /\ s.state = th[t].state /\ s.join_waiter = th[t].join_waiter /\ s.prog = th[t].prog
              /\ s.arg = th[t].arg

\* A step that creates a thread does no more.
LEMMA GrownEffect ==
  ASSUME SInv, NEW t \in User, th[t].state # "UNUSED", Free(th) # {}, NEW n, n = New(th),
         NEW r, Newborn(r), NEW s, Same(s, t), th' = [th EXCEPT ![n] = r, ![t] = s]
  PROVE  Grown(n, t) /\ th'[n] = r /\ th'[t] = s
<1>1. n \in User /\ th[n].state = "UNUSED" /\ n # t
  BY NewIsFree DEF SInv
<1>2. th[n].prog = "none" /\ n # M
  BY <1>1, Tids DEF SInv, Fixed
<1>3. n \in Tid /\ t \in Tid /\ n \notin Idle /\ t \notin Idle /\ Idle \subseteq Tid /\ User \subseteq Tid
  BY <1>1, Tids
<1>4. r \in Thread /\ s \in Thread
  BY DEF Newborn, Same
<1>5. /\ th' \in [Tid -> Thread] /\ th'[n] = r /\ th'[t] = s
      /\ \A v \in Tid : v \notin {n, t} => th'[v] = th[v]
  BY <1>1, <1>3, <1>4 DEF SInv, Types
<1>6. IdleKept
  BY ONLY <1>3, <1>5 DEF IdleKept
<1>7. \A v \in User : v # n => /\ th'[v].state = th[v].state /\ th'[v].join_waiter = th[v].join_waiter
                              /\ th'[v].prog = th[v].prog /\ th'[v].arg = th[v].arg
  BY ONLY <1>3, <1>5, Same(s, t) DEF Same
<1>8. th'[n].state = "READY" /\ th'[n].join_waiter = NoTid /\ th'[n].prog \in {"shell", "sh-cmd", "spawn", "monitor"}
  BY ONLY <1>5, Newborn(r) DEF Newborn
<1>9. \A v \in User : v \notin {n, t} => /\ th'[v].pc = th[v].pc /\ th'[v].tgt = th[v].tgt
                                        /\ th'[v].slot = th[v].slot /\ th'[v].cmd = th[v].cmd
  BY ONLY <1>3, <1>5
<1> QED
  BY ONLY <1>1, <1>2, <1>5, <1>6, <1>7, <1>8, <1>9 DEF Grown

\* What such steps leave alone, for each part of the invariant.
LEMMA GrownFixed ==
  ASSUME Fixed, NEW n, NEW t, Grown(n, t), th'[M].pc \in {"start", "join"}
  PROVE  Fixed'
BY Tids DEF Fixed, Grown, IdleKept

LEMMA GrownJoins ==
  ASSUME Joins, Fixed, NEW n, NEW t, Grown(n, t), th'[M].pc = th[M].pc \/ th[M].state = "READY"
  PROVE  Joins'
<1> SUFFICES ASSUME NEW v \in User, NEW w \in User, th'[v].join_waiter = w
             PROVE  \/ LiveShell(v)' /\ w = M /\ th'[M].state \in {"WAITING", "ZOMBIE"} /\ th'[M].pc = "start"
                    \/ LiveWorker(v)' /\ th'[w].prog = "shell" /\ th'[w].state = "WAITING"
  BY DEF Joins
<1>1. v # n /\ th[v].join_waiter = w
  BY Tids DEF Grown
<1>2. (LiveShell(v)' <=> LiveShell(v)) /\ (LiveWorker(v)' <=> LiveWorker(v))
  BY <1>1 DEF LiveShell, LiveWorker, Grown
<1>3. \/ LiveShell(v) /\ w = M /\ th[M].state \in {"WAITING", "ZOMBIE"} /\ th[M].pc = "start"
      \/ LiveWorker(v) /\ th[w].prog = "shell" /\ th[w].state = "WAITING"
  BY <1>1 DEF Joins
<1>4. th[w].prog = "shell" => w # n
  BY DEF Grown
<1> QED
  BY <1>2, <1>3, <1>4, Tids DEF Grown

LEMMA GrownShells ==
  ASSUME Shells, NEW n, NEW t, t # M, Grown(n, t), th'[n].prog # "shell"
  PROVE  Shells'
<1>1. \A v \in User : (LiveShell(v)' <=> LiveShell(v)) /\ (LiveShell(v) => v # n)
  BY DEF LiveShell, Grown
<1>2. th'[M].pc = th[M].pc /\ th'[M].tgt = th[M].tgt
  BY Tids DEF Grown
<1>3. ASSUME th[M].pc = "join"
      PROVE  \E s \in User : th'[M].tgt = s /\ th'[s].prog = "shell" /\ th'[s].join_waiter = NoTid
  <2>1. PICK s \in User : th[M].tgt = s /\ th[s].prog = "shell" /\ th[s].join_waiter = NoTid
    BY <1>3 DEF Shells
  <2> QED
    BY <1>2, <2>1 DEF Grown
<1>4. \A v \in User : v # n => th'[v].join_waiter = th[v].join_waiter
  BY DEF Grown
<1> QED
  BY <1>1, <1>2, <1>3, <1>4 DEF Shells

LEMMA GrownWorkers ==
  ASSUME Workers, NEW n, NEW t, Grown(n, t), th'[n].prog # "sh-cmd", th'[n].pc # "join",
         t \in User /\ th[t].prog = "shell" => th[t].pc # "join" /\ th'[t].pc # "join"
  PROVE  Workers'
<1>1. \A v \in User : LiveWorker(v)' <=> LiveWorker(v)
  BY DEF LiveWorker, Grown
<1>2. \A v \in User : (LiveWorker(v) => v # n) /\ (LiveShell(v) => LiveShell(v)' /\ v # n)
  BY DEF LiveShell, LiveWorker, Grown
<1>3. ASSUME NEW w \in User, LiveWorker(w)
      PROVE \E s \in User : /\ LiveShell(s)'
                            /\ (th'[s].pc = "join" /\ th'[s].tgt = w) \/ th'[w].join_waiter = s
  <2>1. PICK s \in User : /\ LiveShell(s)
                          /\ (th[s].pc = "join" /\ th[s].tgt = w) \/ th[w].join_waiter = s
    BY <1>3 DEF Workers
  <2>2. LiveShell(s)' /\ th[s].prog = "shell" /\ th'[w].join_waiter = th[w].join_waiter /\ s # n
    BY <1>2, <1>3, <2>1 DEF LiveShell, Grown
  <2>3. th[s].pc = "join" => th'[s].pc = "join" /\ th'[s].tgt = th[s].tgt
    BY <2>2 DEF Grown
  <2> QED BY <2>1, <2>2, <2>3
<1>4. ASSUME NEW s \in User, th'[s].prog = "shell", th'[s].pc = "join"
      PROVE  \E w \in User : th'[s].tgt = w /\ th'[w].prog = "sh-cmd" /\ th'[w].join_waiter = NoTid
  <2>1. s # n /\ th[s].prog = "shell"
    BY <1>4 DEF Grown
  <2>2. th[s].pc = "join" /\ th'[s].tgt = th[s].tgt
    BY <1>4, <2>1 DEF Grown
  <2>3. PICK w \in User : th[s].tgt = w /\ th[w].prog = "sh-cmd" /\ th[w].join_waiter = NoTid
    BY <2>1, <2>2 DEF Workers
  <2> QED
    BY <2>2, <2>3 DEF Grown
<1> QED
  BY <1>1, <1>3, <1>4 DEF Workers

LEMMA GrownShellAt ==
  ASSUME ShellAt, NEW n, NEW t \in User, Grown(n, t), th'[n].pc \notin ShellPcs, th'[n].prog = "shell" => th'[n].pc = "prompt",
         IF th[t].prog = "shell" THEN th[t].state = "READY" /\ Locals(th'[t].pc, th'[t].slot)
         ELSE th'[t].pc \notin ShellPcs
  PROVE  ShellAt'
<1>1. Locals("prompt", th'[n].slot)
  BY DEF Locals, Killing
<1>2. ASSUME NEW v \in User
      PROVE  /\ th'[v].pc \in Killing \cup {"spawn", "create"} => th'[v].prog = "shell"
             /\ th'[v].prog = "shell" /\ th'[v].pc # "prompt" => th'[v].state = "READY"
             /\ th'[v].prog = "shell" => Locals(th'[v].pc, th'[v].slot)
  <2>1. CASE v = n
    BY <1>1, <2>1 DEF ShellPcs
  <2>2. CASE v = t
    BY <2>2 DEF Grown, ShellPcs
  <2>3. CASE v \notin {n, t}
    BY <2>3 DEF Grown, ShellAt
  <2> QED
    BY <2>1, <2>2, <2>3
<1> QED
  BY <1>2 DEF ShellAt

\* Outside spawn kill only the entries and the spawned threads matter.
LEMMA QuietSpawned ==
  ASSUME Entries', Listed', \A v \in User : th'[v].pc \notin Killing
  PROVE  Spawned'
BY DEF Spawned, Cleared, Killed, Reclaimed, Killing

LEMMA GrownTables ==
  ASSUME Spawned, NEW n, NEW t, Grown(n, t), th'[n].prog # "spawn", \A v \in User : th[v].pc # "spawn clear",
         UNCHANGED s_spawn_tid
  PROVE  Entries' /\ Listed'
<1>1. Listed'
  <2> SUFFICES ASSUME NEW u \in User, th'[u].prog = "spawn"
               PROVE  th'[u].arg \in Wid /\ s_spawn_tid'[th'[u].arg] = u
    BY DEF Listed
  <2>1. th[u].prog = "spawn" /\ th'[u].arg = th[u].arg
    BY DEF Grown
  <2> QED
    BY <2>1 DEF Spawned, Listed
<1>2. ASSUME NEW w \in Wid, NEW u \in User, s_spawn_tid'[w] = u
      PROVE  th'[u].prog = "spawn" /\ th'[u].arg = w
  <2>1. s_spawn_tid[w] = u
    BY <1>2
  <2>2. th[u].prog = "spawn" /\ th[u].arg = w
    BY <2>1 DEF Spawned, Entries
  <2> QED
    BY <2>2 DEF Grown
<1> QED
  BY <1>1, <1>2 DEF Entries

\* Outside spawn kill the count stays right with the table.
LEMMA QuietNumber ==
  ASSUME Number, \A v \in User : th[v].pc \notin Killing, UNCHANGED <<s_spawn_tid, s_spawn_active>>
  PROVE  Number'
BY DEF Number, Used

LEMMA GrownMonitors ==
  ASSUME Monitors, NEW n, NEW t \in User, Grown(n, t), UNCHANGED g_mons, th'[n].prog # "monitor", th[t].prog # "monitor",
         \A c \in User : ~ LiveWorker(c)
  PROVE  Monitors'
<1>1. \A v \in User : Owned(v) => g_mons[th[v].arg].used = 1 /\ g_mons[th[v].arg].tid = v
  BY DEF Owned
<1>2. \A v \in User : th'[v].prog = "monitor" =>
         /\ v # n /\ th[v].prog = "monitor" /\ th'[v].arg = th[v].arg /\ th'[v].pc = th[v].pc /\ th'[v].state = th[v].state
  BY DEF Grown
<1>3. ASSUME NEW v \in User, th'[v].prog = "monitor", th'[v].state \in {"READY", "WAITING"}, th'[v].pc # "exit"
      PROVE  Owned(v)'
  <2>1. g_mons[th[v].arg].used = 1 /\ g_mons[th[v].arg].tid = v /\ th'[v].arg = th[v].arg
    BY <1>1, <1>2, <1>3 DEF Monitors
  <2> QED
    BY <2>1 DEF Owned
<1>4. \A m \in Mon, u \in User : g_mons'[m].used = 1 /\ g_mons'[m].tid = u => th'[u].prog = "monitor" /\ th'[u].arg = m
  <2> SUFFICES ASSUME NEW m \in Mon, NEW u \in User, g_mons'[m].used = 1, g_mons'[m].tid = u
               PROVE  th'[u].prog = "monitor" /\ th'[u].arg = m
    OBVIOUS
  <2>1. th[u].prog = "monitor" /\ th[u].arg = m
    BY DEF Monitors
  <2> QED
    BY <2>1 DEF Grown
<1>5. \A v \in User : th'[v].prog = "monitor" => th'[v].arg \in Mon
  BY <1>2 DEF Monitors
<1> QED
  BY <1>3, <1>4, <1>5 DEF Monitors

\* user_main starts a shell only when there is none, and so no worker.
LEMMA MainAlone ==
  ASSUME SInv, NEW t \in User, AtCall(t, "user_main", "start")
  PROVE  /\ t = M /\ th[t].state = "READY" /\ th[t].prog = "user_main" /\ th[t].pc = "start"
         /\ \A v \in User : ~ LiveShell(v) /\ ~ LiveWorker(v) /\ th[v].pc \notin ShellPcs
         /\ \A v \in User : th[v].join_waiter # M
         /\ \A p \in Proc : g_procs[p] = NoCmd
<1>1. t = M /\ th[t].state = "READY" /\ th[t].prog = "user_main" /\ th[t].pc = "start"
  BY DEF AtCall, SInv, Fixed
<1>2. \A v \in User : th[v].join_waiter # M
  BY <1>1 DEF SInv, Joins
<1>3. \A v \in User : ~ LiveShell(v)
  BY <1>1, <1>2 DEF SInv, Shells
<1>4. \A v \in User : ~ LiveWorker(v)
  BY <1>3 DEF SInv, Workers
<1>5. \A v \in User : th[v].pc \notin ShellPcs
  BY <1>3 DEF SInv, ShellAt, ShellPcs, LiveShell, Killing
<1>6. \A p \in Proc : g_procs[p] = NoCmd
  BY <1>3, <1>4 DEF SInv, Slots, InUse
<1> QED
  BY <1>1, <1>2, <1>3, <1>4, <1>5, <1>6

\* main_start preserves the invariant: there was no shell.
LEMMA MainStartStep ==
  ASSUME SInv, NEW t \in User, main_start(t)
  PROVE  SInv'
<1>1. AtCall(t, "user_main", "start") /\ Free(th) # {} /\ UNCHANGED <<g_procs, s_spawn_tid, s_spawn_active, g_mons>>
  BY DEF main_start, tables
<1>2. /\ t = M /\ th[t].state = "READY" /\ th[t].prog = "user_main" /\ th[t].pc = "start"
      /\ \A v \in User : ~ LiveShell(v) /\ ~ LiveWorker(v) /\ th[v].pc \notin ShellPcs
      /\ \A v \in User : th[v].join_waiter # M
      /\ \A p \in Proc : g_procs[p] = NoCmd
  BY <1>1, MainAlone
<1>3. PICK n : n = New(th)
  OBVIOUS
<1>4. n \in User /\ n # t
  BY <1>1, <1>2, <1>3, NewIsFree DEF SInv
<1>5. PICK r : r = [Unused EXCEPT !.state = "READY", !.prog = "shell", !.arg = NoTid, !.pc = "prompt"]
  OBVIOUS
<1>6. NewRecord(r, "shell", NoTid, "prompt", NoCmd)
  BY <1>5, Tids, NewRecordOf DEF Programs, Pcs
<1>7. t \in Tid /\ n \in Tid /\ th[t] \in Thread /\ th \in [Tid -> Thread]
  BY <1>4, Tids DEF SInv, Types
<1>8. PICK s : s = [th[t] EXCEPT !.pc = "join", !.tgt = n, !.slot = th[t].slot]
  OBVIOUS
<1>9. Moved(s, t, "join", n, th[t].slot)
  <2>1. th[t].slot \in Int /\ "join" \in Pcs
    BY <1>7 DEF Thread, Pcs
  <2> QED
    BY <1>4, <1>7, <1>8, <2>1, MovedOf
<1>10. th' = [th EXCEPT ![n] = r, ![t] = s]
  <2>1. th' = [[th EXCEPT ![n] = r] EXCEPT ![t].pc = "join", ![t].tgt = n]
    BY <1>3, <1>5 DEF main_start, thread_create
  <2>2. s = [th[t] EXCEPT !.pc = "join", !.tgt = n]
    BY <1>7, <1>8 DEF Thread
  <2> QED
    BY ONLY <1>4, <1>7, <2>1, <2>2
<1>11. Grown(n, t) /\ th'[n] = r /\ th'[t] = s
  <2>1. th[t].state # "UNUSED"
    BY ONLY <1>2
  <2>2. Newborn(r) /\ Same(s, t)
    BY ONLY <1>6, <1>9 DEF NewRecord, Moved, Newborn, Same
  <2> QED
    BY ONLY SInv, t \in User, <1>1, <1>3, <1>10, <2>1, <2>2, GrownEffect
<1>12. th'[n].prog = "shell" /\ th'[n].pc = "prompt" /\ th'[t].pc = "join" /\ th'[t].tgt = n
  BY ONLY <1>6, <1>9, <1>11 DEF NewRecord, Moved
<1>13. Fixed' /\ Joins'
  BY ONLY SInv, <1>2, <1>11, <1>12, GrownFixed, GrownJoins DEF SInv
<1>14. \A v \in User : (LiveShell(v)' => v = n) /\ ~ LiveWorker(v)'
  BY ONLY <1>2, <1>11, <1>12 DEF LiveShell, LiveWorker, Grown
<1>15. Shells'
  <2>1. th'[M].pc = "join" /\ th'[M].tgt = n /\ th'[n].join_waiter = NoTid /\ n \in User
    BY ONLY <1>2, <1>11, <1>12 DEF Grown
  <2> QED
    BY ONLY <1>12, <1>14, <2>1 DEF Shells
<1>16. Workers'
  <2>1. ASSUME NEW v \in User, th'[v].prog = "shell", th'[v].pc = "join"
        PROVE \E w \in User : th'[v].tgt = w /\ th'[w].prog = "sh-cmd" /\ th'[w].join_waiter = NoTid
    <3>1. v # n /\ v # t /\ th[v].prog = "shell" /\ th[v].pc = "join"
      BY ONLY t \in User, <1>2, <1>11, <1>12, <2>1 DEF Grown
    <3>2. th[v].state = "READY"
      BY <3>1 DEF SInv, ShellAt
    <3> QED
      BY <1>2, <3>1, <3>2 DEF LiveShell
  <2> QED
    BY ONLY <1>14, <2>1 DEF Workers
<1>17. "join" \notin ShellPcs /\ "prompt" \notin ShellPcs /\ "join" \notin Killing /\ "prompt" \notin Killing
  BY DEF ShellPcs, Killing
<1>18. ShellAt'
  BY ONLY SInv, t \in User, <1>2, <1>11, <1>12, <1>17, GrownShellAt DEF SInv
<1>19. /\ \A v \in User : th[v].pc \notin Killing /\ th[v].pc # "spawn clear"
       /\ \A v \in User : th'[v].pc \notin Killing
  <2>1. \A v \in User : th[v].pc \notin Killing /\ th[v].pc # "spawn clear"
    BY <1>2 DEF ShellPcs, Killing
  <2> QED
    BY ONLY <2>1, <1>11, <1>12, <1>17 DEF Grown
<1>20. Spawned' /\ Number'
  BY ONLY SInv, <1>1, <1>11, <1>12, <1>19, GrownTables, QuietSpawned, QuietNumber DEF SInv
<1>21. Slots' /\ WorkerAt'
  BY ONLY <1>1, <1>2, <1>14, NoCommands DEF WorkerAt
<1>22. Monitors'
  BY ONLY SInv, t \in User, <1>1, <1>2, <1>11, <1>12, GrownMonitors DEF SInv
<1>23. Types'
  BY ONLY SInv, <1>1, <1>11 DEF SInv, Types, Grown
<1> QED
  BY ONLY <1>13, <1>15, <1>16, <1>18, <1>20, <1>21, <1>22, <1>23 DEF SInv

\* The loop of spawn starts a worker.
LEMMA SpawnAddCreates ==
  ASSUME SInv, NEW t \in User, AtCall(t, "shell", "spawn"), Free(th) # {}, NEW n, n = New(th),
         NEW w \in Wid, s_spawn_tid[w] = NoTid, UNCHANGED <<g_procs, g_mons>>,
         s_spawn_tid' = [s_spawn_tid EXCEPT ![w] = n], s_spawn_active' = s_spawn_active + 1,
         NEW pc2 \in {"prompt", "spawn"}, NEW slot2 \in Int, Locals(pc2, slot2),
         th' = [thread_create(th, "spawn", w, "work") EXCEPT ![t].pc = pc2, ![t].slot = slot2]
  PROVE  SInv'
<1>2. /\ t # M /\ th[t].state = "READY" /\ th[t].prog = "shell" /\ th[t].pc = "spawn"
      /\ \A v \in User : ~ LiveWorker(v)
      /\ \A v \in User : v # t => th[v].pc \notin ShellPcs
  BY ShellAlone
<1>4. n \in User /\ n # t
  BY <1>2, NewIsFree DEF SInv
<1>5. PICK r : r = [Unused EXCEPT !.state = "READY", !.prog = "spawn", !.arg = w, !.pc = "work"]
  OBVIOUS
<1>6. NewRecord(r, "spawn", w, "work", NoCmd)
  <2>1. w \in Int /\ "spawn" \in Programs /\ "work" \in Pcs
    BY ONLY w \in Wid, Tables DEF Programs, Pcs
  <2> QED
    BY ONLY <1>5, <2>1, NewRecordOf
<1>7. t \in Tid /\ n \in Tid /\ th[t] \in Thread /\ th \in [Tid -> Thread]
  BY <1>4, Tids DEF SInv, Types
<1>8. PICK s : s = [th[t] EXCEPT !.pc = pc2, !.tgt = th[t].tgt, !.slot = slot2]
  OBVIOUS
<1>9. Moved(s, t, pc2, th[t].tgt, slot2)
  <2>1. th[t].tgt \in User \cup {NoTid} /\ pc2 \in Pcs
    BY ONLY <1>7, pc2 \in {"prompt", "spawn"} DEF Thread, Pcs
  <2> QED
    BY ONLY t \in User, slot2 \in Int, <1>7, <1>8, <2>1, MovedOf
<1>10. th' = [th EXCEPT ![n] = r, ![t] = s]
  <2>1. th' = [[th EXCEPT ![n] = r] EXCEPT ![t].pc = pc2, ![t].slot = slot2]
    BY <1>5 DEF thread_create
  <2>2. s = [th[t] EXCEPT !.pc = pc2, !.slot = slot2]
    BY ONLY <1>7, <1>8 DEF Thread
  <2> QED
    BY ONLY <1>4, <1>7, <2>1, <2>2
<1>11. Grown(n, t) /\ th'[n] = r /\ th'[t] = s
  <2>1. th[t].state # "UNUSED"
    BY ONLY <1>2
  <2>2. Newborn(r) /\ Same(s, t)
    BY ONLY <1>6, <1>9 DEF NewRecord, Moved, Newborn, Same
  <2> QED
    BY ONLY SInv, t \in User, Free(th) # {}, n = New(th), <1>10, <2>1, <2>2, GrownEffect
<1>12. th'[n].prog = "spawn" /\ th'[n].pc = "work" /\ th'[n].arg = w /\ th'[t].pc = pc2 /\ th'[t].slot = slot2
  BY ONLY <1>6, <1>9, <1>11 DEF NewRecord, Moved
<1>13. Fixed' /\ Joins' /\ Shells'
  <2>1. th'[M].pc = th[M].pc /\ th[M].pc \in {"start", "join"}
    BY ONLY SInv, <1>2, <1>11, Tids DEF Grown, SInv, Fixed
  <2> QED
    BY ONLY SInv, <1>2, <1>11, <1>12, <2>1, GrownFixed, GrownJoins, GrownShells DEF SInv
<1>14. \A v \in User : ~ LiveWorker(v)'
  BY ONLY <1>2, <1>11, <1>12 DEF LiveWorker, Grown
<1>16. Workers'
  BY ONLY SInv, <1>2, <1>11, <1>12, pc2 \in {"prompt", "spawn"}, GrownWorkers DEF SInv
<1>17. "work" \notin ShellPcs /\ "work" \notin Killing /\ pc2 \notin Killing /\ "spawn" \notin Killing
  BY ONLY pc2 \in {"prompt", "spawn"} DEF ShellPcs, Killing
<1>18. ShellAt'
  BY ONLY SInv, t \in User, Locals(pc2, slot2), <1>2, <1>11, <1>12, <1>17, GrownShellAt DEF SInv
<1>19. /\ \A v \in User : th[v].pc \notin Killing /\ th[v].pc # "spawn clear"
       /\ \A v \in User : th'[v].pc \notin Killing
  <2>1. \A v \in User : th[v].pc \notin Killing
    BY <1>2, <1>17 DEF ShellPcs
  <2>2. \A v \in User : th[v].pc # "spawn clear"
    BY <2>1 DEF Killing
  <2> QED
    BY ONLY <2>1, <2>2, <1>11, <1>12, <1>17 DEF Grown
<1>20. /\ s_spawn_tid \in [Wid -> User \cup {NoTid}] /\ s_spawn_tid' \in [Wid -> User \cup {NoTid}]
       /\ s_spawn_tid'[w] = n /\ \A x \in Wid : x # w => s_spawn_tid'[x] = s_spawn_tid[x]
  BY <1>4 DEF SInv, Types
<1>21. Entries'
  <2> SUFFICES ASSUME NEW x \in Wid, NEW u \in User, s_spawn_tid'[x] = u
               PROVE  th'[u].prog = "spawn" /\ th'[u].arg = x
    BY DEF Entries
  <2>1. CASE x = w
    BY ONLY <1>12, <1>20, <2>1, s_spawn_tid'[x] = u
  <2>2. CASE x # w
    <3>1. s_spawn_tid[x] = u
      BY ONLY <1>20, <2>2, x \in Wid, s_spawn_tid'[x] = u
    <3>2. th[u].prog = "spawn" /\ th[u].arg = x
      BY ONLY SInv, x \in Wid, u \in User, <1>19, <3>1, SpawnEntry
    <3> QED
      BY ONLY <1>11, <3>2, u \in User DEF Grown
  <2> QED
    BY <2>1, <2>2
<1>22. Listed'
  <2> SUFFICES ASSUME NEW u \in User, th'[u].prog = "spawn"
               PROVE  th'[u].arg \in Wid /\ s_spawn_tid'[th'[u].arg] = u
    BY DEF Listed
  <2>1. CASE u = n
    BY <1>12, <1>20, <2>1
  <2>2. CASE u # n
    <3>1. th[u].prog = "spawn" /\ th'[u].arg = th[u].arg
      BY ONLY <1>11, <2>2, u \in User, th'[u].prog = "spawn" DEF Grown
    <3>2. th[u].arg \in Wid /\ s_spawn_tid[th[u].arg] = u
      BY ONLY SInv, <3>1, u \in User DEF SInv, Spawned, Listed
    <3>3. th[u].arg # w
      BY ONLY <3>2, u \in User, s_spawn_tid[w] = NoTid, Tids
    <3> QED
      BY ONLY <1>20, <3>1, <3>2, <3>3
  <2> QED
    BY <2>1, <2>2
<1>23. Number'
  <2>1. Used' = Used \cup {w} /\ w \notin Used
    <3>1. n # NoTid
      BY ONLY <1>4, Tids
    <3> QED
      BY ONLY <1>20, <3>1, w \in Wid, s_spawn_tid[w] = NoTid DEF Used
  <2>2. IsFiniteSet(Used)
    <3>1. IsFiniteSet(Wid) /\ Used \subseteq Wid
      BY ONLY Tables, FS_Interval DEF Wid, Used
    <3> QED
      BY ONLY <3>1, FS_Subset
  <2>3. Cardinality(Used') = Cardinality(Used) + 1
    BY ONLY <2>1, <2>2, FS_AddElement
  <2>4. s_spawn_active = Cardinality(Used)
    BY <1>19 DEF SInv, Number
  <2> QED
    BY ONLY <2>3, <2>4, s_spawn_active' = s_spawn_active + 1 DEF Number
<1>24. Spawned'
  BY ONLY <1>19, <1>21, <1>22, QuietSpawned
<1>25. Slots' /\ WorkerAt'
  <2>1. \A p \in Proc : g_procs[p] = NoCmd
    <3>1. \A v \in User : th[v].pc # "create"
      BY <1>2 DEF ShellPcs
    <3> QED
      BY <1>2, <3>1 DEF SInv, Slots, InUse
  <2> QED
    BY ONLY <1>14, <2>1, UNCHANGED <<g_procs, g_mons>>, NoCommands DEF WorkerAt
<1>26. Monitors'
  BY ONLY SInv, t \in User, UNCHANGED <<g_procs, g_mons>>, <1>2, <1>11, <1>12, GrownMonitors DEF SInv
<1>27. Types'
  <2>1. s_spawn_active' \in Int
    BY DEF SInv, Types
  <2> QED
    BY ONLY SInv, UNCHANGED <<g_procs, g_mons>>, <1>11, <1>20, <2>1 DEF SInv, Types, Grown
<1> QED
  BY ONLY <1>13, <1>16, <1>18, <1>23, <1>24, <1>25, <1>26, <1>27 DEF SInv

\* spawn_add preserves the invariant.
LEMMA SpawnAddStep ==
  ASSUME SInv, NEW t \in User, spawn_add(t)
  PROVE  SInv'
<1>1. AtCall(t, "shell", "spawn") /\ UNCHANGED <<g_procs, g_mons>>
  BY DEF spawn_add
<1> DEFINE free == {w \in Wid : s_spawn_tid[w] = NoTid}
<1>2. CASE free = {} \/ Free(th) = {}
  <2>1. th' = [th EXCEPT ![t].pc = "prompt", ![t].slot = NoTid] /\ UNCHANGED <<s_spawn_tid, s_spawn_active>>
    BY <1>2 DEF spawn_add
  <2> QED
    BY <1>1, <2>1, SpawnAddFails DEF tables
<1>3. CASE free # {} /\ Free(th) # {}
  <2>1. PICK w : w = Min(free)
    OBVIOUS
  <2>2. w \in Wid /\ s_spawn_tid[w] = NoTid
    <3>1. free \subseteq Nat
      BY Tables
    <3> HIDE DEF free
    <3>2. w \in free
      BY <1>3, <2>1, <3>1, LowestFree
    <3> USE DEF free
    <3> QED
      BY <3>2
  <2>3. PICK n : n = New(th)
    OBVIOUS
  <2>4. PICK k : k = th[t].slot - 1
    OBVIOUS
  <2>5. k \in 0 .. SPAWN_MAX - 1
    <3>1. th[t].slot \in 1 .. SPAWN_MAX
      BY <1>1 DEF AtCall, SInv, ShellAt, Locals
    <3> QED
      BY ONLY <2>4, <3>1, Tables
  <2>6. PICK pc2 : pc2 = IF k = 0 THEN "prompt" ELSE "spawn"
    OBVIOUS
  <2>7. PICK slot2 : slot2 = IF k = 0 THEN NoTid ELSE k
    OBVIOUS
  <2>8. pc2 \in {"prompt", "spawn"} /\ slot2 \in Int /\ Locals(pc2, slot2)
    BY ONLY <2>5, <2>6, <2>7, Tids, Tables DEF Locals, Killing
  <2>9. /\ th' = [thread_create(th, "spawn", w, "work") EXCEPT ![t].pc = pc2, ![t].slot = slot2]
        /\ s_spawn_tid' = [s_spawn_tid EXCEPT ![w] = n] /\ s_spawn_active' = s_spawn_active + 1
    BY <1>3, <2>1, <2>3, <2>4, <2>6, <2>7 DEF spawn_add
  <2> HIDE DEF free
  <2> QED
    BY ONLY SInv, t \in User, <1>1, <1>3, <2>2, <2>3, <2>8, <2>9, SpawnAddCreates
<1> QED
  BY <1>2, <1>3

\* The shell starts a worker for its command.
LEMMA RunCommandCreates ==
  ASSUME SInv, NEW t \in User, AtCall(t, "shell", "create"), Free(th) # {}, NEW n, n = New(th), UNCHANGED tables,
         th' = [thread_create(th, "sh-cmd", th[t].slot, "copy") EXCEPT ![t].pc = "join", ![t].tgt = n, ![t].slot = NoTid]
  PROVE  SInv'
<1>1. UNCHANGED <<g_procs, s_spawn_tid, s_spawn_active, g_mons>>
  BY DEF tables
<1>2. /\ t # M /\ th[t].state = "READY" /\ th[t].prog = "shell" /\ th[t].pc = "create"
      /\ \A v \in User : ~ LiveWorker(v)
      /\ \A v \in User : v # t => th[v].pc \notin ShellPcs /\ ~ LiveShell(v)
  BY ShellAlone
<1>3. PICK p \in Proc : p = th[t].slot
  BY <1>2 DEF SInv, ShellAt, Locals
<1>4. n \in User /\ n # t
  BY <1>2, NewIsFree DEF SInv
<1>5. PICK r : r = [Unused EXCEPT !.state = "READY", !.prog = "sh-cmd", !.arg = p, !.pc = "copy"]
  OBVIOUS
<1>6. NewRecord(r, "sh-cmd", p, "copy", NoCmd)
  <2>1. p \in Int /\ "sh-cmd" \in Programs /\ "copy" \in Pcs
    BY ONLY p \in Proc, Tables DEF Programs, Pcs
  <2> QED
    BY ONLY <1>5, <2>1, NewRecordOf
<1>7. t \in Tid /\ n \in Tid /\ th[t] \in Thread /\ th \in [Tid -> Thread]
  BY <1>4, Tids DEF SInv, Types
<1>8. PICK s : s = [th[t] EXCEPT !.pc = "join", !.tgt = n, !.slot = NoTid]
  OBVIOUS
<1>9. Moved(s, t, "join", n, NoTid)
  <2>1. "join" \in Pcs /\ NoTid \in Int
    BY ONLY Tids DEF Pcs
  <2> QED
    BY ONLY t \in User, <1>4, <1>7, <1>8, <2>1, MovedOf
<1>10. th' = [th EXCEPT ![n] = r, ![t] = s]
  <2>1. th' = [[th EXCEPT ![n] = r] EXCEPT ![t].pc = "join", ![t].tgt = n, ![t].slot = NoTid]
    BY <1>3, <1>5 DEF thread_create
  <2> QED
    BY ONLY <1>4, <1>7, <1>8, <2>1
<1>11. Grown(n, t) /\ th'[n] = r /\ th'[t] = s
  <2>1. th[t].state # "UNUSED"
    BY ONLY <1>2
  <2>2. Newborn(r) /\ Same(s, t)
    BY ONLY <1>6, <1>9 DEF NewRecord, Moved, Newborn, Same
  <2> QED
    BY ONLY SInv, t \in User, Free(th) # {}, n = New(th), <1>10, <2>1, <2>2, GrownEffect
<1>12. /\ th'[n].prog = "sh-cmd" /\ th'[n].pc = "copy" /\ th'[n].arg = p /\ th'[n].slot = NoTid /\ th'[n].join_waiter = NoTid
       /\ th'[n].state = "READY" /\ th'[t].pc = "join" /\ th'[t].tgt = n /\ th'[t].slot = NoTid
       /\ th'[t].state = "READY" /\ th'[t].prog = "shell"
  BY ONLY <1>2, <1>6, <1>9, <1>11 DEF NewRecord, Moved
<1>13. Fixed' /\ Joins' /\ Shells'
  <2>1. th'[M].pc = th[M].pc /\ th[M].pc \in {"start", "join"}
    BY ONLY SInv, <1>2, <1>11, Tids DEF Grown, SInv, Fixed
  <2> QED
    BY ONLY SInv, <1>2, <1>11, <1>12, <2>1, GrownFixed, GrownJoins, GrownShells DEF SInv
<1>14. (\A v \in User : LiveWorker(v)' => v = n) /\ LiveShell(t)' /\ LiveWorker(n)'
  BY ONLY <1>2, <1>11, <1>12 DEF LiveWorker, LiveShell, Grown
<1>16. Workers'
  <2>1. ASSUME NEW v \in User, th'[v].prog = "shell", th'[v].pc = "join"
        PROVE  \E w \in User : th'[v].tgt = w /\ th'[w].prog = "sh-cmd" /\ th'[w].join_waiter = NoTid
    <3>1. CASE v = t
      BY ONLY <1>4, <1>12, <3>1
    <3>2. CASE v # t
      <4>1. th[v].prog = "shell" /\ th[v].pc = "join"
        BY ONLY <1>11, <1>12, <2>1, <3>2 DEF Grown
      <4>2. th[v].state = "READY"
        BY <4>1 DEF SInv, ShellAt
      <4> QED
        BY <1>2, <3>2, <4>1, <4>2 DEF LiveShell
    <3> QED
      BY <3>1, <3>2
  <2>2. ASSUME NEW w \in User, LiveWorker(w)'
        PROVE  \E x \in User : /\ LiveShell(x)'
                               /\ (th'[x].pc = "join" /\ th'[x].tgt = w) \/ th'[w].join_waiter = x
    BY ONLY <1>12, <1>14, <2>2, t \in User
  <2> QED
    BY ONLY <1>14, <2>1, <2>2 DEF Workers
<1>17. "copy" \notin ShellPcs /\ "copy" \notin Killing /\ "join" \notin Killing /\ "create" \notin Killing /\ Locals("join", NoTid)
  BY DEF ShellPcs, Killing, Locals
<1>18. ShellAt'
  BY ONLY SInv, t \in User, <1>2, <1>11, <1>12, <1>17, GrownShellAt DEF SInv
<1>19. /\ \A v \in User : th[v].pc \notin Killing /\ th[v].pc # "spawn clear"
       /\ \A v \in User : th'[v].pc \notin Killing
  <2>1. \A v \in User : th[v].pc \notin Killing
    BY <1>2, <1>17 DEF ShellPcs
  <2>2. \A v \in User : th[v].pc # "spawn clear"
    BY <2>1 DEF Killing
  <2> QED
    BY ONLY <2>1, <2>2, <1>11, <1>12, <1>17, ZenonT(40) DEF Grown
<1>20. Spawned' /\ Number'
  <2>1. Entries' /\ Listed'
    BY ONLY SInv, <1>1, <1>11, <1>12, <1>19, GrownTables DEF SInv
  <2> QED
    BY ONLY SInv, <1>1, <1>19, <2>1, QuietSpawned, QuietNumber DEF SInv
<1>21. Slots'
  <2>1. ASSUME NEW q \in Proc, g_procs[q] # NoCmd PROVE q = p
    <3>1. InUse(q)
      BY <2>1 DEF SInv, Slots
    <3> QED
      BY <1>2, <1>3, <3>1 DEF InUse, ShellPcs
  <2>2. InUse(p)'
    BY ONLY <1>4, <1>12, <1>14 DEF InUse
  <2>3. ASSUME NEW q \in Proc, g_procs[q].name = "mon stop"
        PROVE  \E u \in User : g_procs[q].tid = u /\ th'[u].prog = "monitor"
    <3>1. PICK u \in User : g_procs[q].tid = u /\ th[u].prog = "monitor"
      BY <2>3 DEF SInv, Slots
    <3>2. th'[u].prog = "monitor"
      BY ONLY <1>11, <3>1 DEF Grown
    <3> QED
      BY <3>1, <3>2
  <2>4. \A q \in Proc : g_procs'[q] # NoCmd => InUse(q)'
    BY ONLY <1>1, <2>1, <2>2
  <2> QED
    BY ONLY <1>1, <2>3, <2>4 DEF Slots
<1>22. WorkerAt'
  <2>1. Copying(n)' /\ Victim(n)' /\ Freed(n)' /\ Started(n)'
    BY ONLY <1>12 DEF Copying, Victim, Freed, Started, Stopping
  <2> QED
    BY ONLY <1>14, <2>1 DEF WorkerAt
<1>23. Monitors'
  BY ONLY SInv, t \in User, <1>1, <1>2, <1>11, <1>12, GrownMonitors DEF SInv
<1>24. Types'
  BY ONLY SInv, <1>1, <1>11 DEF SInv, Types, Grown
<1> QED
  BY ONLY <1>13, <1>16, <1>18, <1>20, <1>21, <1>22, <1>23, <1>24 DEF SInv

\* shell_run_command preserves the invariant.
LEMMA RunCommandStep ==
  ASSUME SInv, NEW t \in User, shell_run_command(t)
  PROVE  SInv'
<1>1. AtCall(t, "shell", "create") /\ UNCHANGED <<s_spawn_tid, s_spawn_active, g_mons>>
  BY DEF shell_run_command
<1>2. CASE Free(th) = {}
  <2>1. g_procs' = [g_procs EXCEPT ![th[t].slot] = NoCmd] /\ th' = [th EXCEPT ![t].pc = "prompt", ![t].slot = NoTid]
    BY <1>2 DEF shell_run_command
  <2> QED
    BY <1>1, <2>1, RunCommandFails
<1>3. CASE Free(th) # {}
  <2>1. PICK n : n = New(th)
    OBVIOUS
  <2>2. th' = [thread_create(th, "sh-cmd", th[t].slot, "copy") EXCEPT ![t].pc = "join", ![t].tgt = n, ![t].slot = NoTid]
    BY <1>3, <2>1 DEF shell_run_command
  <2>3. UNCHANGED tables
    BY <1>1, <1>3 DEF shell_run_command, tables
  <2> QED
    BY ONLY SInv, t \in User, <1>1, <1>3, <2>1, <2>2, <2>3, RunCommandCreates
<1> QED
  BY <1>2, <1>3

\* mon start has a slot and a thread.
LEMMA MonStartCreates ==
  ASSUME SInv, NEW t \in User, AtCall(t, "sh-cmd", "mon start"), Free(th) # {}, NEW n, n = New(th),
         NEW m \in Mon, g_mons[m].used = 0, UNCHANGED <<g_procs, s_spawn_tid, s_spawn_active>>,
         NEW q \in Monitor, q.used = 1, q.tid = NoTid, g_mons' = [g_mons EXCEPT ![m] = q],
         th' = [thread_create(th, "monitor", m, "check") EXCEPT
                  ![t].pc = "mon record", ![t].slot = m, ![t].tgt = n, ![n].cmd = th[t].cmd]
  PROVE  SInv'
<1>2. /\ t # M /\ th[t].state = "READY" /\ th[t].prog = "sh-cmd" /\ th[t].pc = "mon start" /\ LiveWorker(t)
      /\ \A v \in User : v # t => ~ LiveWorker(v)
      /\ \A v \in User : th[v].pc \notin ShellPcs
      /\ \A p \in Proc : g_procs[p] = NoCmd
  BY ONLY SInv, t \in User, AtCall(t, "sh-cmd", "mon start"), WorkerAlone
<1>4. n \in User /\ n # t
  BY <1>2, NewIsFree DEF SInv
<1>5. PICK r0 : r0 = [Unused EXCEPT !.state = "READY", !.prog = "monitor", !.arg = m, !.pc = "check"]
  OBVIOUS
<1>6. NewRecord(r0, "monitor", m, "check", NoCmd)
  <2>1. m \in Int /\ "monitor" \in Programs /\ "check" \in Pcs
    BY ONLY m \in Mon, Tables DEF Programs, Pcs
  <2> QED
    BY ONLY <1>5, <2>1, NewRecordOf
<1>7. t \in Tid /\ n \in Tid /\ th[t] \in Thread /\ th \in [Tid -> Thread]
  BY <1>4, Tids DEF SInv, Types
<1>3. PICK r : r = [r0 EXCEPT !.cmd = th[t].cmd]
  OBVIOUS
<1>1. NewRecord(r, "monitor", m, "check", th[t].cmd)
  BY ONLY <1>3, <1>6, <1>7 DEF NewRecord, Thread
<1>8. PICK s : s = [th[t] EXCEPT !.pc = "mon record", !.tgt = n, !.slot = m]
  OBVIOUS
<1>9. Moved(s, t, "mon record", n, m)
  <2>1. "mon record" \in Pcs /\ m \in Int
    BY ONLY m \in Mon, Tables DEF Pcs
  <2> QED
    BY ONLY t \in User, <1>4, <1>7, <1>8, <2>1, MovedOf
<1>10. th' = [th EXCEPT ![n] = r, ![t] = s]
  <2>1. th' = [[th EXCEPT ![n] = r0] EXCEPT ![t].pc = "mon record", ![t].slot = m, ![t].tgt = n, ![n].cmd = th[t].cmd]
    BY <1>5 DEF thread_create
  <2>2. s = [th[t] EXCEPT !.pc = "mon record", !.slot = m, !.tgt = n]
    BY ONLY <1>7, <1>8 DEF Thread
  <2> QED
    BY ONLY <1>3, <1>4, <1>7, <2>1, <2>2
<1>11. Grown(n, t) /\ th'[n] = r /\ th'[t] = s
  <2>1. th[t].state # "UNUSED"
    BY ONLY <1>2
  <2>2. Newborn(r) /\ Same(s, t)
    BY ONLY <1>1, <1>9 DEF NewRecord, Moved, Newborn, Same
  <2> QED
    BY ONLY SInv, t \in User, Free(th) # {}, n = New(th), <1>10, <2>1, <2>2, GrownEffect
<1>12. /\ th'[n].prog = "monitor" /\ th'[n].pc = "check" /\ th'[n].arg = m
       /\ th'[t].pc = "mon record" /\ th'[t].tgt = n /\ th'[t].slot = m
       /\ th'[t].state = "READY" /\ th'[t].prog = "sh-cmd"
  BY ONLY <1>1, <1>2, <1>9, <1>11 DEF NewRecord, Moved
<1>13. Fixed' /\ Joins' /\ Shells'
  <2>1. th'[M].pc = th[M].pc /\ th[M].pc \in {"start", "join"}
    BY ONLY SInv, <1>2, <1>11, Tids DEF Grown, SInv, Fixed
  <2> QED
    BY ONLY SInv, <1>2, <1>11, <1>12, <2>1, GrownFixed, GrownJoins, GrownShells DEF SInv
<1>14. (\A v \in User : LiveWorker(v)' => v = t) /\ LiveWorker(t)'
  BY ONLY <1>2, <1>11, <1>12 DEF LiveWorker, Grown
<1>16. Workers'
  BY ONLY SInv, <1>2, <1>11, <1>12, GrownWorkers DEF SInv
<1>17. "mon record" \notin ShellPcs /\ "check" \notin ShellPcs /\ "mon record" \notin Killing /\ "check" \notin Killing
  BY DEF ShellPcs, Killing
<1>18. ShellAt'
  BY ONLY SInv, t \in User, <1>2, <1>11, <1>12, <1>17, GrownShellAt DEF SInv
<1>19. /\ \A v \in User : th[v].pc \notin Killing /\ th[v].pc # "spawn clear"
       /\ \A v \in User : th'[v].pc \notin Killing
  <2>1. \A v \in User : th[v].pc \notin Killing
    BY <1>2 DEF ShellPcs
  <2>2. \A v \in User : th[v].pc # "spawn clear"
    BY <2>1 DEF Killing
  <2> QED
    BY ONLY <2>1, <2>2, <1>11, <1>12, <1>17, ZenonT(40) DEF Grown
<1>20. Spawned' /\ Number'
  <2>1. UNCHANGED <<s_spawn_tid, s_spawn_active>>
    OBVIOUS
  <2>2. Entries' /\ Listed'
    BY ONLY SInv, <2>1, <1>11, <1>12, <1>19, GrownTables DEF SInv
  <2> QED
    BY ONLY SInv, <2>1, <1>19, <2>2, QuietSpawned, QuietNumber DEF SInv
<1>21. Slots'
  BY <1>2, NoCommands
<1>22. /\ g_mons' \in [Mon -> Monitor] /\ g_mons'[m].used = 1 /\ g_mons'[m].tid = NoTid
       /\ \A x \in Mon : x # m => g_mons'[x] = g_mons[x]
  BY DEF SInv, Types
<1>23. WorkerAt'
  <2>1. Started(t)'
    BY ONLY <1>4, <1>12, <1>22, m \in Mon DEF Started
  <2>2. Copying(t)' /\ Victim(t)' /\ Freed(t)'
    BY ONLY <1>12 DEF Copying, Victim, Freed, Stopping
  <2> QED
    BY ONLY <1>14, <2>1, <2>2 DEF WorkerAt
<1>24. Monitors'
  <2>1. ASSUME NEW x \in Mon, NEW u \in User, g_mons'[x].used = 1, g_mons'[x].tid = u
        PROVE  th'[u].prog = "monitor" /\ th'[u].arg = x
    <3>1. x # m
      BY ONLY <1>22, <2>1, Tids
    <3>2. g_mons[x].used = 1 /\ g_mons[x].tid = u
      BY ONLY <1>22, <2>1, <3>1
    <3>3. th[u].prog = "monitor" /\ th[u].arg = x
      BY <3>2 DEF SInv, Monitors
    <3> QED
      BY ONLY <1>11, <3>3, u \in User DEF Grown
  <2>2. ASSUME NEW v \in User, th'[v].prog = "monitor" PROVE th'[v].arg \in Mon
    <3>1. v # n => th[v].prog = "monitor" /\ th'[v].arg = th[v].arg
      BY ONLY <1>11, <2>2 DEF Grown
    <3>2. th[v].prog = "monitor" => th[v].arg \in Mon
      BY DEF SInv, Monitors
    <3> QED
      BY ONLY <1>12, <3>1, <3>2, m \in Mon
  <2>3. ASSUME NEW v \in User, th'[v].prog = "monitor", th'[v].state \in {"READY", "WAITING"}, th'[v].pc # "exit"
        PROVE  Owned(v)'
    <3>1. CASE v = n
      BY ONLY <1>12, <1>14, <1>22, <3>1, t \in User DEF Owned
    <3>2. CASE v # n
      <4>1. v # t
        BY ONLY <1>12, <2>3
      <4>2. Looping(v) /\ th'[v].arg = th[v].arg
        BY ONLY <1>11, <2>3, <3>2, <4>1 DEF Looping, Grown
      <4>3. "mon start" \notin {"mon record", "mon kill"}
        OBVIOUS
      <4>4. th[v].arg \in Mon /\ g_mons[th[v].arg].used = 1 /\ g_mons[th[v].arg].tid = v
        BY <4>2, <4>3, InTable, Zenon
      <4>5. th[v].arg # m
        BY <4>4, ZeroOne, Zenon
      <4>6. g_mons'[th'[v].arg].used = 1 /\ g_mons'[th'[v].arg].tid = v
        BY ONLY <1>22, <4>2, <4>4, <4>5
      <4> QED
        BY ONLY <4>6 DEF Owned
    <3> QED
      BY <3>1, <3>2
  <2> QED
    BY ONLY <2>1, <2>2, <2>3 DEF Monitors
<1>25. Types'
  <2>1. UNCHANGED <<g_procs, s_spawn_tid, s_spawn_active>>
    OBVIOUS
  <2> QED
    BY ONLY SInv, <2>1, <1>11, <1>22 DEF SInv, Types, Grown
<1> QED
  BY ONLY <1>13, <1>16, <1>18, <1>20, <1>21, <1>23, <1>24, <1>25 DEF SInv

\* mon_start_ex preserves the invariant.
LEMMA MonStartStep ==
  ASSUME SInv, NEW t \in User, mon_start_ex(t)
  PROVE  SInv'
<1>1. AtCall(t, "sh-cmd", "mon start") /\ UNCHANGED <<g_procs, s_spawn_tid, s_spawn_active>>
  BY DEF mon_start_ex, mon_alloc
<1>2. PICK free : free = {m \in Mon : g_mons[m].used = 0}
  OBVIOUS
<1>3. PICK from : from = "mon start"
  OBVIOUS
<1>4. AtCall(t, "sh-cmd", from) /\ from \notin {"copy", "mon record", "mon kill"}
  BY ONLY <1>1, <1>3
<1>5. g_mons \in [Mon -> Monitor]
  BY DEF SInv, Types
<1>6. CASE free = {}
  <2>1. th' = [th EXCEPT ![t].pc = "exit"] /\ UNCHANGED g_mons
    BY <1>2, <1>6 DEF mon_start_ex, mon_alloc
  <2>2. g_mons' \in [Mon -> Monitor]
    BY <1>5, <2>1
  <2> QED
    BY ONLY SInv, t \in User, <1>1, <1>4, <2>1, <2>2, WorkerDone
<1>7. CASE free # {}
  <2>1. PICK m : m = Min(free)
    OBVIOUS
  <2>2. m \in Mon /\ g_mons[m].used = 0
    <3>1. free \subseteq Nat
      BY ONLY <1>2, Tables
    <3>2. m \in free
      BY ONLY <1>7, <2>1, <3>1, LowestFree
    <3> QED
      BY ONLY <1>2, <3>2
  <2>3. PICK k \in Int : k = th[t].cmd.count
    <3>1. t \in Tid /\ th[t] \in Thread
      BY Tids DEF SInv, Types
    <3>2. th[t].cmd \in Cmd
      BY ONLY <3>1 DEF Thread
    <3> QED
      BY ONLY <3>2 DEF Cmd
  <2>4. CASE Free(th) = {}
    <3>1. PICK q : q = [used |-> 0, tid |-> NoTid, remaining |-> k]
      OBVIOUS
    <3>2. th' = [th EXCEPT ![t].pc = "exit"] /\ g_mons' = [g_mons EXCEPT ![m] = q]
      BY <1>2, <1>7, <2>1, <2>3, <2>4, <3>1 DEF mon_start_ex, mon_alloc
    <3>3. q \in Monitor /\ q.used = 0
      BY ONLY <3>1, k \in Int DEF Monitor
    <3>4. /\ g_mons' \in [Mon -> Monitor] /\ g_mons'[m].used = 0
          /\ \A x \in Mon : x # m => g_mons'[x] = g_mons[x]
      BY ONLY <1>5, <2>2, <3>2, <3>3
    <3>5. \A x \in Mon : (g_mons[x].used = 1 \/ g_mons'[x].used = 1) => g_mons'[x] = g_mons[x]
      BY ONLY <2>2, <3>4, ZeroOne, Zenon
    <3> QED
      BY ONLY SInv, t \in User, <1>1, <1>4, <3>2, <3>4, <3>5, WorkerDone
  <2>5. CASE Free(th) # {}
    <3>1. PICK q : q = [used |-> 1, tid |-> NoTid, remaining |-> k]
      OBVIOUS
    <3>2. PICK n : n = New(th)
      OBVIOUS
    <3>3. /\ g_mons' = [g_mons EXCEPT ![m] = q]
          /\ th' = [thread_create(th, "monitor", m, "check") EXCEPT
                      ![t].pc = "mon record", ![t].slot = m, ![t].tgt = n, ![n].cmd = th[t].cmd]
      BY <1>2, <1>7, <2>1, <2>3, <2>5, <3>1, <3>2 DEF mon_start_ex, mon_alloc
    <3>4. q \in Monitor /\ q.used = 1 /\ q.tid = NoTid
      BY ONLY <3>1, k \in Int DEF Monitor
    <3> QED
      BY ONLY SInv, t \in User, <1>1, <2>2, <2>5, <3>2, <3>3, <3>4, MonStartCreates
  <2> QED
    BY <2>4, <2>5
<1> QED
  BY <1>6, <1>7

\* mon_stop preserves the invariant.
LEMMA MonStopStep ==
  ASSUME SInv, NEW t \in User, mon_stop(t)
  PROVE  SInv'
<1>1. AtCall(t, "sh-cmd", "mon stop") /\ UNCHANGED <<g_procs, s_spawn_tid, s_spawn_active>>
  BY DEF mon_stop
<1>2. PICK own : own = {m \in Mon : g_mons[m].used = 1 /\ g_mons[m].tid = th[t].cmd.tid}
  OBVIOUS
<1>3. CASE own = {}
  <2>1. th' = [th EXCEPT ![t].pc = "mon kill"] /\ UNCHANGED g_mons
    BY <1>2, <1>3 DEF mon_stop, mon_find_by_tid
  <2>2. \A m \in Mon : g_mons[m].used = 1 => g_mons[m].tid # th[t].cmd.tid
    BY ONLY <1>2, <1>3
  <2>3. UNCHANGED tables
    BY ONLY <1>1, <2>1 DEF tables
  <2> QED
    BY ONLY SInv, t \in User, <1>1, <2>1, <2>2, <2>3, MonStopNone
<1>4. CASE own # {}
  <2>1. PICK s : s = Min(own)
    OBVIOUS
  <2>2. s \in Mon /\ g_mons[s].used = 1 /\ g_mons[s].tid = th[t].cmd.tid
    <3>1. own \subseteq Nat
      BY ONLY <1>2, Tables
    <3>2. s \in own
      BY ONLY <1>4, <2>1, <3>1, LowestFree
    <3> QED
      BY ONLY <1>2, <3>2
  <2>3. th' = [th EXCEPT ![t].pc = "mon kill", ![t].slot = s] /\ g_mons' = [g_mons EXCEPT ![s].used = 0]
    BY <1>2, <1>4, <2>1 DEF mon_stop, mon_find_by_tid
  <2> QED
    BY ONLY SInv, t \in User, <1>1, <2>2, <2>3, MonStopOwn
<1> QED
  BY <1>3, <1>4

----------------------------------------------------------------------------
(* Joins and endings.                                                      *)

\* Thread u is dead or its slot is free, t goes on with other registers, and
\* w, who waited for u, is READY.  There may be no t and no w.
Left(u, t, w) ==
  /\ u \in User /\ u # M /\ u # t /\ u # w /\ th[u].state # "UNUSED"
  /\ th[u].prog \in {"shell", "sh-cmd", "spawn", "monitor"}
  /\ th'[u].state \in {"UNUSED", "ZOMBIE"} /\ th'[u].join_waiter = NoTid
  /\ th'[u].state = "UNUSED" <=> th'[u].prog = "none"
  /\ th'[u].prog \in {"none", th[u].prog} /\ th'[u].pc \in {"none", "prompt", "exit"}
  /\ \A v \in User : v # u =>
       /\ th'[v].join_waiter = th[v].join_waiter /\ th'[v].prog = th[v].prog /\ th'[v].arg = th[v].arg
       /\ IF v = w THEN th'[v].state = "READY" /\ (th[v].state = "WAITING" \/ v = M)
          ELSE th'[v].state = th[v].state
  /\ \A v \in User : v \notin {u, t} => /\ th'[v].pc = th[v].pc /\ th'[v].tgt = th[v].tgt
                                        /\ th'[v].slot = th[v].slot /\ th'[v].cmd = th[v].cmd
  /\ IdleKept /\ th' \in [Tid -> Thread]

\* A slot that has been given back.
LEMMA UnusedIsThread ==
  /\ Unused \in Thread /\ Unused.state = "UNUSED" /\ Unused.join_waiter = NoTid /\ Unused.prog = "none"
  /\ Unused.pc = "none"
<1>1. NoCmd \in Cmd /\ NoTid \in Int
  BY NoCmdIsCmd, Tids
<1> QED
  BY <1>1 DEF Unused, Thread, Programs, Pcs

\* A join takes the slot of u back.
LEMMA ReapEffect ==
  ASSUME SInv, NEW t \in User, NEW u \in User, u # t, th[u].state # "UNUSED",
         th[u].prog \in {"shell", "sh-cmd", "spawn", "monitor"},
         NEW s, Same(s, t), th' = [th EXCEPT ![u] = Unused, ![t] = s]
  PROVE  Left(u, t, NoTid) /\ th'[t] = s /\ th'[u] = Unused
<1>1. u # M
  BY DEF SInv, Fixed
<1>3. u \in Tid /\ t \in Tid /\ u \notin Idle /\ t \notin Idle /\ Idle \subseteq Tid /\ User \subseteq Tid /\ NoTid \notin User
  BY Tids
<1>4. Unused \in Thread /\ s \in Thread
  BY UnusedIsThread DEF Same
<1>5. /\ th' \in [Tid -> Thread] /\ th'[u] = Unused /\ th'[t] = s
      /\ \A v \in Tid : v \notin {u, t} => th'[v] = th[v]
  BY <1>3, <1>4 DEF SInv, Types
<1>6. IdleKept
  BY ONLY <1>3, <1>5 DEF IdleKept
<1>7. \A v \in User : v # u => /\ th'[v].state = th[v].state /\ th'[v].join_waiter = th[v].join_waiter
                              /\ th'[v].prog = th[v].prog /\ th'[v].arg = th[v].arg /\ v # NoTid
  BY ONLY <1>3, <1>5, Same(s, t) DEF Same
<1>8. th'[u].state = "UNUSED" /\ th'[u].join_waiter = NoTid /\ th'[u].prog = "none" /\ th'[u].pc = "none"
  BY ONLY <1>5, UnusedIsThread
<1>9. \A v \in User : v \notin {u, t} => /\ th'[v].pc = th[v].pc /\ th'[v].tgt = th[v].tgt
                                        /\ th'[v].slot = th[v].slot /\ th'[v].cmd = th[v].cmd
  BY ONLY <1>3, <1>5
<1>10. u # NoTid
  BY ONLY <1>3
<1> QED
  BY ONLY u \in User, u # t, th[u].state # "UNUSED", th[u].prog \in {"shell", "sh-cmd", "spawn", "monitor"},
          <1>1, <1>5, <1>6, <1>7, <1>8, <1>9, <1>10 DEF Left

\* u ends and w waited for it.
LEMMA ReleaseEffect ==
  ASSUME SInv, NEW u \in User, NEW w \in User, u # w, th[u].state # "UNUSED",
         th[u].prog \in {"shell", "sh-cmd"}, th[u].join_waiter = w, th[w].state = "WAITING" \/ w = M,
         th' = Ended(th, u)
  PROVE  Left(u, NoTid, w) /\ th'[u] = Unused
<1>1. u # M
  BY DEF SInv, Fixed
<1>2. u \in Tid /\ w \in Tid /\ u \notin Idle /\ w \notin Idle /\ Idle \subseteq Tid /\ User \subseteq Tid /\ NoTid \notin User
  BY Tids
<1>3. PICK s : s = [th[w] EXCEPT !.state = "READY"]
  OBVIOUS
<1>4. th \in [Tid -> Thread] /\ th[w] \in Thread
  BY <1>2 DEF SInv, Types
<1>5. /\ s \in Thread /\ s.state = "READY" /\ s.join_waiter = th[w].join_waiter /\ s.prog = th[w].prog
      /\ s.arg = th[w].arg /\ s.pc = th[w].pc /\ s.tgt = th[w].tgt /\ s.slot = th[w].slot /\ s.cmd = th[w].cmd
  BY ONLY <1>3, <1>4 DEF Thread
<1>6. th' = [[th EXCEPT ![w].state = "READY"] EXCEPT ![u] = Unused]
  <2>1. w # NoTid
    BY ONLY <1>2, w \in User
  <2> QED
    BY <2>1 DEF Ended, Release
<1>7. /\ th' \in [Tid -> Thread] /\ th'[u] = Unused /\ th'[w] = s
      /\ \A v \in Tid : v \notin {u, w} => th'[v] = th[v]
  BY ONLY <1>2, <1>3, <1>4, <1>5, <1>6, u # w, UnusedIsThread
<1>8. IdleKept
  BY ONLY <1>2, <1>7 DEF IdleKept
<1>9. \A v \in User : v # u =>
        /\ th'[v].join_waiter = th[v].join_waiter /\ th'[v].prog = th[v].prog /\ th'[v].arg = th[v].arg
        /\ th'[v].pc = th[v].pc /\ th'[v].tgt = th[v].tgt /\ th'[v].slot = th[v].slot /\ th'[v].cmd = th[v].cmd
        /\ IF v = w THEN th'[v].state = "READY" ELSE th'[v].state = th[v].state
  BY ONLY <1>2, <1>5, <1>7
<1>10. th'[u].state = "UNUSED" /\ th'[u].join_waiter = NoTid /\ th'[u].prog = "none" /\ th'[u].pc = "none"
  BY ONLY <1>7, UnusedIsThread
<1>11. u # NoTid
  BY ONLY <1>2
<1> QED
  BY ONLY u \in User, u # w, th[u].state # "UNUSED", th[u].prog \in {"shell", "sh-cmd"},
          th[w].state = "WAITING" \/ w = M,
          <1>1, <1>7, <1>8, <1>9, <1>10, <1>11 DEF Left

\* u ends and nobody waits for it.
LEMMA ZombieEffect ==
  ASSUME SInv, NEW u \in User, th[u].state # "UNUSED", th[u].prog \in {"shell", "sh-cmd"},
         th[u].pc \in {"prompt", "exit"}, th[u].join_waiter = NoTid, th' = Ended(th, u)
  PROVE  Left(u, NoTid, NoTid) /\ th'[u].prog = th[u].prog /\ th'[u].pc = th[u].pc
<1>1. u # M
  BY DEF SInv, Fixed
<1>2. th' = [th EXCEPT ![u].state = "ZOMBIE"]
  BY DEF Ended
<1>3. Dead(th', u)
  BY <1>2, ZombieTable DEF SInv
<1>4. Idle \cap User = {} /\ Tid = Idle \cup User /\ NoTid \notin User
  BY Tids
<1> HIDE DEF Dead
<1>5. IdleKept
  BY ONLY <1>3, <1>4, u \in User DEF IdleKept, Dead
<1> QED
  BY ONLY u \in User, th[u].state # "UNUSED", th[u].prog \in {"shell", "sh-cmd"}, th[u].pc \in {"prompt", "exit"},
          th[u].join_waiter = NoTid, <1>1, <1>3, <1>4, <1>5 DEF Left, Dead

\* What the end or the join of a thread leaves alone, for each part of the
\* invariant.
LEMMA LeftFixed ==
  ASSUME Fixed, NEW u, NEW t, NEW w, Left(u, t, w), th'[M].pc \in {"start", "join"}
  PROVE  Fixed'
<1>1. \A v \in User : v # u => (th'[v].state = "UNUSED" <=> th[v].state = "UNUSED")
  BY DEF Fixed, Left
<1>2. \A v \in User : v # u => th'[v].prog = th[v].prog
  BY DEF Left
<1>3. th'[M].join_waiter = NoTid /\ th'[M].prog = "user_main"
  BY Tids DEF Fixed, Left
<1>4. \A v \in Idle : th'[v].state # "UNUSED"
  BY DEF Fixed, Left, IdleKept
<1>5. \A v \in User : th'[v].state = "UNUSED" <=> th'[v].prog = "none"
  BY <1>1, <1>2 DEF Fixed, Left
<1>6. th'[u].prog \in {"none", "shell", "sh-cmd", "spawn", "monitor"}
  BY DEF Left
<1> QED
  BY <1>2, <1>3, <1>4, <1>5, <1>6 DEF Fixed

LEMMA LeftLive ==
  ASSUME Fixed, NEW u, NEW t, NEW w, Left(u, t, w)
  PROVE  /\ ~ LiveShell(u)' /\ ~ LiveWorker(u)'
         /\ \A v \in User : v # u => (LiveShell(v)' <=> LiveShell(v)) /\ (LiveWorker(v)' <=> LiveWorker(v))
BY DEF Fixed, Left, LiveShell, LiveWorker

LEMMA LeftJoins ==
  ASSUME Joins, Fixed, NEW u, NEW t, NEW w, Left(u, t, w), th'[M].pc = th[M].pc \/ th[M].state = "READY",
         \A v \in User : v # u => th[v].join_waiter # u,
         w \in User => \A v \in User : v # u => th[v].join_waiter # w
  PROVE  Joins'
<1> SUFFICES ASSUME NEW v \in User, NEW x \in User, th'[v].join_waiter = x
             PROVE  \/ LiveShell(v)' /\ x = M /\ th'[M].state \in {"WAITING", "ZOMBIE"} /\ th'[M].pc = "start"
                    \/ LiveWorker(v)' /\ th'[x].prog = "shell" /\ th'[x].state = "WAITING"
  BY DEF Joins
<1>1. v # u /\ th[v].join_waiter = x
  BY Tids DEF Left
<1>2. (LiveShell(v)' <=> LiveShell(v)) /\ (LiveWorker(v)' <=> LiveWorker(v))
  BY <1>1, LeftLive
<1>3. \/ LiveShell(v) /\ x = M /\ th[M].state \in {"WAITING", "ZOMBIE"} /\ th[M].pc = "start"
      \/ LiveWorker(v) /\ th[x].prog = "shell" /\ th[x].state = "WAITING"
  BY <1>1 DEF Joins
<1>4. x # u /\ x # w
  BY <1>1
<1>5. th'[x].state = th[x].state /\ th'[x].prog = th[x].prog
  BY <1>4 DEF Left
<1> QED
  BY <1>2, <1>3, <1>5

LEMMA LeftShells ==
  ASSUME Shells, Fixed, NEW u, NEW t, NEW w, t # M, Left(u, t, w), th[u].prog # "shell"
  PROVE  Shells'
<1>1. /\ \A v \in User : LiveShell(v)' <=> LiveShell(v)
      /\ ~ LiveShell(u)
  <2>1. ~ LiveShell(u)
    BY DEF LiveShell
  <2> QED
    BY <2>1, LeftLive
<1>2. th'[M].pc = th[M].pc /\ th'[M].tgt = th[M].tgt
  BY Tids DEF Left
<1>3. ASSUME th[M].pc = "join"
      PROVE  \E s \in User : th'[M].tgt = s /\ th'[s].prog = "shell" /\ th'[s].join_waiter = NoTid
  <2>1. PICK s \in User : th[M].tgt = s /\ th[s].prog = "shell" /\ th[s].join_waiter = NoTid
    BY <1>3 DEF Shells
  <2> QED
    BY <1>2, <2>1 DEF Left
<1>4. \A v \in User : v # u => th'[v].join_waiter = th[v].join_waiter
  BY DEF Left
<1> QED
  BY <1>1, <1>2, <1>3, <1>4 DEF Shells

LEMMA LeftWorkers ==
  ASSUME Workers, Fixed, NEW u, NEW t, NEW w, Left(u, t, w), th[u].prog \notin {"sh-cmd", "shell"},
         t \in User /\ th[t].prog = "shell" => th[t].pc # "join" /\ th'[t].pc # "join"
  PROVE  Workers'
<1>1. ~ LiveWorker(u) /\ ~ LiveShell(u)
  BY DEF LiveShell, LiveWorker
<1>2. \A v \in User : (LiveWorker(v)' <=> LiveWorker(v)) /\ (LiveShell(v)' <=> LiveShell(v))
  BY <1>1, LeftLive
<1>3. ASSUME NEW x \in User, LiveWorker(x)
      PROVE \E s \in User : /\ LiveShell(s)'
                            /\ (th'[s].pc = "join" /\ th'[s].tgt = x) \/ th'[x].join_waiter = s
  <2>1. PICK s \in User : /\ LiveShell(s)
                          /\ (th[s].pc = "join" /\ th[s].tgt = x) \/ th[x].join_waiter = s
    BY <1>3 DEF Workers
  <2>2. LiveShell(s)' /\ th[s].prog = "shell" /\ th'[x].join_waiter = th[x].join_waiter /\ s # u
    BY <1>1, <1>2, <1>3, <2>1 DEF LiveShell, Left
  <2>3. th[s].pc = "join" => th'[s].pc = "join" /\ th'[s].tgt = th[s].tgt
    BY <2>2 DEF Left
  <2> QED BY <2>1, <2>2, <2>3
<1>4. ASSUME NEW s \in User, th'[s].prog = "shell", th'[s].pc = "join"
      PROVE  \E x \in User : th'[s].tgt = x /\ th'[x].prog = "sh-cmd" /\ th'[x].join_waiter = NoTid
  <2>1. s # u /\ th[s].prog = "shell"
    BY <1>4 DEF Left
  <2>2. th[s].pc = "join" /\ th'[s].tgt = th[s].tgt
    BY <1>4, <2>1 DEF Left
  <2>3. PICK x \in User : th[s].tgt = x /\ th[x].prog = "sh-cmd" /\ th[x].join_waiter = NoTid
    BY <2>1, <2>2 DEF Workers
  <2> QED
    BY <2>2, <2>3 DEF Left
<1> QED
  BY <1>2, <1>3, <1>4 DEF Workers

LEMMA LeftShellAt ==
  ASSUME ShellAt, NEW u, NEW t, NEW w, Left(u, t, w),
         t \in User => IF th[t].prog = "shell" THEN th'[t].state = "READY" /\ Locals(th'[t].pc, th'[t].slot)
                       ELSE th'[t].pc \notin ShellPcs,
         th'[u].prog = "shell" => th'[u].pc = "prompt"
  PROVE  ShellAt'
<1>1. Locals("prompt", th'[u].slot) /\ th'[u].pc \notin ShellPcs
  BY DEF Locals, Killing, ShellPcs, Left
<1>2. ASSUME NEW v \in User
      PROVE  /\ th'[v].pc \in Killing \cup {"spawn", "create"} => th'[v].prog = "shell"
             /\ th'[v].prog = "shell" /\ th'[v].pc # "prompt" => th'[v].state = "READY"
             /\ th'[v].prog = "shell" => Locals(th'[v].pc, th'[v].slot)
  <2>1. CASE v = u
    BY <1>1, <2>1 DEF ShellPcs
  <2>2. CASE v = t
    BY <2>2 DEF Left, ShellPcs
  <2>3. CASE v \notin {u, t}
    BY <2>3 DEF Left, ShellAt
  <2> QED
    BY <2>1, <2>2, <2>3
<1> QED
  BY <1>2 DEF ShellAt

LEMMA LeftTables ==
  ASSUME Spawned, NEW u, NEW t, NEW w, Left(u, t, w), th[u].prog # "spawn", \A v \in User : th[v].pc # "spawn clear",
         UNCHANGED s_spawn_tid
  PROVE  Entries' /\ Listed'
<1>1. Listed'
  <2> SUFFICES ASSUME NEW x \in User, th'[x].prog = "spawn"
               PROVE  th'[x].arg \in Wid /\ s_spawn_tid'[th'[x].arg] = x
    BY DEF Listed
  <2>1. th[x].prog = "spawn" /\ th'[x].arg = th[x].arg
    BY DEF Left
  <2> QED
    BY <2>1 DEF Spawned, Listed
<1>2. ASSUME NEW y \in Wid, NEW x \in User, s_spawn_tid'[y] = x
      PROVE  th'[x].prog = "spawn" /\ th'[x].arg = y
  <2>1. s_spawn_tid[y] = x
    BY <1>2
  <2>2. th[x].prog = "spawn" /\ th[x].arg = y
    BY <2>1 DEF Spawned, Entries
  <2> QED
    BY <2>2 DEF Left
<1> QED
  BY <1>1, <1>2 DEF Entries

LEMMA LeftMonitors ==
  ASSUME Monitors, Fixed, NEW u, NEW t, NEW w, Left(u, t, w), UNCHANGED g_mons, th[u].prog # "monitor",
         t \in User => th[t].prog # "monitor", w \in User => th[w].prog # "monitor",
         \A c \in User : LiveWorker(c) => th[c].pc \notin {"mon record", "mon kill"}
  PROVE  Monitors'
<1>1. \A v \in User : Owned(v) => g_mons[th[v].arg].used = 1 /\ g_mons[th[v].arg].tid = v
  BY DEF Owned
<1>2. \A v \in User : th'[v].prog = "monitor" =>
         /\ v # u /\ th[v].prog = "monitor" /\ th'[v].arg = th[v].arg /\ th'[v].pc = th[v].pc /\ th'[v].state = th[v].state
  BY DEF Left
<1>3. ASSUME NEW v \in User, th'[v].prog = "monitor", th'[v].state \in {"READY", "WAITING"}, th'[v].pc # "exit"
      PROVE  Owned(v)'
  <2>1. g_mons[th[v].arg].used = 1 /\ g_mons[th[v].arg].tid = v /\ th'[v].arg = th[v].arg
    BY <1>1, <1>2, <1>3 DEF Monitors
  <2> QED
    BY <2>1 DEF Owned
<1>4. \A m \in Mon, x \in User : g_mons'[m].used = 1 /\ g_mons'[m].tid = x => th'[x].prog = "monitor" /\ th'[x].arg = m
  <2> SUFFICES ASSUME NEW m \in Mon, NEW x \in User, g_mons'[m].used = 1, g_mons'[m].tid = x
               PROVE  th'[x].prog = "monitor" /\ th'[x].arg = m
    OBVIOUS
  <2>1. th[x].prog = "monitor" /\ th[x].arg = m
    BY DEF Monitors
  <2> QED
    BY <2>1 DEF Left
<1>5. \A v \in User : th'[v].prog = "monitor" => th'[v].arg \in Mon
  BY <1>2 DEF Monitors
<1> QED
  BY <1>3, <1>4, <1>5 DEF Monitors

\* Nobody is in a command afterwards: what is left to show.
LEMMA LeftQuiet ==
  ASSUME SInv, NEW u, NEW t, NEW w, Left(u, t, w), UNCHANGED tables,
         th[u].prog \notin {"spawn", "monitor"}, t \in User => th[t].prog # "monitor" /\ th'[t].pc \notin ShellPcs,
         w \in User => th[w].prog # "monitor",
         \A v \in User : v # u /\ v # t => th[v].pc \notin ShellPcs,
         t \in User => th[t].pc \notin ShellPcs, th[u].pc \notin ShellPcs,
         \A c \in User : ~ LiveWorker(c)',
         \A c \in User : LiveWorker(c) => th[c].pc \notin {"copy", "mon record", "mon kill"}
  PROVE  Types' /\ Spawned' /\ Number' /\ Slots' /\ WorkerAt' /\ Monitors'
<1>1. UNCHANGED <<g_procs, s_spawn_tid, s_spawn_active, g_mons>>
  BY DEF tables
<1>2. \A v \in User : th[v].pc \notin ShellPcs
  OBVIOUS
<1>3. \A v \in User : th[v].pc \notin Killing /\ th[v].pc # "spawn clear" /\ th[v].pc # "create"
  BY ONLY <1>2 DEF ShellPcs, Killing
<1>4. \A v \in User : th'[v].pc \notin Killing
  <2>1. th'[u].pc \notin ShellPcs
    BY DEF Left, ShellPcs, Killing
  <2>2. \A v \in User : v \notin {u, t} => th'[v].pc = th[v].pc
    BY DEF Left
  <2>3. \A v \in User : th'[v].pc \notin ShellPcs
    BY <1>2, <2>1, <2>2
  <2> QED
    BY <2>3 DEF ShellPcs
<1>5. Entries' /\ Listed'
  BY ONLY SInv, Left(u, t, w), th[u].prog \notin {"spawn", "monitor"}, <1>1, <1>3, LeftTables DEF SInv
<1>6. Spawned' /\ Number'
  BY ONLY SInv, <1>1, <1>3, <1>4, <1>5, QuietSpawned, QuietNumber DEF SInv
<1>7. \A p \in Proc : g_procs[p] = NoCmd
  <2>1. \A p \in Proc : ~ InUse(p)
    BY <1>3 DEF InUse
  <2> QED
    BY <2>1 DEF SInv, Slots
<1>8. Slots'
  BY ONLY <1>1, <1>7, NoCommands
<1>9. WorkerAt'
  BY DEF WorkerAt
<1>10. Monitors'
  <2>1. \A c \in User : LiveWorker(c) => th[c].pc \notin {"mon record", "mon kill"}
    OBVIOUS
  <2> QED
    BY <1>1, <2>1, LeftMonitors DEF SInv
<1>11. Types'
  BY ONLY SInv, Left(u, t, w), <1>1 DEF SInv, Types, Left
<1> QED
  BY <1>6, <1>8, <1>9, <1>10, <1>11

\* A join of a dead thread.
LEMMA JoinTable ==
  ASSUME SInv, NEW t \in User, NEW u \in User, u # t, th[u].state = "ZOMBIE", th[u].join_waiter = NoTid
  PROVE  thread_join(th, t, u) = [th EXCEPT ![u] = Unused]
<1>1. join_rc(th, t, u) = 0
  BY DEF join_rc
<1> QED
  BY <1>1 DEF thread_join

\* user_main at its join: the shell, and what is known when it is dead.
LEMMA MainJoinFacts ==
  ASSUME SInv, NEW t \in User, AtCall(t, "user_main", "join")
  PROVE  /\ t = M /\ th[t].state = "READY" /\ th[t].prog = "user_main" /\ th[t].pc = "join"
         /\ \E u \in User : /\ th[M].tgt = u /\ th[u].prog = "shell" /\ th[u].join_waiter = NoTid /\ u # M
                            /\ \A v \in User : LiveShell(v) => v = u
         /\ \A v \in User : th[v].join_waiter # M
<1>1. t = M /\ th[t].state = "READY" /\ th[t].prog = "user_main" /\ th[t].pc = "join"
  BY DEF AtCall, SInv, Fixed
<1>2. \A v \in User : th[v].join_waiter # M
  BY <1>1 DEF SInv, Joins
<1>3. PICK u \in User : th[M].tgt = u /\ th[u].prog = "shell" /\ th[u].join_waiter = NoTid
  BY <1>1 DEF SInv, Shells
<1>4. u # M
  BY <1>3 DEF SInv, Fixed
<1>5. \A v \in User : LiveShell(v) => v = u
  BY <1>2, <1>3 DEF SInv, Shells
<1> QED
  BY <1>1, <1>2, <1>3, <1>4, <1>5

\* user_main joins a shell that is dead.
LEMMA MainJoinReaps ==
  ASSUME SInv, NEW t \in User, AtCall(t, "user_main", "join"), UNCHANGED tables, NEW u \in User, th[t].tgt = u,
         th[u].state = "ZOMBIE", th' = [thread_join(th, t, u) EXCEPT ![t].pc = "start", ![t].tgt = NoTid]
  PROVE  SInv'
<1>1. /\ t = M /\ th[t].state = "READY" /\ th[t].prog = "user_main" /\ th[t].pc = "join"
      /\ th[u].prog = "shell" /\ th[u].join_waiter = NoTid /\ u # t
      /\ \A v \in User : LiveShell(v) => v = u
  BY MainJoinFacts
<1>2. \A v \in User : ~ LiveShell(v)
  BY <1>1 DEF LiveShell
<1>3. \A v \in User : ~ LiveWorker(v)
  BY <1>2 DEF SInv, Workers
<1>4. \A v \in User : th[v].pc \notin ShellPcs
  BY <1>2 DEF SInv, ShellAt, ShellPcs, LiveShell, Killing
<1>5. \A v, x \in User : th[v].join_waiter # x
  BY <1>2, <1>3 DEF SInv, Joins
<1>6. PICK s : s = [th[t] EXCEPT !.pc = "start", !.tgt = NoTid]
  OBVIOUS
<1>7. th' = [th EXCEPT ![u] = Unused, ![t] = s]
  <2>1. thread_join(th, t, u) = [th EXCEPT ![u] = Unused]
    BY <1>1, JoinTable
  <2>2. t \in Tid /\ u \in Tid /\ th \in [Tid -> Thread]
    BY Tids DEF SInv, Types
  <2> QED
    BY ONLY <1>1, <1>6, <2>1, <2>2, th' = [thread_join(th, t, u) EXCEPT ![t].pc = "start", ![t].tgt = NoTid]
<1>8. Same(s, t) /\ s.pc = "start"
  <2>1. t \in Tid /\ th[t] \in Thread
    BY Tids DEF SInv, Types
  <2> QED
    BY ONLY <1>6, <2>1 DEF Same, Thread, Pcs
<1>9. Left(u, t, NoTid) /\ th'[t] = s /\ th'[u] = Unused
  <2>1. th[u].state # "UNUSED" /\ th[u].prog \in {"shell", "sh-cmd", "spawn", "monitor"}
    BY <1>1
  <2> QED
    BY ONLY SInv, t \in User, u \in User, <1>1, <1>7, <1>8, <2>1, ReapEffect
<1>10. th'[t].pc = "start" /\ th'[u].prog = "none"
  BY ONLY <1>8, <1>9, UnusedIsThread
<1>11. \A v \in User : ~ LiveShell(v)' /\ ~ LiveWorker(v)'
  BY ONLY SInv, <1>2, <1>3, <1>9, LeftLive DEF SInv
<1>12. "start" \notin ShellPcs
  BY DEF ShellPcs, Killing
<1>13. Fixed' /\ Joins'
  <2>1. th'[M].pc \in {"start", "join"} /\ th[M].state = "READY"
    BY ONLY <1>1, <1>10
  <2>2. \A v \in User : v # u => th[v].join_waiter # u
    BY <1>5
  <2>3. NoTid \notin User
    BY Tids
  <2> QED
    BY ONLY SInv, <1>9, <2>1, <2>2, <2>3, LeftFixed, LeftJoins DEF SInv
<1>14. Shells' /\ Workers'
  <2>1. th'[M].pc # "join"
    BY ONLY <1>1, <1>10
  <2>2. ASSUME NEW v \in User, th'[v].prog = "shell" PROVE th'[v].pc # "join"
    <3>1. v # u /\ v # t /\ th[v].prog = "shell" /\ th'[v].pc = th[v].pc
      BY ONLY <1>1, <1>9, <1>10, <2>2, t \in User DEF Left
    <3> QED
      BY <1>2, <3>1 DEF SInv, ShellAt, LiveShell
  <2> QED
    BY ONLY <1>11, <2>1, <2>2 DEF Shells, Workers
<1>15. ShellAt'
  BY ONLY SInv, <1>1, <1>9, <1>10, <1>12, LeftShellAt DEF SInv
<1>16. Types' /\ Spawned' /\ Number' /\ Slots' /\ WorkerAt' /\ Monitors'
  <2>1. NoTid \notin User
    BY Tids
  <2> QED
    BY ONLY SInv, UNCHANGED tables, u \in User, t \in User, <1>1, <1>3, <1>4, <1>9, <1>10, <1>11, <1>12, <2>1, LeftQuiet
<1> QED
  BY <1>13, <1>14, <1>15, <1>16 DEF SInv

\* A shell that is about to join its worker.
LEMMA ShellJoinFacts ==
  ASSUME SInv, NEW t \in User, AtCall(t, "shell", "join")
  PROVE  /\ t # M /\ th[t].state = "READY" /\ th[t].prog = "shell" /\ th[t].pc = "join" /\ LiveShell(t)
         /\ \A v \in User : v # t => ~ LiveShell(v)
         /\ \A v \in User : th[v].pc \notin ShellPcs
         /\ \A v \in User : th[v].join_waiter # t
         /\ \E u \in User : /\ th[t].tgt = u /\ th[u].prog = "sh-cmd" /\ th[u].join_waiter = NoTid /\ u # M /\ u # t
                            /\ \A v \in User : LiveWorker(v) => v = u
<1>1. /\ t # M /\ th[t].state = "READY" /\ th[t].prog = "shell" /\ th[t].pc = "join" /\ LiveShell(t)
      /\ \A v \in User : v # t => th[v].pc \notin ShellPcs /\ ~ LiveShell(v)
      /\ \A v \in User : th[v].join_waiter # t
  BY ShellAlone
<1>2. "join" \notin ShellPcs
  BY DEF ShellPcs, Killing
<1>3. PICK u \in User : th[t].tgt = u /\ th[u].prog = "sh-cmd" /\ th[u].join_waiter = NoTid
  BY <1>1 DEF SInv, Workers
<1>4. u # M /\ u # t
  BY <1>1, <1>3 DEF SInv, Fixed
<1>5. ASSUME NEW v \in User, LiveWorker(v) PROVE v = u
  <2>1. PICK s \in User : /\ LiveShell(s)
                          /\ (th[s].pc = "join" /\ th[s].tgt = v) \/ th[v].join_waiter = s
    BY <1>5 DEF SInv, Workers
  <2> QED
    BY <1>1, <1>3, <2>1
<1> QED
  BY <1>1, <1>2, <1>3, <1>4, <1>5

\* A shell joins a worker that is dead.
LEMMA ShellJoinReaps ==
  ASSUME SInv, NEW t \in User, AtCall(t, "shell", "join"), UNCHANGED tables, NEW u \in User, th[t].tgt = u,
         th[u].state = "ZOMBIE", th' = [thread_join(th, t, u) EXCEPT ![t].pc = "prompt", ![t].tgt = NoTid]
  PROVE  SInv'
<1>1. /\ t # M /\ th[t].state = "READY" /\ th[t].prog = "shell" /\ th[t].pc = "join" /\ LiveShell(t)
      /\ \A v \in User : v # t => ~ LiveShell(v)
      /\ \A v \in User : th[v].pc \notin ShellPcs
      /\ \A v \in User : th[v].join_waiter # t
      /\ th[u].prog = "sh-cmd" /\ th[u].join_waiter = NoTid /\ u # t
      /\ \A v \in User : LiveWorker(v) => v = u
  BY ShellJoinFacts
<1>3. \A v \in User : ~ LiveWorker(v)
  BY <1>1 DEF LiveWorker
<1>5. \A v \in User : th[v].join_waiter # u
  BY <1>1 DEF SInv, Joins, Fixed
<1>6. PICK s : s = [th[t] EXCEPT !.pc = "prompt", !.tgt = NoTid]
  OBVIOUS
<1>7. th' = [th EXCEPT ![u] = Unused, ![t] = s]
  <2>1. thread_join(th, t, u) = [th EXCEPT ![u] = Unused]
    BY <1>1, JoinTable
  <2>2. t \in Tid /\ u \in Tid /\ th \in [Tid -> Thread]
    BY Tids DEF SInv, Types
  <2> QED
    BY ONLY <1>1, <1>6, <2>1, <2>2, th' = [thread_join(th, t, u) EXCEPT ![t].pc = "prompt", ![t].tgt = NoTid]
<1>8. Same(s, t) /\ s.pc = "prompt"
  <2>1. t \in Tid /\ th[t] \in Thread
    BY Tids DEF SInv, Types
  <2> QED
    BY ONLY <1>6, <2>1 DEF Same, Thread, Pcs
<1>9. Left(u, t, NoTid) /\ th'[t] = s /\ th'[u] = Unused
  <2>1. th[u].state # "UNUSED" /\ th[u].prog \in {"shell", "sh-cmd", "spawn", "monitor"}
    BY <1>1
  <2> QED
    BY ONLY SInv, t \in User, u \in User, <1>1, <1>7, <1>8, <2>1, ReapEffect
<1>10. th'[t].pc = "prompt" /\ th'[u].prog = "none" /\ th'[t].state = "READY"
  BY ONLY <1>1, <1>8, <1>9, UnusedIsThread DEF Same
<1>11. (\A v \in User : ~ LiveWorker(v)') /\ (\A v \in User : v # u => (LiveShell(v)' <=> LiveShell(v)))
  BY ONLY SInv, <1>3, <1>9, LeftLive DEF SInv
<1>12. "prompt" \notin ShellPcs /\ Locals("prompt", th'[t].slot)
  BY DEF ShellPcs, Killing, Locals
<1>2. NoTid \notin User
  BY Tids
<1>13. Fixed' /\ Joins' /\ Shells'
  <2>1. th'[M].pc = th[M].pc
    BY ONLY <1>1, <1>9, Tids DEF Left
  <2>2. th'[M].pc \in {"start", "join"}
    BY <2>1 DEF SInv, Fixed
  <2> QED
    BY ONLY SInv, <1>1, <1>2, <1>5, <1>9, <2>1, <2>2, LeftFixed, LeftJoins, LeftShells DEF SInv
<1>14. Workers'
  <2>2. ASSUME NEW v \in User, th'[v].prog = "shell" PROVE th'[v].pc # "join"
    <3>1. CASE v = t
      BY <1>10, <3>1
    <3>2. CASE v # t
      <4>1. v # u /\ th[v].prog = "shell" /\ th'[v].pc = th[v].pc
        BY ONLY <1>1, <1>9, <1>10, <2>2, <3>2 DEF Left
      <4> QED
        BY <1>1, <3>2, <4>1 DEF SInv, ShellAt, LiveShell
    <3> QED
      BY <3>1, <3>2
  <2> QED
    BY ONLY <1>11, <2>2 DEF Workers
<1>15. ShellAt'
  BY ONLY SInv, <1>1, <1>9, <1>10, <1>12, LeftShellAt DEF SInv
<1>16. Types' /\ Spawned' /\ Number' /\ Slots' /\ WorkerAt' /\ Monitors'
  BY ONLY SInv, UNCHANGED tables, u \in User, t \in User, <1>1, <1>2, <1>3, <1>9, <1>10, <1>11, <1>12, LeftQuiet
<1> QED
  BY <1>13, <1>14, <1>15, <1>16 DEF SInv

\* spawn_kill_join preserves the invariant: it does not wait, because the
\* worker is a zombie.
LEMMA SpawnKillJoinStep ==
  ASSUME SInv, NEW t \in User, spawn_kill_join(t)
  PROVE  SInv'
<1>1. AtCall(t, "shell", "spawn join") /\ UNCHANGED <<g_procs, s_spawn_tid, s_spawn_active, g_mons>>
  BY DEF spawn_kill_join, tables
<1>2. /\ t # M /\ th[t].state = "READY" /\ th[t].prog = "shell" /\ th[t].pc = "spawn join" /\ th[t] \in Thread
      /\ \A v \in User : v # t => th[v].pc \notin ShellPcs
      /\ \A v \in User : ~ LiveWorker(v)
  <2>1. PICK from : from = "spawn join"
    OBVIOUS
  <2>2. AtCall(t, "shell", from) /\ from # "join"
    BY ONLY <1>1, <2>1
  <2>3. /\ t # M /\ th[t].state = "READY" /\ th[t].prog = "shell" /\ th[t].pc = from /\ th[t] \in Thread
        /\ \A v \in User : v # t => th[v].pc \notin ShellPcs
        /\ \A v \in User : ~ LiveWorker(v)
    BY ONLY SInv, t \in User, <2>2, ShellAlone
  <2> QED
    BY ONLY <2>1, <2>3
<1>3. PICK y \in Wid : y = th[t].slot
  BY <1>2 DEF SInv, ShellAt, Locals
<1>4. PICK u \in User : s_spawn_tid[y] = u /\ th[u].state = "ZOMBIE" /\ th[u].prog = "spawn"
  BY <1>2, <1>3 DEF SInv, Spawned, Killed
<1>5. th[u].join_waiter = NoTid /\ u # t
  BY <1>2, <1>4, NoWaiter
<1>6. PICK s : s = [th[t] EXCEPT !.pc = "spawn clear"]
  OBVIOUS
<1>7. th' = [th EXCEPT ![u] = Unused, ![t] = s]
  <2>1. thread_join(th, t, u) = [th EXCEPT ![u] = Unused]
    BY <1>4, <1>5, JoinTable
  <2>2. t \in Tid /\ u \in Tid /\ th \in [Tid -> Thread]
    BY Tids DEF SInv, Types
  <2>3. th' = [thread_join(th, t, u) EXCEPT ![t].pc = "spawn clear"]
    BY <1>3, <1>4 DEF spawn_kill_join
  <2> QED
    BY ONLY <1>5, <1>6, <2>1, <2>2, <2>3
<1>8. Same(s, t) /\ s.pc = "spawn clear" /\ s.slot = th[t].slot
  BY ONLY <1>2, <1>6 DEF Same, Thread, Pcs
<1>9. Left(u, t, NoTid) /\ th'[t] = s /\ th'[u] = Unused
  <2>1. th[u].state # "UNUSED" /\ th[u].prog \in {"shell", "sh-cmd", "spawn", "monitor"}
    BY ONLY <1>4
  <2> QED
    BY ONLY SInv, t \in User, u \in User, <1>5, <1>7, <1>8, <2>1, ReapEffect
<1>10. /\ th'[t].pc = "spawn clear" /\ th'[u].prog = "none" /\ th'[t].state = "READY" /\ th'[t].slot = y /\ th'[t].prog = "shell"
       /\ th'[u].pc = "none"
  BY ONLY <1>2, <1>3, <1>8, <1>9, UnusedIsThread DEF Same
<1>11. \A v \in User : ~ LiveWorker(v)'
  BY ONLY SInv, <1>2, <1>9, LeftLive DEF SInv
<1>12. NoTid \notin User
  BY Tids
<1>13. Fixed' /\ Joins' /\ Shells'
  <2>1. th'[M].pc = th[M].pc
    BY ONLY <1>2, <1>9, Tids DEF Left
  <2>2. th'[M].pc \in {"start", "join"}
    BY <2>1 DEF SInv, Fixed
  <2>3. \A v \in User : th[v].join_waiter # u
    BY <1>4 DEF SInv, Joins, Fixed
  <2> QED
    BY ONLY SInv, <1>2, <1>4, <1>9, <1>12, <2>1, <2>2, <2>3, LeftFixed, LeftJoins, LeftShells DEF SInv
<1>14. Workers'
  BY ONLY SInv, <1>2, <1>4, <1>9, <1>10, LeftWorkers DEF SInv
<1>15. ShellAt'
  <2>1. Locals("spawn clear", y)
    BY ONLY y \in Wid, Tables DEF Locals, Killing, Wid
  <2> QED
    BY ONLY SInv, <1>2, <1>9, <1>10, <2>1, LeftShellAt DEF SInv
<1>16. \A v \in User : th'[v].pc \in ShellPcs => v = t
  <2>1. "none" \notin ShellPcs
    BY DEF ShellPcs, Killing
  <2> QED
    BY ONLY <1>2, <1>9, <1>10, <2>1, ZenonT(40) DEF Left
<1>17. \A v \in User : th[v].pc # "spawn clear"
  BY <1>2 DEF ShellPcs, Killing
<1>18. \A v \in User : th'[v].pc \in Killing => v = t
  BY <1>16 DEF ShellPcs
<1>19. Entries'
  <2> SUFFICES ASSUME NEW z \in Wid, NEW x \in User, s_spawn_tid'[z] = x
               PROVE  \/ th'[x].prog = "spawn" /\ th'[x].arg = z
                      \/ \E v \in User : th'[v].prog = "shell" /\ th'[v].pc = "spawn clear" /\ th'[v].slot = z
    BY DEF Entries
  <2>1. s_spawn_tid[z] = x
    BY <1>1
  <2>2. th[x].prog = "spawn" /\ th[x].arg = z /\ th[u].arg = y
    BY ONLY SInv, <1>4, <1>17, <2>1, z \in Wid, x \in User, y \in Wid, SpawnEntry
  <2>3. CASE x = u
    BY ONLY t \in User, <1>10, <2>2, <2>3
  <2>4. CASE x # u
    BY ONLY <1>9, <2>2, <2>4, x \in User DEF Left
  <2> QED
    BY <2>3, <2>4
<1>20. \A x \in User : th'[x].prog = "spawn" =>
         /\ th'[x].arg = th[x].arg /\ th[x].arg \in Wid /\ s_spawn_tid[th[x].arg] = x /\ x # u
  <2> SUFFICES ASSUME NEW x \in User, th'[x].prog = "spawn"
               PROVE  th'[x].arg = th[x].arg /\ th[x].arg \in Wid /\ s_spawn_tid[th[x].arg] = x /\ x # u
    OBVIOUS
  <2>1. x # u /\ th[x].prog = "spawn" /\ th'[x].arg = th[x].arg
    BY ONLY <1>9, <1>10, x \in User, th'[x].prog = "spawn" DEF Left
  <2> QED
    BY <2>1 DEF SInv, Spawned, Listed
<1>21. Listed' /\ Reclaimed'
  <2>1. Listed'
    BY ONLY <1>1, <1>20 DEF Listed
  <2>2. \A v \in User : th'[v].pc = "spawn clear" => v = t
    BY ONLY <1>18 DEF Killing
  <2>3. \A x \in User : th'[x].prog = "spawn" => th'[x].arg # y
    BY ONLY <1>4, <1>20
  <2>4. Reclaimed'
    BY ONLY <1>10, <2>2, <2>3 DEF Reclaimed
  <2> QED
    BY ONLY <2>1, <2>4
<1>22. Cleared'
  <2>1. \A w \in Wid : w < y => s_spawn_tid'[w] = NoTid
    BY <1>1, <1>2, <1>3 DEF SInv, Spawned, Cleared, Killing
  <2> QED
    BY ONLY <1>10, <1>18, <2>1 DEF Cleared
<1>23. Killed'
  <2>1. \A v \in User : th'[v].pc # "spawn join"
    BY ONLY <1>10, <1>18 DEF Killing
  <2> QED
    BY ONLY <2>1 DEF Killed
<1>24. Number'
  BY ONLY t \in User, <1>10 DEF Number, Killing
<1>25. Slots' /\ WorkerAt'
  <2>1. \A p \in Proc : g_procs[p] = NoCmd
    <3>1. \A v \in User : th[v].pc # "create"
      BY <1>2 DEF ShellPcs
    <3> QED
      BY <1>2, <3>1 DEF SInv, Slots, InUse
  <2> QED
    BY ONLY <1>1, <1>11, <2>1, NoCommands DEF WorkerAt
<1>26. Monitors'
  BY ONLY SInv, <1>1, <1>2, <1>4, <1>9, <1>12, LeftMonitors DEF SInv
<1>27. Types'
  BY ONLY SInv, <1>1, <1>9 DEF SInv, Types, Left
<1> QED
  BY ONLY <1>13, <1>14, <1>15, <1>19, <1>21, <1>22, <1>23, <1>24, <1>25, <1>26, <1>27 DEF SInv, Spawned

\* mon_stop_join preserves the invariant: the monitor is a zombie.
LEMMA MonStopJoinStep ==
  ASSUME SInv, NEW t \in User, mon_stop_join(t)
  PROVE  SInv'
<1>1. AtCall(t, "sh-cmd", "mon join") /\ UNCHANGED <<g_procs, s_spawn_tid, s_spawn_active, g_mons>>
  BY DEF mon_stop_join, tables
<1>2. /\ t # M /\ th[t].state = "READY" /\ th[t].prog = "sh-cmd" /\ th[t].pc = "mon join" /\ th[t] \in Thread
      /\ LiveWorker(t)
      /\ \A v \in User : v # t => ~ LiveWorker(v)
      /\ \A v \in User : th[v].pc \notin ShellPcs
      /\ \A p \in Proc : g_procs[p] = NoCmd
  BY ONLY SInv, t \in User, <1>1, WorkerAlone
<1>3. PICK u \in User : th[t].cmd.tid = u /\ th[u].prog = "monitor" /\ th[u].state = "ZOMBIE"
  BY ONLY SInv, t \in User, <1>1, StopFacts
<1>4. Freed(t)
  BY <1>2 DEF SInv, WorkerAt
<1>5. th[u].join_waiter = NoTid /\ u # t
  BY <1>2, <1>3, NoWaiter
<1>6. PICK s : s = [th[t] EXCEPT !.pc = "mon clear"]
  OBVIOUS
<1>7. th' = [th EXCEPT ![u] = Unused, ![t] = s]
  <2>1. thread_join(th, t, u) = [th EXCEPT ![u] = Unused]
    BY <1>3, <1>5, JoinTable
  <2>2. t \in Tid /\ u \in Tid /\ th \in [Tid -> Thread]
    BY Tids DEF SInv, Types
  <2>3. th' = [thread_join(th, t, u) EXCEPT ![t].pc = "mon clear"]
    BY <1>3 DEF mon_stop_join
  <2> QED
    BY ONLY <1>5, <1>6, <2>1, <2>2, <2>3
<1>8. Same(s, t) /\ s.pc = "mon clear" /\ s.slot = th[t].slot /\ s.cmd = th[t].cmd
  BY ONLY <1>2, <1>6 DEF Same, Thread, Pcs
<1>9. Left(u, t, NoTid) /\ th'[t] = s /\ th'[u] = Unused
  <2>1. th[u].state # "UNUSED" /\ th[u].prog \in {"shell", "sh-cmd", "spawn", "monitor"}
    BY ONLY <1>3
  <2> QED
    BY ONLY SInv, t \in User, u \in User, <1>5, <1>7, <1>8, <2>1, ReapEffect
<1>10. /\ th'[t].pc = "mon clear" /\ th'[u].prog = "none" /\ th'[u].pc = "none" /\ th'[t].slot = th[t].slot
       /\ th'[t].cmd = th[t].cmd /\ th'[t].prog = "sh-cmd"
  BY ONLY <1>2, <1>8, <1>9, UnusedIsThread DEF Same
<1>11. (\A v \in User : LiveWorker(v)' => v = t)
  BY ONLY SInv, <1>2, <1>9, LeftLive DEF SInv
<1>12. NoTid \notin User
  BY Tids
<1>13. Fixed' /\ Joins' /\ Shells'
  <2>1. th'[M].pc = th[M].pc
    BY ONLY <1>2, <1>9, Tids DEF Left
  <2>2. th'[M].pc \in {"start", "join"}
    BY <2>1 DEF SInv, Fixed
  <2>3. \A v \in User : th[v].join_waiter # u
    BY <1>3 DEF SInv, Joins, Fixed
  <2> QED
    BY ONLY SInv, <1>2, <1>3, <1>9, <1>12, <2>1, <2>2, <2>3, LeftFixed, LeftJoins, LeftShells DEF SInv
<1>14. Workers'
  BY ONLY SInv, <1>2, <1>3, <1>9, LeftWorkers DEF SInv
<1>15. "mon clear" \notin ShellPcs /\ "none" \notin ShellPcs
  BY DEF ShellPcs, Killing
<1>16. ShellAt'
  BY ONLY SInv, <1>2, <1>9, <1>10, <1>15, LeftShellAt DEF SInv
<1>17. Spawned' /\ Number'
  <2>1. \A v \in User : th[v].pc \notin Killing /\ th[v].pc # "spawn clear"
    BY ONLY <1>2 DEF ShellPcs, Killing
  <2>2. \A v \in User : th'[v].pc \notin ShellPcs
    <3>1. \A v \in User : v \notin {u, t} => th'[v].pc = th[v].pc
      BY ONLY <1>9 DEF Left
    <3> QED
      BY ONLY <1>2, <1>10, <1>15, <3>1
  <2>3. \A v \in User : th'[v].pc \notin Killing
    BY ONLY <2>2 DEF ShellPcs
  <2>4. Entries' /\ Listed'
    BY ONLY SInv, <1>1, <1>3, <1>9, <2>1, LeftTables DEF SInv
  <2> QED
    BY ONLY SInv, <1>1, <2>1, <2>3, <2>4, QuietSpawned, QuietNumber DEF SInv
<1>18. Slots'
  BY ONLY <1>1, <1>2, NoCommands
<1>19. WorkerAt'
  <2>1. Freed(t)'
    BY ONLY <1>1, <1>2, <1>4, <1>10 DEF Freed, Stopping
  <2>2. Copying(t)' /\ Victim(t)' /\ Started(t)'
    BY ONLY <1>10 DEF Copying, Victim, Started
  <2> QED
    BY ONLY <1>11, <2>1, <2>2 DEF WorkerAt
<1>20. Monitors'
  <2>1. ASSUME NEW m \in Mon, NEW x \in User, g_mons'[m].used = 1, g_mons'[m].tid = x
        PROVE  th'[x].prog = "monitor" /\ th'[x].arg = m
    <3>1. th[x].prog = "monitor" /\ th[x].arg = m
      BY <1>1, <2>1 DEF SInv, Monitors
    <3>2. x # u
      BY ONLY <1>1, <1>2, <1>3, <1>4, <2>1 DEF Freed, Stopping
    <3> QED
      BY ONLY <1>9, <3>1, <3>2, x \in User DEF Left
  <2>2. \A v \in User : th'[v].prog = "monitor" =>
          v # u /\ v # t /\ th[v].prog = "monitor" /\ th'[v].arg = th[v].arg /\ th'[v].pc = th[v].pc /\ th'[v].state = th[v].state
    BY ONLY <1>9, <1>10, <1>12 DEF Left
  <2>3. \A v \in User : th'[v].prog = "monitor" => th'[v].arg \in Mon
    BY <2>2 DEF SInv, Monitors
  <2>4. ASSUME NEW v \in User, th'[v].prog = "monitor", th'[v].state \in {"READY", "WAITING"}, th'[v].pc # "exit"
        PROVE  Owned(v)'
    <3>1. Looping(v) /\ th'[v].arg = th[v].arg
      BY ONLY <2>2, <2>4 DEF Looping
    <3>2. "mon join" \notin {"mon record", "mon kill"}
      OBVIOUS
    <3>3. th[v].arg \in Mon /\ g_mons[th[v].arg].used = 1 /\ g_mons[th[v].arg].tid = v
      BY <1>1, <3>1, <3>2, InTable, Zenon
    <3>4. g_mons'[th'[v].arg].used = 1 /\ g_mons'[th'[v].arg].tid = v
      BY ONLY <1>1, <3>1, <3>3
    <3> QED
      BY ONLY <3>4 DEF Owned
  <2> QED
    BY ONLY <2>1, <2>3, <2>4 DEF Monitors
<1>21. Types'
  BY ONLY SInv, <1>1, <1>9 DEF SInv, Types, Left
<1> QED
  BY ONLY <1>13, <1>14, <1>16, <1>17, <1>18, <1>19, <1>20, <1>21 DEF SInv

\* t waits for the end of u.
Blocks(t, u) ==
  /\ t \in User /\ u \in User /\ u # t /\ th' \in [Tid -> Thread] /\ IdleKept
  /\ \A v \in User : /\ th'[v].prog = th[v].prog /\ th'[v].arg = th[v].arg
                     /\ th'[v].slot = th[v].slot /\ th'[v].cmd = th[v].cmd
  /\ \A v \in User : v # t => th'[v].state = th[v].state /\ th'[v].pc = th[v].pc /\ th'[v].tgt = th[v].tgt
  /\ \A v \in User : v # u => th'[v].join_waiter = th[v].join_waiter
  /\ th'[u].join_waiter = t /\ th[t].state = "READY" /\ th'[t].state = "WAITING"
  /\ th[t].prog \in {"user_main", "shell"} /\ th[t].pc = "join"
  /\ th'[t].pc = IF th[t].prog = "shell" THEN "prompt" ELSE "start"

\* user_main or a shell begins to wait.
LEMMA BlocksEffect ==
  ASSUME SInv, NEW t \in User, NEW u \in User, u # t, th[u].state \in {"READY", "WAITING"}, th[u].join_waiter = NoTid,
         th[t].state = "READY", th[t].prog \in {"user_main", "shell"}, th[t].pc = "join",
         NEW pc \in Pcs, pc = (IF th[t].prog = "shell" THEN "prompt" ELSE "start"),
         th' = [thread_join(th, t, u) EXCEPT ![t].pc = pc, ![t].tgt = NoTid]
  PROVE  Blocks(t, u)
<1>1. join_rc(th, t, u) = 0
  BY DEF join_rc
<1>2. thread_join(th, t, u) = [th EXCEPT ![t].state = "WAITING", ![u].join_waiter = t]
  BY <1>1 DEF thread_join
<1>3. /\ t \in Tid /\ u \in Tid /\ th \in [Tid -> Thread] /\ th[t] \in Thread /\ th[u] \in Thread
      /\ t \notin Idle /\ u \notin Idle /\ Idle \subseteq Tid /\ User \subseteq Tid
  BY Tids DEF SInv, Types
<1>4. PICK s : s = [th[t] EXCEPT !.state = "WAITING", !.pc = pc, !.tgt = NoTid]
  OBVIOUS
<1>5. PICK r : r = [th[u] EXCEPT !.join_waiter = t]
  OBVIOUS
<1>6. /\ s \in Thread /\ s.state = "WAITING" /\ s.join_waiter = th[t].join_waiter /\ s.prog = th[t].prog
      /\ s.arg = th[t].arg /\ s.pc = pc /\ s.slot = th[t].slot /\ s.cmd = th[t].cmd
  BY ONLY <1>3, <1>4, pc \in Pcs DEF Thread
<1>7. /\ r \in Thread /\ r.state = th[u].state /\ r.join_waiter = t /\ r.prog = th[u].prog
      /\ r.arg = th[u].arg /\ r.pc = th[u].pc /\ r.tgt = th[u].tgt /\ r.slot = th[u].slot /\ r.cmd = th[u].cmd
  BY ONLY <1>3, <1>5, t \in User DEF Thread
<1>8. th' = [[th EXCEPT ![t].state = "WAITING", ![u].join_waiter = t] EXCEPT ![t].pc = pc, ![t].tgt = NoTid]
  BY ONLY <1>2, th' = [thread_join(th, t, u) EXCEPT ![t].pc = pc, ![t].tgt = NoTid]
<1>9. /\ th' \in [Tid -> Thread] /\ th'[t] = s /\ th'[u] = r
      /\ \A v \in Tid : v \notin {u, t} => th'[v] = th[v]
  BY ONLY <1>3, <1>4, <1>5, <1>6, <1>7, <1>8, u # t
<1>10. IdleKept
  BY ONLY <1>3, <1>9 DEF IdleKept
<1>11. \A v \in User : /\ th'[v].prog = th[v].prog /\ th'[v].arg = th[v].arg
                       /\ th'[v].slot = th[v].slot /\ th'[v].cmd = th[v].cmd
  BY ONLY <1>3, <1>6, <1>7, <1>9
<1>12. \A v \in User : v # t => th'[v].state = th[v].state /\ th'[v].pc = th[v].pc /\ th'[v].tgt = th[v].tgt
  BY ONLY <1>3, <1>6, <1>7, <1>9
<1>13. \A v \in User : v # u => th'[v].join_waiter = th[v].join_waiter
  BY ONLY <1>3, <1>6, <1>7, <1>9
<1>14. th'[u].join_waiter = t /\ th'[t].state = "WAITING" /\ th'[t].pc = pc
  BY ONLY <1>6, <1>7, <1>9
<1> QED
  BY ONLY t \in User, u \in User, u # t, th[t].state = "READY", th[t].prog \in {"user_main", "shell"}, th[t].pc = "join",
     pc = (IF th[t].prog = "shell" THEN "prompt" ELSE "start"), <1>9, <1>10, <1>11, <1>12, <1>13, <1>14 DEF Blocks

\* Everything but the joins is as before.
LEMMA BlocksRest ==
  ASSUME SInv, NEW t, NEW u, Blocks(t, u), UNCHANGED tables
  PROVE  /\ \A v \in User : (LiveWorker(v)' <=> LiveWorker(v)) /\ (LiveShell(v)' <=> LiveShell(v))
         /\ Types' /\ ShellAt' /\ Spawned' /\ Number' /\ Slots' /\ WorkerAt' /\ Monitors'
<1>1. UNCHANGED <<g_procs, s_spawn_tid, s_spawn_active, g_mons>>
  BY DEF tables
<1>2. \A v \in User : (LiveWorker(v)' <=> LiveWorker(v)) /\ (LiveShell(v)' <=> LiveShell(v))
  BY ONLY Blocks(t, u) DEF Blocks, LiveShell, LiveWorker
<1>3. \A v \in User : /\ th'[v].pc \in ShellPcs \/ th[v].pc \in ShellPcs => v # t /\ th'[v].pc = th[v].pc
                      /\ th'[v].slot = th[v].slot /\ th'[v].prog = th[v].prog /\ th'[v].arg = th[v].arg
  BY ONLY Blocks(t, u) DEF Blocks, ShellPcs, Killing
<1>4. ShellAt'
  <2>1. \A x : Locals("prompt", x)
    BY DEF Locals, Killing
  <2>2. ASSUME NEW v \in User
        PROVE  /\ th'[v].pc \in Killing \cup {"spawn", "create"} => th'[v].prog = "shell"
               /\ th'[v].prog = "shell" /\ th'[v].pc # "prompt" => th'[v].state = "READY"
               /\ th'[v].prog = "shell" => Locals(th'[v].pc, th'[v].slot)
    <3>1. CASE v = t
      BY ONLY Blocks(t, u), <2>1, <3>1 DEF Blocks, Killing
    <3>2. CASE v # t
      BY ONLY SInv, Blocks(t, u), <3>2, v \in User DEF SInv, ShellAt, Blocks
    <3> QED
      BY <3>1, <3>2
  <2> QED
    BY <2>2 DEF ShellAt
<1>5. \A v \in User : /\ th'[v].pc \in Killing <=> th[v].pc \in Killing
                      /\ th'[v].pc = "spawn clear" <=> th[v].pc = "spawn clear"
                      /\ th'[v].pc = "spawn join" <=> th[v].pc = "spawn join"
  BY ONLY <1>3 DEF ShellPcs, Killing
<1>6. Spawned'
  <2>1. Entries'
    <3> SUFFICES ASSUME NEW z \in Wid, NEW x \in User, s_spawn_tid'[z] = x, ~ (th'[x].prog = "spawn" /\ th'[x].arg = z)
                 PROVE  \E v \in User : th'[v].prog = "shell" /\ th'[v].pc = "spawn clear" /\ th'[v].slot = z
      BY DEF Entries
    <3>1. s_spawn_tid[z] = x /\ ~ (th[x].prog = "spawn" /\ th[x].arg = z)
      BY ONLY <1>1, <1>3, x \in User, s_spawn_tid'[z] = x, ~ (th'[x].prog = "spawn" /\ th'[x].arg = z)
    <3>2. PICK v \in User : th[v].prog = "shell" /\ th[v].pc = "spawn clear" /\ th[v].slot = z
      BY <3>1 DEF SInv, Spawned, Entries
    <3> QED
      BY ONLY <1>3, <1>5, <3>2
  <2>2. Listed'
    BY ONLY SInv, <1>1, <1>3 DEF SInv, Spawned, Listed
  <2>3. Cleared'
    BY ONLY SInv, <1>1, <1>3, <1>5 DEF SInv, Spawned, Cleared
  <2>4. Killed'
    <3> SUFFICES ASSUME NEW s \in User, th'[s].pc = "spawn join"
                 PROVE  \E x \in User : /\ s_spawn_tid'[th'[s].slot] = x
                                        /\ th'[x].state = "ZOMBIE" /\ th'[x].prog = "spawn"
      BY DEF Killed
    <3>1. th[s].pc = "spawn join" /\ th'[s].slot = th[s].slot
      BY <1>3, <1>5
    <3>2. PICK x \in User : s_spawn_tid[th[s].slot] = x /\ th[x].state = "ZOMBIE" /\ th[x].prog = "spawn"
      BY <3>1, Zenon DEF SInv, Spawned, Killed
    <3>3. th'[x].state = "ZOMBIE" /\ th'[x].prog = "spawn"
      BY ONLY Blocks(t, u), <3>2 DEF Blocks
    <3> QED
      BY <1>1, <3>1, <3>2, <3>3
  <2>5. Reclaimed'
    BY ONLY SInv, <1>3, <1>5, ZenonT(40) DEF SInv, Spawned, Reclaimed
  <2> QED
    BY <2>1, <2>2, <2>3, <2>4, <2>5 DEF Spawned
<1>7. Number'
  <2>1. Used' = Used
    BY ONLY <1>1 DEF Used
  <2> QED
    BY ONLY SInv, <1>1, <1>5, <2>1 DEF SInv, Number
<1>8. Slots'
  <2>1. ASSUME NEW p \in Proc, InUse(p) PROVE InUse(p)'
    <3>1. PICK v \in User : \/ LiveShell(v) /\ th[v].pc = "create" /\ th[v].slot = p
                            \/ LiveWorker(v) /\ th[v].pc = "copy" /\ th[v].arg = p
      BY <2>1 DEF InUse
    <3>2. th'[v].pc = th[v].pc
      BY ONLY Blocks(t, u), <3>1 DEF Blocks
    <3> QED
      BY ONLY <1>2, <1>3, <3>1, <3>2 DEF InUse
  <2> QED
    BY ONLY SInv, <1>1, <1>3, <2>1, ZenonT(40) DEF SInv, Slots
<1>9. \A v \in User : th[v].prog \in {"sh-cmd", "monitor"} =>
        /\ th'[v].state = th[v].state /\ th'[v].pc = th[v].pc /\ th'[v].tgt = th[v].tgt /\ th'[v].slot = th[v].slot
        /\ th'[v].cmd = th[v].cmd /\ th'[v].prog = th[v].prog /\ th'[v].arg = th[v].arg
  BY ONLY Blocks(t, u) DEF Blocks
<1>10. WorkerAt'
  <2> SUFFICES ASSUME NEW c \in User, LiveWorker(c)
               PROVE  Copying(c)' /\ Victim(c)' /\ Freed(c)' /\ Started(c)'
    BY <1>2 DEF WorkerAt
  <2>1. Copying(c) /\ Victim(c) /\ Freed(c) /\ Started(c) /\ th[c].prog = "sh-cmd"
    BY DEF SInv, WorkerAt, LiveWorker
  <2>2. Copying(c)'
    BY ONLY <1>9, <2>1, c \in User DEF Copying
  <2>3. Victim(c)'
    BY ONLY <1>9, <2>1, c \in User DEF Victim
  <2>4. Freed(c)'
    BY ONLY <1>1, <1>9, <2>1, c \in User DEF Freed
  <2>5. Started(c)'
    BY ONLY <1>1, <1>9, <2>1, c \in User DEF Started
  <2> QED
    BY <2>2, <2>3, <2>4, <2>5
<1>11. Monitors'
  <2>1. ASSUME NEW v \in User, Owned(v), th[v].prog = "monitor" PROVE Owned(v)'
    <3>1. \A c \in User : LiveWorker(c) => th[c].prog = "sh-cmd"
      BY DEF LiveWorker
    <3> QED
      BY ONLY <1>1, <1>2, <1>9, <2>1, <3>1, ZenonT(40) DEF Owned
  <2> QED
    BY ONLY SInv, <1>1, <1>3, <1>9, <2>1 DEF SInv, Monitors
<1>12. Types'
  BY ONLY SInv, Blocks(t, u), <1>1 DEF SInv, Types, Blocks
<1> QED
  BY <1>2, <1>4, <1>6, <1>7, <1>8, <1>10, <1>11, <1>12

\* The slots of the idle threads and of user_main are not touched by that.
LEMMA BlocksFixed ==
  ASSUME SInv, NEW t, NEW u, Blocks(t, u), u # M
  PROVE  Fixed'
<1>1. Fixed
  BY DEF SInv
<1>2. th'[M].pc \in {"start", "join"}
  BY <1>1, Tids DEF Fixed, Blocks
<1> QED
  BY ONLY <1>1, <1>2, Blocks(t, u), u # M, Tids DEF Fixed, Blocks, IdleKept

\* user_main waits for a shell that runs.
LEMMA MainWaits ==
  ASSUME SInv, NEW t \in User, AtCall(t, "user_main", "join"), UNCHANGED tables, NEW u \in User, th[t].tgt = u,
         th[u].state \in {"READY", "WAITING"},
         th' = [thread_join(th, t, u) EXCEPT ![t].pc = "start", ![t].tgt = NoTid]
  PROVE  SInv'
<1>1. /\ t = M /\ th[t].state = "READY" /\ th[t].prog = "user_main" /\ th[t].pc = "join"
      /\ th[u].prog = "shell" /\ th[u].join_waiter = NoTid /\ u # M
      /\ \A v \in User : LiveShell(v) => v = u
      /\ \A v \in User : th[v].join_waiter # M
  BY MainJoinFacts
<1>2. Blocks(t, u)
  <2>1. PICK pc \in Pcs : pc = "start"
    BY DEF Pcs
  <2>2. pc = (IF th[t].prog = "shell" THEN "prompt" ELSE "start") /\ th[t].prog \in {"user_main", "shell"} /\ u # t
    BY ONLY <1>1, <2>1
  <2>3. th' = [thread_join(th, t, u) EXCEPT ![t].pc = pc, ![t].tgt = NoTid]
    BY ONLY <2>1, th' = [thread_join(th, t, u) EXCEPT ![t].pc = "start", ![t].tgt = NoTid]
  <2> QED
    BY ONLY SInv, t \in User, u \in User, th[u].state \in {"READY", "WAITING"}, <1>1, <2>2, <2>3, BlocksEffect
<1>3. /\ \A v \in User : (LiveWorker(v)' <=> LiveWorker(v)) /\ (LiveShell(v)' <=> LiveShell(v))
      /\ Types' /\ ShellAt' /\ Spawned' /\ Number' /\ Slots' /\ WorkerAt' /\ Monitors'
  BY ONLY SInv, UNCHANGED tables, <1>2, BlocksRest
<1>4. Fixed'
  BY ONLY SInv, <1>1, <1>2, BlocksFixed
<1>5. LiveShell(u)
  BY <1>1 DEF LiveShell
<1>6. th'[M].state = "WAITING" /\ th'[M].pc = "start" /\ th'[u].join_waiter = M
  BY ONLY <1>1, <1>2 DEF Blocks
<1>7. Joins'
  <2> SUFFICES ASSUME NEW v \in User, NEW x \in User, th'[v].join_waiter = x
               PROVE  \/ LiveShell(v)' /\ x = M /\ th'[M].state \in {"WAITING", "ZOMBIE"} /\ th'[M].pc = "start"
                      \/ LiveWorker(v)' /\ th'[x].prog = "shell" /\ th'[x].state = "WAITING"
    BY DEF Joins
  <2>1. CASE v = u
    BY ONLY <1>3, <1>5, <1>6, <2>1, th'[v].join_waiter = x, v \in User
  <2>2. CASE v # u
    <3>1. th[v].join_waiter = x
      BY ONLY <1>2, <2>2, th'[v].join_waiter = x, v \in User DEF Blocks
    <3>2. LiveWorker(v) /\ th[x].prog = "shell" /\ th[x].state = "WAITING"
      BY <1>1, <3>1 DEF SInv, Joins
    <3>3. th'[x].prog = "shell" /\ th'[x].state = "WAITING"
      BY ONLY <1>1, <1>2, <3>2, x \in User DEF Blocks
    <3> QED
      BY ONLY <1>3, <3>2, <3>3, v \in User
  <2> QED
    BY <2>1, <2>2
<1>8. Shells'
  BY ONLY <1>1, <1>3, <1>6 DEF Shells
<1>9. Workers'
  <2>1. ASSUME NEW w \in User, LiveWorker(w)
        PROVE \E s \in User : /\ LiveShell(s)'
                              /\ (th'[s].pc = "join" /\ th'[s].tgt = w) \/ th'[w].join_waiter = s
    <3>1. PICK s \in User : /\ LiveShell(s)
                            /\ (th[s].pc = "join" /\ th[s].tgt = w) \/ th[w].join_waiter = s
      BY <2>1 DEF SInv, Workers
    <3>2. w # u /\ s # t
      BY <1>1, <2>1, <3>1 DEF LiveWorker, LiveShell
    <3>3. th'[s].pc = th[s].pc /\ th'[s].tgt = th[s].tgt /\ th'[w].join_waiter = th[w].join_waiter
      BY ONLY <1>2, <3>2, w \in User, s \in User DEF Blocks
    <3> QED
      BY <1>3, <3>1, <3>3
  <2>2. ASSUME NEW s \in User, th'[s].prog = "shell", th'[s].pc = "join"
        PROVE  \E w \in User : th'[s].tgt = w /\ th'[w].prog = "sh-cmd" /\ th'[w].join_waiter = NoTid
    <3>1. s # t /\ th[s].prog = "shell" /\ th[s].pc = "join" /\ th'[s].tgt = th[s].tgt
      BY ONLY <1>1, <1>2, <2>2 DEF Blocks
    <3>2. PICK w \in User : th[s].tgt = w /\ th[w].prog = "sh-cmd" /\ th[w].join_waiter = NoTid
      BY <3>1 DEF SInv, Workers
    <3>3. w # u
      BY <1>1, <3>2
    <3>4. th'[w].prog = "sh-cmd" /\ th'[w].join_waiter = NoTid
      BY ONLY <1>2, <3>2, <3>3 DEF Blocks
    <3> QED
      BY <3>1, <3>2, <3>4
  <2>3. \A w, x \in User : LiveWorker(w) /\ LiveWorker(x) => w = x
    BY DEF SInv, Workers
  <2> QED
    BY ONLY <1>3, <2>1, <2>2, <2>3 DEF Workers
<1> QED
  BY <1>3, <1>4, <1>7, <1>8, <1>9 DEF SInv

\* main_join preserves the invariant.
LEMMA MainJoinStep ==
  ASSUME SInv, NEW t \in User, main_join(t)
  PROVE  SInv'
<1>1. AtCall(t, "user_main", "join") /\ UNCHANGED tables
  BY DEF main_join
<1>2. PICK u \in User : th[t].tgt = u /\ th[u].prog = "shell"
  BY <1>1, MainJoinFacts
<1>3. th' = [thread_join(th, t, u) EXCEPT ![t].pc = "start", ![t].tgt = NoTid]
  BY <1>2 DEF main_join
<1>4. th[u].state \in {"READY", "WAITING"} \/ th[u].state = "ZOMBIE"
  <2>1. u \in Tid /\ th[u] \in Thread /\ th[u].state # "UNUSED"
    BY <1>2, Tids DEF SInv, Types, Fixed
  <2> QED
    BY ONLY <2>1 DEF Thread
<1> QED
  BY ONLY SInv, t \in User, <1>1, <1>2, <1>3, <1>4, MainJoinReaps, MainWaits

\* A shell waits for a worker that runs.
LEMMA ShellWaits ==
  ASSUME SInv, NEW t \in User, AtCall(t, "shell", "join"), UNCHANGED tables, NEW u \in User, th[t].tgt = u,
         th[u].state \in {"READY", "WAITING"},
         th' = [thread_join(th, t, u) EXCEPT ![t].pc = "prompt", ![t].tgt = NoTid]
  PROVE  SInv'
<1>1. /\ t # M /\ th[t].state = "READY" /\ th[t].prog = "shell" /\ th[t].pc = "join" /\ LiveShell(t)
      /\ \A v \in User : v # t => ~ LiveShell(v)
      /\ \A v \in User : th[v].join_waiter # t
      /\ th[u].prog = "sh-cmd" /\ th[u].join_waiter = NoTid /\ u # t /\ u # M
      /\ \A v \in User : LiveWorker(v) => v = u
  BY ShellJoinFacts
<1>2. Blocks(t, u)
  <2>1. PICK pc \in Pcs : pc = "prompt"
    BY DEF Pcs
  <2>2. pc = (IF th[t].prog = "shell" THEN "prompt" ELSE "start") /\ th[t].prog \in {"user_main", "shell"}
    BY ONLY <1>1, <2>1
  <2>3. th' = [thread_join(th, t, u) EXCEPT ![t].pc = pc, ![t].tgt = NoTid]
    BY ONLY <2>1, th' = [thread_join(th, t, u) EXCEPT ![t].pc = "prompt", ![t].tgt = NoTid]
  <2> QED
    BY ONLY SInv, t \in User, u \in User, th[u].state \in {"READY", "WAITING"}, <1>1, <2>2, <2>3, BlocksEffect
<1>3. /\ \A v \in User : (LiveWorker(v)' <=> LiveWorker(v)) /\ (LiveShell(v)' <=> LiveShell(v))
      /\ Types' /\ ShellAt' /\ Spawned' /\ Number' /\ Slots' /\ WorkerAt' /\ Monitors'
  BY ONLY SInv, UNCHANGED tables, <1>2, BlocksRest
<1>4. Fixed'
  BY ONLY SInv, <1>1, <1>2, BlocksFixed
<1>5. LiveWorker(u)
  BY <1>1 DEF LiveWorker
<1>6. th'[t].state = "WAITING" /\ th'[t].prog = "shell" /\ th'[u].join_waiter = t /\ th'[t].pc = "prompt"
  BY ONLY <1>1, <1>2 DEF Blocks
<1>7. Joins'
  <2> SUFFICES ASSUME NEW v \in User, NEW x \in User, th'[v].join_waiter = x
               PROVE  \/ LiveShell(v)' /\ x = M /\ th'[M].state \in {"WAITING", "ZOMBIE"} /\ th'[M].pc = "start"
                      \/ LiveWorker(v)' /\ th'[x].prog = "shell" /\ th'[x].state = "WAITING"
    BY DEF Joins
  <2>1. CASE v = u
    BY ONLY <1>3, <1>5, <1>6, <2>1, th'[v].join_waiter = x, v \in User
  <2>2. CASE v # u
    <3>1. th[v].join_waiter = x
      BY ONLY <1>2, <2>2, th'[v].join_waiter = x, v \in User DEF Blocks
    <3>2. \/ LiveShell(v) /\ x = M /\ th[M].state \in {"WAITING", "ZOMBIE"} /\ th[M].pc = "start"
          \/ LiveWorker(v) /\ th[x].prog = "shell" /\ th[x].state = "WAITING"
      BY <3>1 DEF SInv, Joins
    <3>3. x # t
      BY <1>1, <3>1
    <3>4. th'[x].prog = th[x].prog /\ th'[x].state = th[x].state /\ th'[x].pc = th[x].pc
      BY ONLY <1>2, <3>3, x \in User DEF Blocks
    <3> QED
      BY ONLY <1>3, <3>2, <3>4, v \in User
  <2> QED
    BY <2>1, <2>2
<1>8. Shells'
  <2>1. th'[M].pc = th[M].pc /\ th'[M].tgt = th[M].tgt
    BY ONLY <1>1, <1>2, Tids DEF Blocks
  <2>2. \A v \in User : LiveShell(v) => th'[v].join_waiter = th[v].join_waiter
    BY ONLY <1>1, <1>2 DEF Blocks, LiveShell
  <2>3. ASSUME th[M].pc = "join"
        PROVE  \E s \in User : th'[M].tgt = s /\ th'[s].prog = "shell" /\ th'[s].join_waiter = NoTid
    <3>1. PICK s \in User : th[M].tgt = s /\ th[s].prog = "shell" /\ th[s].join_waiter = NoTid
      BY <2>3 DEF SInv, Shells
    <3>2. th'[s].prog = "shell" /\ th'[s].join_waiter = NoTid
      BY ONLY <1>1, <1>2, <3>1 DEF Blocks
    <3> QED
      BY <2>1, <3>1, <3>2
  <2>4. \A v \in User : LiveShell(v) => (th[M].pc = "join" /\ th[M].tgt = v) \/ th[v].join_waiter = M
    BY DEF SInv, Shells
  <2>5. \A v, x \in User : LiveShell(v) /\ LiveShell(x) => v = x
    BY ONLY <1>1
  <2> QED
    BY ONLY <1>3, <2>1, <2>2, <2>3, <2>4, <2>5 DEF Shells
<1>9. Workers'
  <2>1. ASSUME NEW s \in User, th'[s].prog = "shell" PROVE th'[s].pc # "join"
    <3>1. CASE s = t
      BY <1>6, <3>1
    <3>2. CASE s # t
      <4>1. th[s].prog = "shell" /\ th'[s].pc = th[s].pc
        BY ONLY <1>2, <2>1, <3>2 DEF Blocks
      <4> QED
        BY <1>1, <3>2, <4>1 DEF SInv, ShellAt, LiveShell
    <3> QED
      BY <3>1, <3>2
  <2> QED
    BY ONLY t \in User, <1>1, <1>3, <1>6, <2>1 DEF Workers
<1> QED
  BY <1>3, <1>4, <1>7, <1>8, <1>9 DEF SInv

\* shell_join preserves the invariant.
LEMMA ShellJoinStep ==
  ASSUME SInv, NEW t \in User, shell_join(t)
  PROVE  SInv'
<1>1. AtCall(t, "shell", "join") /\ UNCHANGED tables
  BY DEF shell_join
<1>2. PICK u \in User : th[t].tgt = u /\ th[u].prog = "sh-cmd"
  BY <1>1, ShellJoinFacts
<1>3. th' = [thread_join(th, t, u) EXCEPT ![t].pc = "prompt", ![t].tgt = NoTid]
  BY <1>2 DEF shell_join
<1>4. th[u].state \in {"READY", "WAITING"} \/ th[u].state = "ZOMBIE"
  <2>1. u \in Tid /\ th[u] \in Thread /\ th[u].state # "UNUSED"
    BY <1>2, Tids DEF SInv, Types, Fixed
  <2> QED
    BY ONLY <2>1 DEF Thread
<1> QED
  BY ONLY SInv, t \in User, <1>1, <1>2, <1>3, <1>4, ShellJoinReaps, ShellWaits

\* The shell at its prompt ends: cmd_exit, or kill with its own tid.
LEMMA ShellEnds ==
  ASSUME SInv, NEW t \in User, AtCall(t, "shell", "prompt"), th' = Ended(th, t), UNCHANGED tables
  PROVE  SInv'
<1>1. /\ t # M /\ th[t].state = "READY" /\ th[t].prog = "shell" /\ th[t].pc = "prompt" /\ th[t] \in Thread /\ LiveShell(t)
      /\ \A v \in User : v # t => th[v].pc \notin ShellPcs /\ ~ LiveShell(v)
      /\ \A v \in User : ~ LiveWorker(v)
      /\ \A v \in User : th[v].join_waiter # t
  <2>1. PICK from : from = "prompt"
    OBVIOUS
  <2>2. AtCall(t, "shell", from) /\ from # "join"
    BY ONLY AtCall(t, "shell", "prompt"), <2>1
  <2>3. /\ t # M /\ th[t].state = "READY" /\ th[t].prog = "shell" /\ th[t].pc = from /\ th[t] \in Thread /\ LiveShell(t)
        /\ \A v \in User : v # t => th[v].pc \notin ShellPcs /\ ~ LiveShell(v)
        /\ \A v \in User : ~ LiveWorker(v)
        /\ \A v \in User : th[v].join_waiter # t
    BY ONLY SInv, t \in User, <2>2, ShellAlone
  <2> QED
    BY ONLY <2>1, <2>3
<1>2. NoTid \notin User /\ M \in User
  BY Tids
<1>3. "prompt" \notin ShellPcs /\ "none" \notin ShellPcs
  BY DEF ShellPcs, Killing
<1>4. \A v, x \in User : v # t => th[v].join_waiter # x
  BY <1>1 DEF SInv, Joins
<1>5. /\ th[t].join_waiter = M => th[M].pc = "start"
      /\ th[t].join_waiter = M \/ (th[t].join_waiter = NoTid /\ th[M].pc = "join" /\ th[M].tgt = t)
  <2>1. th[t].join_waiter \in User \cup {NoTid}
    BY ONLY <1>1 DEF Thread
  <2>2. th[t].join_waiter \in User => th[t].join_waiter = M
    BY <1>1 DEF SInv, Joins
  <2>3. th[t].join_waiter = M \/ (th[M].pc = "join" /\ th[M].tgt = t)
    BY <1>1 DEF SInv, Shells
  <2>4. th[t].join_waiter = M => th[M].pc = "start"
    BY <1>1, <1>2 DEF SInv, Joins
  <2> QED
    BY ONLY <2>1, <2>2, <2>3, <2>4
<1>6. PICK w : /\ Left(t, NoTid, w) /\ th'[t].prog \in {"shell", "none"} /\ w \in {M, NoTid}
               /\ w = M => th[M].pc = "start"
               /\ th'[t].prog = "shell" => th'[t].pc = "prompt"
               /\ w = NoTid => th'[t].prog = "shell" /\ th[M].pc = "join" /\ th[M].tgt = t
  <2>1. CASE th[t].join_waiter = M
    <3>1. th[t].state # "UNUSED" /\ th[t].prog \in {"shell", "sh-cmd"}
      BY ONLY <1>1
    <3>2. Left(t, NoTid, M) /\ th'[t] = Unused
      BY ONLY SInv, t \in User, <1>1, <1>2, <2>1, <3>1, th' = Ended(th, t), ReleaseEffect
    <3>3. th'[t].prog = "none"
      BY ONLY <3>2, UnusedIsThread
    <3>4. M # NoTid
      BY ONLY <1>2
    <3> QED
      BY ONLY <1>5, <2>1, <3>2, <3>3, <3>4
  <2>2. CASE th[t].join_waiter # M
    <3>1. th[t].state # "UNUSED" /\ th[t].prog \in {"shell", "sh-cmd"} /\ th[t].pc \in {"prompt", "exit"}
      BY ONLY <1>1
    <3>2. Left(t, NoTid, NoTid) /\ th'[t].prog = th[t].prog /\ th'[t].pc = th[t].pc
      BY ONLY SInv, t \in User, <1>5, <2>2, <3>1, th' = Ended(th, t), ZombieEffect
    <3>4. M # NoTid
      BY ONLY <1>2
    <3> QED
      BY ONLY <1>1, <1>5, <2>2, <3>2, <3>4
  <2> QED
    BY <2>1, <2>2
<1>7. \A v \in User : ~ LiveShell(v)' /\ ~ LiveWorker(v)'
  BY ONLY SInv, <1>1, <1>6, LeftLive DEF SInv
<1>8. th'[M].pc = th[M].pc /\ th'[M].tgt = th[M].tgt /\ th'[M].pc \in {"start", "join"}
  <2>1. th[M].pc \in {"start", "join"}
    BY DEF SInv, Fixed
  <2>2. M \notin {t, NoTid}
    BY ONLY <1>1, <1>2
  <2> QED
    BY ONLY <1>2, <1>6, <2>1, <2>2 DEF Left
<1>9. Fixed' /\ Joins'
  <2>1. \A v \in User : v # t => th[v].join_waiter # t
    BY <1>1
  <2>2. w \in User => \A v \in User : v # t => th[v].join_waiter # w
    BY ONLY <1>4
  <2> QED
    BY ONLY SInv, <1>6, <1>8, <2>1, <2>2, LeftFixed, LeftJoins DEF SInv
<1>10. Shells' /\ Workers'
  <2>1. th'[M].pc = "join" => \E s \in User : th'[M].tgt = s /\ th'[s].prog = "shell" /\ th'[s].join_waiter = NoTid
    <3>1. th'[M].pc = "join" => w = NoTid
      BY ONLY <1>6, <1>8
    <3>2. th'[t].join_waiter = NoTid
      BY ONLY <1>6 DEF Left
    <3> QED
      BY ONLY <1>6, <1>8, <3>1, <3>2, t \in User
  <2>2. ASSUME NEW v \in User, th'[v].prog = "shell" PROVE th'[v].pc # "join"
    <3>1. CASE v = t
      BY ONLY <1>6, <3>1 DEF Left
    <3>2. CASE v # t
      <4>1. th[v].prog = "shell" /\ th'[v].pc = th[v].pc
        BY ONLY <1>2, <1>6, <2>2, <3>2 DEF Left
      <4> QED
        BY <1>1, <3>2, <4>1 DEF SInv, ShellAt, LiveShell
    <3> QED
      BY <3>1, <3>2
  <2> QED
    BY ONLY <1>7, <2>1, <2>2 DEF Shells, Workers
<1>11. ShellAt'
  BY ONLY SInv, <1>2, <1>6, LeftShellAt DEF SInv
<1>12. Types' /\ Spawned' /\ Number' /\ Slots' /\ WorkerAt' /\ Monitors'
  <2>1. /\ \A v \in User : v # t /\ v # NoTid => th[v].pc \notin ShellPcs
        /\ th[t].pc \notin ShellPcs /\ th[t].prog \notin {"spawn", "monitor"}
        /\ \A c \in User : ~ LiveWorker(c)'
        /\ \A c \in User : LiveWorker(c) => th[c].pc \notin {"copy", "mon record", "mon kill"}
    BY ONLY <1>1, <1>3, <1>7
  <2>2. w \in User => th[w].prog # "monitor"
    BY <1>2, <1>6 DEF SInv, Fixed
  <2> QED
    BY ONLY SInv, UNCHANGED tables, <1>2, <1>6, <2>1, <2>2, LeftQuiet
<1> QED
  BY <1>9, <1>10, <1>11, <1>12 DEF SInv

\* A worker has done its command.
LEMMA WorkerExits ==
  ASSUME SInv, NEW t \in User, AtCall(t, "sh-cmd", "exit"), th' = Ended(th, t), UNCHANGED tables
  PROVE  SInv'
<1>1. /\ t # M /\ th[t].state = "READY" /\ th[t].prog = "sh-cmd" /\ th[t].pc = "exit" /\ th[t] \in Thread /\ LiveWorker(t)
      /\ \A v \in User : v # t => ~ LiveWorker(v)
      /\ \A v \in User : th[v].pc \notin ShellPcs
  BY ONLY SInv, t \in User, AtCall(t, "sh-cmd", "exit"), WorkerAlone
<1>2. NoTid \notin User /\ M \in User
  BY Tids
<1>3. th[t].join_waiter \in User \cup {NoTid}
  BY ONLY <1>1 DEF Thread
<1>4. ASSUME NEW w \in User, th[t].join_waiter = w
      PROVE  /\ th[w].prog = "shell" /\ th[w].state = "WAITING"
             /\ \A v \in User : v # t => th[v].join_waiter # w
  <2>1. th[w].prog = "shell" /\ th[w].state = "WAITING"
    BY <1>1, <1>4 DEF SInv, Joins, LiveShell
  <2>2. w # M
    BY <2>1 DEF SInv, Fixed
  <2> QED
    BY <1>1, <2>1, <2>2 DEF SInv, Joins
<1>5. \A v \in User : th[v].join_waiter # t
  BY <1>1 DEF SInv, Joins
<1>6. PICK w : /\ Left(t, NoTid, w) /\ w \in User \cup {NoTid} /\ w = th[t].join_waiter
               /\ w = NoTid => th'[t].prog = "sh-cmd"
               /\ th'[t].prog # "shell"
  <2>1. CASE th[t].join_waiter \in User
    <3>1. PICK w \in User : w = th[t].join_waiter
      BY <2>1
    <3>2. th[t].state # "UNUSED" /\ th[t].prog \in {"shell", "sh-cmd"} /\ t # w /\ th[w].state = "WAITING"
      BY <1>1, <1>4, <3>1
    <3>3. Left(t, NoTid, w) /\ th'[t] = Unused
      BY ONLY SInv, t \in User, <3>1, <3>2, th' = Ended(th, t), ReleaseEffect
    <3>4. th'[t].prog = "none"
      BY ONLY <3>3, UnusedIsThread
    <3> QED
      BY ONLY <1>2, <3>1, <3>3, <3>4
  <2>2. CASE th[t].join_waiter = NoTid
    <3>1. th[t].state # "UNUSED" /\ th[t].prog \in {"shell", "sh-cmd"} /\ th[t].pc \in {"prompt", "exit"}
      BY ONLY <1>1
    <3>2. Left(t, NoTid, NoTid) /\ th'[t].prog = th[t].prog
      BY ONLY SInv, t \in User, <2>2, <3>1, th' = Ended(th, t), ZombieEffect
    <3> QED
      BY ONLY <1>1, <2>2, <3>2
  <2> QED
    BY <1>3, <2>1, <2>2
<1>7. \A v \in User : ~ LiveWorker(v)'
  BY ONLY SInv, <1>1, <1>6, LeftLive DEF SInv
<1>8. th'[M].pc = th[M].pc /\ th'[M].pc \in {"start", "join"} /\ M # NoTid
  <2>1. th[M].pc \in {"start", "join"}
    BY DEF SInv, Fixed
  <2>2. M \notin {t, NoTid}
    BY ONLY <1>1, <1>2
  <2> QED
    BY ONLY <1>2, <1>6, <2>1, <2>2 DEF Left
<1>9. Fixed' /\ Joins' /\ Shells'
  <2>1. \A v \in User : v # t => th[v].join_waiter # t
    BY ONLY <1>5
  <2>2. w \in User => \A v \in User : v # t => th[v].join_waiter # w
    BY <1>4, <1>6
  <2>3. th[t].prog # "shell" /\ NoTid # M
    BY ONLY <1>1, <1>8
  <2> QED
    BY ONLY SInv, <1>6, <1>8, <2>1, <2>2, <2>3, LeftFixed, LeftJoins, LeftShells DEF SInv
<1>10. Workers'
  <2>1. ASSUME NEW s \in User, th'[s].prog = "shell", th'[s].pc = "join"
        PROVE  \E x \in User : th'[s].tgt = x /\ th'[x].prog = "sh-cmd" /\ th'[x].join_waiter = NoTid
    <3>1. s # t /\ th[s].prog = "shell" /\ th[s].pc = "join" /\ th'[s].tgt = th[s].tgt
      <4>1. s # t
        BY ONLY <1>6, <2>1
      <4> QED
        BY ONLY <1>2, <1>6, <2>1, <4>1 DEF Left
    <3>2. LiveShell(s) /\ th[s].state = "READY"
      BY <3>1 DEF SInv, ShellAt, LiveShell
    <3>3. w \notin User
      <4> SUFFICES ASSUME w \in User PROVE FALSE
        OBVIOUS
      <4>1. th[w].prog = "shell" /\ th[w].state = "WAITING"
        BY <1>4, <1>6
      <4>2. LiveShell(w)
        BY ONLY <4>1 DEF LiveShell
      <4>3. w = s
        BY <3>2, <4>2 DEF SInv, Shells
      <4> QED
        BY ONLY <3>2, <4>1, <4>3
    <3>4. PICK x \in User : th[s].tgt = x /\ th[x].prog = "sh-cmd" /\ th[x].join_waiter = NoTid
      BY <3>1 DEF SInv, Workers
    <3>5. th'[x].prog = "sh-cmd" /\ th'[x].join_waiter = NoTid
      <4>1. CASE x = t
        BY ONLY <1>6, <3>3, <4>1 DEF Left
      <4>2. CASE x # t
        BY ONLY <1>6, <3>4, <4>2 DEF Left
      <4> QED
        BY <4>1, <4>2
    <3> QED
      BY ONLY <3>1, <3>4, <3>5
  <2> QED
    BY ONLY <1>7, <2>1 DEF Workers
<1>11. ShellAt'
  BY ONLY SInv, <1>2, <1>6, LeftShellAt DEF SInv
<1>12. Types' /\ Spawned' /\ Number' /\ Slots' /\ WorkerAt' /\ Monitors'
  <2>1. /\ \A v \in User : v # t /\ v # NoTid => th[v].pc \notin ShellPcs
        /\ th[t].pc \notin ShellPcs /\ th[t].prog \notin {"spawn", "monitor"}
    BY ONLY <1>1, t \in User
  <2>2. w \in User => th[w].prog # "monitor"
    BY <1>4, <1>6
  <2>3. \A c \in User : LiveWorker(c) => th[c].pc \notin {"copy", "mon record", "mon kill"}
    BY ONLY <1>1
  <2> QED
    BY ONLY SInv, UNCHANGED tables, <1>2, <1>6, <1>7, <2>1, <2>2, <2>3, LeftQuiet
<1> QED
  BY <1>9, <1>10, <1>11, <1>12 DEF SInv

\* thread_exit preserves the invariant.
LEMMA ThreadExitStep ==
  ASSUME SInv, NEW t \in User, thread_exit(t)
  PROVE  SInv'
BY WorkerExits, MonitorExits DEF thread_exit

\* cmd_kill preserves the invariant, whatever the program it is given.
LEMMA CmdKillStep ==
  ASSUME SInv, NEW t \in User, cmd_kill(t)
  PROVE  SInv'
<1>1. AtCall(t, "shell", "prompt") /\ UNCHANGED tables
  BY DEF cmd_kill
<1>2. PICK u \in User : th' = IF u = t THEN Ended(th, t) ELSE thread_kill(th, t, u)
  BY DEF cmd_kill
<1>3. CASE u = t
  BY <1>1, <1>2, <1>3, ShellEnds
<1>4. CASE u # t
  BY <1>1, <1>2, <1>4, CmdKillOther
<1> QED
  BY <1>3, <1>4

\* cmd_exit preserves the invariant.
LEMMA CmdExitStep ==
  ASSUME SInv, NEW t \in User, cmd_exit(t)
  PROVE  SInv'
BY ShellEnds DEF cmd_exit

\* Every step preserves the invariant.
LEMMA NextStep ==
  ASSUME SInv, StopsMonitors, [ShellNext]_shell_vars
  PROVE  SInv'
<1>1. CASE UNCHANGED shell_vars
  BY <1>1, Stutter
<1>2. ASSUME NEW t \in User, UserStep(t) PROVE SInv'
  BY <1>2, MainStartStep, MainJoinStep, SpawnAddStep, SpawnKillNextStep, SpawnKillJoinStep, SpawnKillClearStep,
     RunCommandStep, ShellJoinStep, CmdWorkerStep, ThreadExitStep, MonStartStep, MonRecordStep, MonStopStep,
     MonStopKillStep, MonStopJoinStep, MonStopClearStep, MonitorCheckStep, MonitorReportStep, Zenon DEF UserStep
<1>3. ASSUME NEW t \in User, Typed(t) PROVE SInv'
  BY <1>3, CmdKillStep, CmdExitStep, SpawnStep, SpawnKillStep, ProcAllocStep DEF Typed
<1> QED
  BY <1>1, <1>2, <1>3 DEF ShellNext

----------------------------------------------------------------------------
(* The invariant and what follows from it.                                 *)

\* It holds when user_main starts.
LEMMA InitSInv ==
  ASSUME ShellInit
  PROVE  SInv
<1>1. PICK r : r = [Unused EXCEPT !.state = "READY", !.prog = "user_main", !.pc = "start"]
  OBVIOUS
<1>2. PICK i : i = [Unused EXCEPT !.state = "READY", !.prog = "idle"]
  OBVIOUS
<1>3. PICK c \in Cmd : c = NoCmd
  BY NoCmdIsCmd
<1>4. Unused = [state |-> "UNUSED", join_waiter |-> NoTid, prog |-> "none", arg |-> NoTid,
                pc |-> "none", tgt |-> NoTid, slot |-> NoTid, cmd |-> c]
  BY <1>3 DEF Unused
<1>5. r \in Thread /\ r.state = "READY" /\ r.join_waiter = NoTid /\ r.prog = "user_main" /\ r.pc = "start"
  BY ONLY <1>1, <1>4, Tids DEF Thread, Programs, Pcs
<1>6. i \in Thread /\ i.state = "READY" /\ i.prog = "idle"
  BY ONLY <1>2, <1>4, Tids DEF Thread, Programs, Pcs
<1>7. th = [t \in Tid |-> IF t \in Idle THEN i ELSE IF t = MAX_HARTS THEN r ELSE Unused]
  BY ONLY ShellInit, <1>1, <1>2 DEF ShellInit
<1>8. /\ th \in [Tid -> Thread] /\ th[M] = r /\ \A t \in Idle : th[t] = i
      /\ \A t \in User : t # M => th[t] = Unused
  BY ONLY <1>5, <1>6, <1>7, Tids, UnusedIsThread DEF M
<1>9. /\ th[M].state = "READY" /\ th[M].join_waiter = NoTid /\ th[M].prog = "user_main" /\ th[M].pc = "start"
      /\ \A t \in Idle : th[t].state = "READY"
      /\ \A t \in User : t # M =>
           th[t].state = "UNUSED" /\ th[t].join_waiter = NoTid /\ th[t].prog = "none" /\ th[t].pc = "none"
  BY ONLY <1>5, <1>6, <1>8, UnusedIsThread
<1>10. PICK q : q = [used |-> 0, tid |-> NoTid, remaining |-> 0]
  OBVIOUS
<1>11. q \in Monitor /\ q.used = 0
  BY ONLY <1>10 DEF Monitor
<1>12. /\ g_procs = [p \in Proc |-> c] /\ s_spawn_tid = [w \in Wid |-> NoTid] /\ s_spawn_active = 0
       /\ g_mons = [m \in Mon |-> q]
  BY ONLY ShellInit, <1>3, <1>10 DEF ShellInit
<1>13. Types
  BY ONLY <1>8, <1>11, <1>12, c \in Cmd DEF Types
<1>14. Fixed /\ Joins
  BY ONLY <1>9, Tids DEF Fixed, Joins
<1>15. \A t \in User : th[t].prog \in {"none", "user_main"} /\ ~ LiveShell(t) /\ ~ LiveWorker(t) /\ th[t].pc \in {"none", "start"}
  BY ONLY <1>9 DEF LiveShell, LiveWorker
<1>16. Shells /\ Workers
  BY ONLY <1>9, <1>15 DEF Shells, Workers
<1>17. ShellAt
  BY ONLY <1>15 DEF ShellAt, Killing
<1>18. \A w \in Wid : s_spawn_tid[w] = NoTid
  BY ONLY <1>12
<1>19. Spawned
  BY ONLY <1>15, <1>18, Tids DEF Spawned, Entries, Listed, Cleared, Killed, Reclaimed
<1>20. Number
  <2>1. Used = {}
    BY ONLY <1>18 DEF Used
  <2> QED
    BY ONLY <1>12, <2>1, FS_EmptySet DEF Number
<1>21. Slots
  BY ONLY <1>3, <1>12, NoCmdIsCmd DEF Slots
<1>22. WorkerAt
  BY ONLY <1>15 DEF WorkerAt
<1>23. \A m \in Mon : g_mons[m].used # 1
  BY ONLY <1>11, <1>12, ZeroOne
<1>24. Monitors
  BY ONLY <1>15, <1>23 DEF Monitors
<1> QED
  BY ONLY <1>13, <1>14, <1>16, <1>17, <1>19, <1>20, <1>21, <1>22, <1>24 DEF SInv

\* The user programs keep to SInv, for every number of threads, processes,
\* spawn entries and monitors, whatever is typed, but for a mon stop of a
\* thread that is no monitor (user/main.c, shell.c, spawn.c, monitor.c).
THEOREM ShellInvariant ==
  ASSUME StopsMonitors
  PROVE  ShellSpec => []SInv
<1>1. ShellInit => SInv
  BY InitSInv
<1>2. SInv /\ [ShellNext]_shell_vars => SInv'
  BY NextStep
<1> QED
  BY <1>1, <1>2, PTL DEF ShellSpec

\* At most one shell is alive (user_main, user/main.c): however a shell ends,
\* also by its own command kill, user_main starts the next one only after it.
THEOREM ShellUnique ==
  ASSUME StopsMonitors
  PROVE  ShellSpec => []OneShell
<1>1. SInv => OneShell
  <2> SUFFICES ASSUME SInv PROVE OneShell
    OBVIOUS
  <2>1. PICK S : S = {t \in User : Live(t) /\ th[t].prog = "shell"}
    OBVIOUS
  <2>2. \A s, u \in S : s = u
    <3>1. \A s \in S : s \in User /\ LiveShell(s)
      BY ONLY <2>1 DEF Live, LiveShell
    <3> QED
      BY <3>1 DEF SInv, Shells
  <2>3. CASE S = {}
    BY <2>1, <2>3, FS_EmptySet DEF OneShell
  <2>4. CASE S # {}
    <3>1. PICK s : S = {s}
      BY <2>2, <2>4
    <3>2. Cardinality(S) = 1
      BY ONLY <3>1, FS_Singleton
    <3> QED
      BY <2>1, <3>2 DEF OneShell
  <2> QED
    BY <2>3, <2>4
<1> QED
  BY <1>1, ShellInvariant, PTL

\* No path through shell_run_command and shell_cmd_worker (user/shell.c)
\* keeps a slot of g_procs that no thread is going to free.
THEOREM CommandSlotsReturned ==
  ASSUME StopsMonitors
  PROVE  ShellSpec => []ProcSlotsReturned
<1>1. SInv => ProcSlotsReturned
  BY DEF SInv, Slots, InUse, LiveShell, LiveWorker, ProcSlotsReturned, Live
<1> QED
  BY <1>1, ShellInvariant, PTL

\* The tids of s_spawn_cfg (user/spawn.c) are never stale: the command kill
\* leaves a zombie, whose tid is reused only when spawn kill has joined it, and
\* the entry is cleared before anything else is created.
THEOREM SpawnTableTrue ==
  ASSUME StopsMonitors
  PROVE  ShellSpec => []SpawnTargetsOwn
<1>1. SInv => SpawnTargetsOwn
  <2> SUFFICES ASSUME SInv, NEW w \in Wid, s_spawn_tid[w] # NoTid
               PROVE  \/ /\ th[s_spawn_tid[w]].state # "UNUSED" /\ th[s_spawn_tid[w]].prog = "spawn"
                         /\ th[s_spawn_tid[w]].arg = w
                      \/ \E t \in User : AtCall(t, "shell", "spawn clear") /\ th[t].slot = w
    BY DEF SpawnTargetsOwn
  <2>1. PICK u \in User : u = s_spawn_tid[w]
    BY DEF SInv, Types
  <2>2. CASE th[u].prog = "spawn" /\ th[u].arg = w
    BY <2>1, <2>2 DEF SInv, Fixed
  <2>3. CASE \E t \in User : th[t].prog = "shell" /\ th[t].pc = "spawn clear" /\ th[t].slot = w
    BY <2>3 DEF SInv, ShellAt, AtCall
  <2> QED
    BY <2>1, <2>2, <2>3 DEF SInv, Spawned, Entries
<1> QED
  BY <1>1, ShellInvariant, PTL

\* A monitor in its loop owns its slot of g_mons (user/monitor.c), whatever
\* mon start, mon stop and the countdowns of other monitors do meanwhile.
THEOREM MonitorsOwnSlots ==
  ASSUME StopsMonitors
  PROVE  ShellSpec => []MonitorsAccounted
<1>1. SInv => MonitorsAccounted
  <2> SUFFICES ASSUME SInv, NEW t \in User, Live(t), th[t].prog = "monitor", th[t].pc # "exit"
               PROVE  \/ g_mons[th[t].arg].used = 1 /\ g_mons[th[t].arg].tid = t
                      \/ \E c \in User : /\ th[c].prog = "sh-cmd" /\ th[c].slot = th[t].arg
                                         /\ \/ th[c].pc = "mon record" /\ th[c].tgt = t
                                            \/ th[c].pc = "mon kill" /\ th[c].cmd.tid = t
    BY DEF MonitorsAccounted
  <2>1. Owned(t)
    BY DEF SInv, Monitors, Live
  <2> QED
    BY <2>1 DEF Owned, LiveWorker
<1> QED
  BY <1>1, ShellInvariant, PTL

\* The threads in use below t.
Below(t) == {u \in 0 .. t - 1 : th[u].state # "UNUSED"}

\* They are finitely many.
LEMMA BelowFinite ==
  ASSUME NEW t \in Nat
  PROVE  IsFiniteSet(Below(t)) /\ Cardinality(Below(t)) \in Nat
<1>1. IsFiniteSet(0 .. t - 1) /\ Below(t) \subseteq 0 .. t - 1
  BY FS_Interval DEF Below
<1> QED
  BY <1>1, FS_Subset, FS_CardinalityType

\* The greatest element of a set of numbers below t.
LEMMA Greatest ==
  ASSUME NEW B, B # {}, NEW t \in Nat, B \subseteq 0 .. t - 1
  PROVE  \E g \in B : \A u \in B : u <= g
<1>1. PICK F : F = {n \in Nat : \A u \in B : u < n}
  OBVIOUS
<1>2. F \subseteq Nat /\ t \in F
  BY <1>1
<1>3. PICK n \in F : \A m \in F : n <= m
  BY ONLY <1>2, Least
<1>4. n \in Nat /\ \A u \in B : u < n
  BY <1>1
<1>5. \E b \in B : b \in Nat
  <2>1. PICK b : b \in B
    OBVIOUS
  <2>2. b \in 0 .. t - 1
    BY <2>1
  <2> QED
    BY <2>1, <2>2
<1>6. n - 1 \in Nat /\ n - 1 \notin F
  <2>1. n - 1 \in Nat
    BY <1>4, <1>5
  <2>2. ~ (n <= n - 1)
    BY <1>4
  <2> QED
    BY <1>3, <2>1, <2>2
<1>7. PICK g \in B : ~ (g < n - 1)
  BY <1>1, <1>6
<1>8. g = n - 1
  BY <1>4, <1>7
<1> QED
  BY <1>4, <1>8

\* thread_sys_list leaves a thread out only when the buffer is full.
LEMMA ListingFull ==
  ASSUME NEW max \in Nat \ {0}, NEW t \in Tid, th[t].state # "UNUSED", t \notin thread_sys_list(max)
  PROVE  Cardinality(thread_sys_list(max)) = max
<1>1. PICK L : L = thread_sys_list(max)
  OBVIOUS
<1>2. \A u : u \in L <=> u \in Tid /\ th[u].state # "UNUSED" /\ Cardinality(Below(u)) < max
  BY ONLY <1>1 DEF thread_sys_list, Below
<1>3. Tid \subseteq Nat /\ \A u \in Nat, v \in Tid : u < v => u \in Tid
  BY ONLY ShellAssumption DEF Tid, Idle, User
<1>4. PICK F : F = {u \in Tid : th[u].state # "UNUSED" /\ u \notin L}
  OBVIOUS
<1>5. F \subseteq Nat /\ t \in F
  BY <1>1, <1>3, <1>4
<1>6. PICK n \in F : \A m \in F : n <= m
  BY ONLY <1>5, Least
<1>7. n \in Tid /\ n \in Nat /\ th[n].state # "UNUSED" /\ n \notin L
  BY ONLY <1>3, <1>4, <1>6
<1>8. ~ (Cardinality(Below(n)) < max)
  BY ONLY <1>2, <1>7
<1>9. \A u : u \in L <=> u \in Below(n)
  <2>1. ASSUME NEW u \in Below(n) PROVE u \in L
    <3>1. u \in Nat /\ u < n /\ th[u].state # "UNUSED" /\ u \in Tid
      BY ONLY <1>3, <1>7, <2>1 DEF Below
    <3>2. u \notin F
      BY ONLY <1>6, <1>7, <3>1
    <3> QED
      BY ONLY <1>4, <3>1, <3>2
  <2>2. ASSUME NEW u \in L PROVE u \in Below(n)
    <3>1. u \in Tid /\ u \in Nat /\ th[u].state # "UNUSED" /\ Cardinality(Below(u)) < max
      BY ONLY <1>2, <1>3, <2>2
    <3>2. u < n
      <4> SUFFICES ASSUME ~ (u < n) PROVE FALSE
        OBVIOUS
      <4>1. Below(n) \subseteq Below(u)
        BY ONLY <1>7, <3>1, ~ (u < n) DEF Below
      <4>2. Cardinality(Below(n)) <= Cardinality(Below(u))
        BY ONLY <3>1, <4>1, BelowFinite, FS_Subset
      <4>3. Cardinality(Below(n)) \in Nat /\ Cardinality(Below(u)) \in Nat
        BY ONLY <1>7, <3>1, BelowFinite
      <4> QED
        BY ONLY <1>8, <3>1, <4>2, <4>3, max \in Nat \ {0}
    <3> QED
      BY ONLY <1>7, <3>1, <3>2 DEF Below
  <2> QED
    BY <2>1, <2>2
<1>10. L = Below(n)
  BY ONLY <1>9
<1>11. Below(n) # {}
  <2> SUFFICES ASSUME Below(n) = {} PROVE FALSE
    OBVIOUS
  <2>1. Cardinality(Below(n)) = 0
    BY FS_EmptySet
  <2> QED
    BY ONLY <1>8, <2>1, max \in Nat \ {0}
<1>12. PICK g \in Below(n) : \A u \in Below(n) : u <= g
  <2>1. Below(n) \subseteq 0 .. n - 1
    BY DEF Below
  <2> QED
    BY ONLY <1>7, <1>11, <2>1, Greatest
<1>13. g \in Nat /\ g < n /\ th[g].state # "UNUSED" /\ Cardinality(Below(g)) < max
  <2>1. g \in L
    BY ONLY <1>10, <1>12
  <2> QED
    BY ONLY <1>2, <1>3, <1>7, <1>12, <2>1 DEF Below
<1>14. Below(n) = Below(g) \cup {g} /\ g \notin Below(g)
  <2>1. g \notin Below(g)
    BY ONLY <1>13 DEF Below
  <2>2. \A u \in Below(n) : u \in Nat /\ u < n /\ th[u].state # "UNUSED" /\ (u < g \/ u = g)
    BY ONLY <1>7, <1>12, <1>13 DEF Below
  <2>3. Below(n) \subseteq Below(g) \cup {g}
    BY ONLY <1>13, <2>2 DEF Below
  <2>4. Below(g) \subseteq Below(n)
    BY ONLY <1>7, <1>13 DEF Below
  <2> QED
    BY ONLY <1>12, <2>1, <2>3, <2>4
<1>15. Cardinality(Below(n)) = Cardinality(Below(g)) + 1 /\ Cardinality(Below(g)) \in Nat
  BY ONLY <1>13, <1>14, BelowFinite, FS_AddElement
<1> QED
  BY ONLY <1>1, <1>8, <1>10, <1>13, <1>15, max \in Nat \ {0}

\* s_spawn_active (user/spawn.c) is the number of entries whenever a shell is
\* at its prompt, and ps (cmd_ps, user/shell.c) never leaves a thread out
\* without saying so, for every size of its buffer.
THEOREM ReportsAreTrue ==
  ASSUME StopsMonitors
  PROVE  ShellSpec => []ReportsTrue
<1>1. SInv => SpawnCounted
  <2> SUFFICES ASSUME SInv, NEW t \in User, AtCall(t, "shell", "prompt")
               PROVE  s_spawn_active = Cardinality({w \in Wid : s_spawn_tid[w] # NoTid})
    BY DEF SpawnCounted
  <2>1. \A v \in User : th[v].pc \notin Killing
    BY ShellAlone DEF ShellPcs, Killing
  <2> QED
    BY <2>1 DEF SInv, Number, Used
<1>2. ListingComplete
  <2>1. SHELL_THREAD_LIST_MAX \in Nat \ {0}
    BY ShellAssumption
  <2>2. ASSUME NEW t \in Tid, th[t].state # "UNUSED", t \notin thread_sys_list(SHELL_THREAD_LIST_MAX)
        PROVE  Cardinality(thread_sys_list(SHELL_THREAD_LIST_MAX)) = SHELL_THREAD_LIST_MAX
    BY <2>1, <2>2, ListingFull
  <2> QED
    BY <2>2 DEF ListingComplete, cmd_ps
<1>3. SInv => ReportsTrue
  BY <1>1, <1>2 DEF ReportsTrue
<1> QED
  BY <1>3, ShellInvariant, PTL

----------------------------------------------------------------------------
(* spawn kill.                                                             *)

\* A shell inside spawn kill takes no other step than the next one of it.
LEMMA OnlySpawnKill ==
  ASSUME NEW t \in User, AtCall(t, "shell", "spawn kill"), UserStep(t) \/ Typed(t)
  PROVE  spawn_kill_next(t)
<1>1. PICK from : from = "spawn kill"
  OBVIOUS
<1>2. th[t].prog = "shell" /\ th[t].pc = from
  BY <1>1 DEF AtCall
<1>3. ~ main_start(t) /\ ~ main_join(t) /\ ~ spawn_add(t) /\ ~ spawn_kill_join(t) /\ ~ spawn_kill_clear(t)
  BY <1>1, <1>2 DEF main_start, main_join, spawn_add, spawn_kill_join, spawn_kill_clear, AtCall
<1>4. ~ shell_run_command(t) /\ ~ shell_join(t) /\ ~ shell_cmd_worker(t) /\ ~ thread_exit(t)
  BY <1>1, <1>2 DEF shell_run_command, shell_join, shell_cmd_worker, thread_exit, AtCall
<1>5. ~ mon_start_ex(t) /\ ~ mon_record(t) /\ ~ mon_stop(t) /\ ~ mon_stop_kill(t)
  BY <1>1, <1>2 DEF mon_start_ex, mon_record, mon_stop, mon_stop_kill, AtCall
<1>6. ~ mon_stop_join(t) /\ ~ mon_stop_clear(t) /\ ~ monitor_check(t) /\ ~ monitor_report(t)
  BY <1>1, <1>2 DEF mon_stop_join, mon_stop_clear, monitor_check, monitor_report, AtCall
<1>7. ~ Typed(t)
  BY <1>1, <1>2 DEF Typed, cmd_kill, cmd_exit, spawn, spawn_kill, shell_proc_alloc, AtCall
<1> QED
  BY ONLY <1>3, <1>4, <1>5, <1>6, <1>7, UserStep(t) \/ Typed(t) DEF UserStep

\* While a shell is inside spawn kill, the other threads that take a step are
\* user_main, which joins it, and the monitors.
LEMMA OthersInSpawnKill ==
  ASSUME SInv, NEW t \in User, AtCall(t, "shell", "spawn kill"), NEW s \in User, s # t, UserStep(s) \/ Typed(s)
  PROVE  main_join(s) \/ monitor_check(s) \/ monitor_report(s) \/ (AtCall(s, "monitor", "exit") /\ thread_exit(s))
<1>1. ~ LiveShell(s) /\ ~ LiveWorker(s)
  BY ShellAlone
<1>2. \A pc : ~ AtCall(s, "shell", pc) /\ ~ AtCall(s, "sh-cmd", pc)
  BY <1>1 DEF AtCall, LiveShell, LiveWorker
<1>3. LiveShell(t)
  BY ShellAlone
<1>4. ~ AtCall(s, "user_main", "start")
  BY <1>3, MainAlone
<1>5. ~ main_start(s) /\ ~ spawn_add(s) /\ ~ spawn_kill_next(s) /\ ~ spawn_kill_join(s) /\ ~ spawn_kill_clear(s)
  BY ONLY <1>2, <1>4 DEF main_start, spawn_add, spawn_kill_next, spawn_kill_join, spawn_kill_clear
<1>6. ~ shell_run_command(s) /\ ~ shell_join(s) /\ ~ shell_cmd_worker(s)
  BY ONLY <1>2 DEF shell_run_command, shell_join, shell_cmd_worker
<1>7. ~ mon_start_ex(s) /\ ~ mon_record(s) /\ ~ mon_stop(s) /\ ~ mon_stop_kill(s)
  BY ONLY <1>2 DEF mon_start_ex, mon_record, mon_stop, mon_stop_kill
<1>8. ~ mon_stop_join(s) /\ ~ mon_stop_clear(s)
  BY ONLY <1>2 DEF mon_stop_join, mon_stop_clear
<1>9. ~ Typed(s)
  BY ONLY <1>2 DEF Typed, cmd_kill, cmd_exit, spawn, spawn_kill, shell_proc_alloc
<1>10. thread_exit(s) => AtCall(s, "monitor", "exit")
  BY ONLY <1>2 DEF thread_exit
<1> QED
  BY ONLY <1>5, <1>6, <1>7, <1>8, <1>9, <1>10, UserStep(s) \/ Typed(s) DEF UserStep

\* None of them moves the shell.
LEMMA SpawnKillUndisturbed ==
  ASSUME SInv, NEW t \in User, AtCall(t, "shell", "spawn kill"), NEW s \in User, s # t, UserStep(s) \/ Typed(s)
  PROVE  th'[t].pc = th[t].pc
<1>1. t \in Tid /\ s \in Tid /\ th \in [Tid -> Thread] /\ th[t].state = "READY"
  BY ShellAlone, Tids DEF SInv, Types
<1>2. CASE main_join(s)
  <2>1. AtCall(s, "user_main", "join")
    BY <1>2 DEF main_join
  <2>2. PICK u \in User : /\ th[s].tgt = u /\ th[u].join_waiter = NoTid /\ u # s
                          /\ \A v \in User : LiveShell(v) => v = u
    BY <2>1, MainJoinFacts
  <2>3. u = t
    BY <2>2, ShellAlone
  <2>4. thread_join(th, s, t) = [th EXCEPT ![s].state = "WAITING", ![t].join_waiter = s]
    <3>1. th[t].state = "READY" /\ th[t].join_waiter = NoTid
      BY ONLY <1>1, <2>2, <2>3
    <3>2. join_rc(th, s, t) = 0
      BY ONLY <3>1, s # t DEF join_rc
    <3>3. ~ (join_rc(th, s, t) < 0) /\ th[t].state # "ZOMBIE"
      BY ONLY <3>1, <3>2
    <3> QED
      BY ONLY <3>3 DEF thread_join
  <2>5. th' = [[th EXCEPT ![s].state = "WAITING", ![t].join_waiter = s] EXCEPT ![s].pc = "start", ![s].tgt = NoTid]
    BY <1>2, <2>2, <2>3, <2>4 DEF main_join
  <2> QED
    BY ONLY <1>1, <2>5, s # t DEF Thread
<1>3. CASE monitor_check(s)
  BY ONLY <1>1, <1>3, s # t DEF monitor_check
<1>4. CASE monitor_report(s)
  BY ONLY <1>1, <1>4, s # t DEF monitor_report
<1>5. CASE AtCall(s, "monitor", "exit") /\ thread_exit(s)
  <2>1. th[s].prog \notin {"shell", "sh-cmd"}
    BY <1>5 DEF AtCall
  <2>2. th' = [th EXCEPT ![s].state = "ZOMBIE"]
    BY <1>5, <2>1, NoWaiter DEF thread_exit, Ended
  <2> QED
    BY ONLY <1>1, <2>2, s # t
<1> QED
  BY <1>2, <1>3, <1>4, <1>5, OthersInSpawnKill

\* When spawn kill (spawn, user/spawn.c) ends, no spawned thread is left: each
\* was killed and joined, although other threads run between those calls.
THEOREM SpawnKillTakesAllBack ==
  ASSUME StopsMonitors
  PROVE  ShellSpec => SpawnKillReclaims
<1>1. ASSUME SInv, [ShellNext]_shell_vars, NEW t \in User, th[t].pc = "spawn kill", th'[t].pc = "prompt", NEW u \in User
      PROVE  th'[u].prog # "spawn"
  <2>1. AtCall(t, "shell", "spawn kill")
    <3>1. th[t].prog = "shell"
      BY ONLY <1>1 DEF SInv, ShellAt, Killing
    <3>2. th[t].state = "READY"
      BY ONLY <1>1, <3>1 DEF SInv, ShellAt
    <3> QED
      BY ONLY <1>1, <3>1, <3>2 DEF AtCall
  <2>2. th'[t].pc # th[t].pc
    BY ONLY <1>1
  <2>3. PICK s \in User : UserStep(s) \/ Typed(s)
    BY ONLY <1>1, <2>2 DEF ShellNext, shell_vars
  <2>4. s = t
    BY ONLY <1>1, <2>1, <2>2, <2>3, SpawnKillUndisturbed
  <2>5. spawn_kill_next(t)
    BY ONLY <1>1, <2>1, <2>3, <2>4, OnlySpawnKill
  <2>6. SInv' /\ \A w \in Wid : s_spawn_tid'[w] = NoTid
    BY ONLY <1>1, <2>5, SpawnKillNextStep
  <2>7. u # NoTid
    BY ONLY ShellAssumption, u \in User DEF User, NoTid
  <2> QED
    BY ONLY <1>1, <2>6, <2>7 DEF SInv, Spawned, Listed
<1>2. ASSUME SInv, [ShellNext]_shell_vars
      PROVE  [\A t \in User : th[t].pc = "spawn kill" /\ th'[t].pc = "prompt" =>
                \A u \in User : th'[u].prog # "spawn"]_shell_vars
  BY <1>1, <1>2
<1> QED
  BY <1>2, ShellInvariant, PTL DEF ShellSpec, SpawnKillReclaims
=============================================================================
