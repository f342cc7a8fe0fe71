------------------------------ MODULE Console ------------------------------
(***************************************************************************)
(* The terminal: the keyboard and serial interrupt handlers                *)
(* (device/char/keyboard.c, uart.c), the line discipline                   *)
(* (device/char/tty.c) with its ring buffer (device/ioqueue.c), poll       *)
(* (fs/poll.c), and the signals (Signal) that Ctrl-C sends.                *)
(*                                                                         *)
(* Handlers and system calls run with interrupts off, so each is one step  *)
(* up to a point where it sleeps.  The ring buffer is the sequence of its  *)
(* characters; a character is told apart only by what the code does with   *)
(* it.  The units of line_sem are what a reader may consume.               *)
(*                                                                         *)
(* A "setup" says what is on the terminal: the initial termios, the keys   *)
(* that are struck, what the programs ask for and when they change the     *)
(* terminal.  Init picks one.                                              *)
(***************************************************************************)
EXTENDS Signal, TLC

CONSTANTS BUFSIZE,  \* of the ring, which holds BUFSIZE - 1 characters (2048)
          SEM_MOD,  \* 2^8: line_sem.value is a uint8_t
          Setups,   \* what is on the terminal (see above)
          Nobody

ASSUME ConsoleAssumption ==
  /\ BUFSIZE \in Nat /\ BUFSIZE > 1
  /\ SEM_MOD \in Nat \ {0}
  /\ Nobody \notin Proc
  /\ \A s \in Setups :
       /\ s.term \in [isig : BOOLEAN, icanon : BOOLEAN, echo : BOOLEAN]
       /\ s.switch \in {"never", "drained", "any"}

\* Programs catch neither SIGKILL nor SIGSTOP, which sigaction does not refuse.
ASSUME CatchAssumption ==
  /\ SIGINT \in Sig
  /\ \A s \in Setups :
       /\ s.actions \in [Proc -> [Sig -> Action]]
       /\ \A p \in Proc, k \in {SIGKILL, SIGSTOP} \cap Sig : s.actions[p][k].handler # "fn"
       /\ s.catch \subseteq Sig \ {SIGKILL, SIGSTOP}
       /\ s.handlers \subseteq Action
       /\ s.masks \subseteq SUBSET Sig

VARIABLES setup,
          keys,      \* interrupts so far (setup.keymax bounds them)
          kbd,       \* ctrl_status, shift_status, caps_lock_status, ext_scancode
          term,      \* termios.c_lflag
          fg,        \* tty->pgrp: the set of its members
          ibuf,
          sem,       \* line_sem.value
          waiters,   \* line_sem.waiters
          hooks,     \* poll_entry_list
          producer,  \* ibuf.producer
          lockq,     \* waiters of ibuf.lock
          arg,       \* what a sleeping call needs: a count, a timeout, a character
          panic      \* the ASSERT that has failed, or ""

ttyVars == <<term, fg, ibuf, sem, waiters, hooks, producer, lockq, arg, panic>>
vars == <<setup, keys, kbd, ttyVars, st, pc, sigVars>>

Init ==
  /\ setup \in Setups
  /\ keys = 0
  /\ kbd = [ctrl |-> FALSE, shift |-> FALSE, caps |-> FALSE, ext |-> FALSE]
  /\ term = setup.term
  /\ fg = setup.fg
  /\ ibuf = <<>> /\ sem = 0 /\ waiters = <<>> /\ hooks = <<>>
  /\ producer = Nobody /\ lockq = <<>>
  /\ arg = [p \in Proc |-> [count |-> 0, timeout |-> "none", char |-> ""]]
  /\ panic = ""
  /\ SignalInit
  /\ sigactions = setup.actions

Full == Len(ibuf) = BUFSIZE - 1

-----------------------------------------------------------------------------
(* The line discipline: tty_input_handler.                                 *)

\* Processes asleep in do_poll whose entries hang on the terminal.
Pollers == {p \in ToSet(hooks) : st[p] = "WAITING"}

\* Mutant: the semaphore's waiters are not woken.
AnnounceOnlyPollers(n) ==
  /\ sem' = (sem + n) % SEM_MOD
  /\ st' = [p \in Proc |-> IF p \in Pollers THEN "READY" ELSE st[p]]
  /\ UNCHANGED waiters

\* n times sema_signal(&line_sem) and poll_wakeup: a unit each, a reader
\* woken by each, and every process that sleeps in poll.
Announce(n) ==
  LET k == Min({n, Len(waiters)}) IN
  /\ sem' = (sem + n) % SEM_MOD
  /\ waiters' = SubSeq(waiters, k + 1, Len(waiters))
  /\ st' = [p \in Proc |->
              IF p \in ToSet(SubSeq(waiters, 1, k)) \/ (n > 0 /\ p \in Pollers)
              THEN "READY" ELSE st[p]]

\* The rest of the handler once ioq_putchar has stored a line's end or the
\* interrupt character.
LineStored(c) ==
  /\ ibuf' = Append(ibuf, c)
  /\ Announce(1)
  /\ IF c = "intr" THEN KillPgrp(fg, SIGINT) ELSE UNCHANGED <<signal, due>>

\* ioq_putchar finds the ring full and puts whoever the interrupt came upon
\* to sleep, inside the handler: on the ring's lock if there is a producer
\* already.  If that was the idle thread, nothing is left to run: schedule
\* wakes it, and its second ioq_wait finds itself registered.
PutSleeps(c) ==
  \/ \E v \in Proc :
       /\ InUser(v)
       /\ st' = [st EXCEPT ![v] = "BLOCKED"]
       /\ arg' = [arg EXCEPT ![v].char = c]
       /\ IF \E p \in Proc : pc[p] = "put"
          THEN /\ pc' = [pc EXCEPT ![v] = "putlock"]
               /\ lockq' = Append(lockq, v) /\ UNCHANGED producer
          ELSE /\ pc' = [pc EXCEPT ![v] = "put"]
               /\ producer' = v /\ UNCHANGED lockq
       /\ UNCHANGED panic
  \/ /\ \A p \in Proc : st[p] # "READY"
     /\ panic' = "ioq_wait"
     /\ UNCHANGED <<st, pc, arg, producer, lockq>>

\* A newline in canonical mode, or the interrupt character with ISIG.
LineInput(c) ==
  \/ /\ ~ Full
     /\ LineStored(c)
     /\ UNCHANGED <<pc, arg, producer, lockq, panic>>
  \/ /\ Full
     /\ PutSleeps(c)
     /\ UNCHANGED <<ibuf, sem, waiters, signal, due>>

\* ioq_popchar and ioq_get_raw wake the producer; n characters were taken.
WakeProducer(n) ==
  IF n > 0 /\ producer # Nobody
  THEN /\ st' = [st EXCEPT ![producer] = "READY"]
       /\ producer' = Nobody
  ELSE UNCHANGED <<st, producer>>

\* Mutant: the erase character also takes a newline back.
EraseNewline(all) ==
  LET n == IF ibuf = <<>> THEN 0 ELSE IF all THEN Len(ibuf) ELSE 1
  IN /\ ibuf' = SubSeq(ibuf, 1, Len(ibuf) - n)
     /\ WakeProducer(n)

\* VERASE takes the last character back, VKILL the line, neither a newline.
EraseInput(all) ==
  LET ends == {i \in 1 .. Len(ibuf) : ibuf[i] = "nl"}
      tail == Len(ibuf) - Max({0} \cup ends)
      n    == IF all THEN tail ELSE Min({1, tail})
  IN /\ ibuf' = SubSeq(ibuf, 1, Len(ibuf) - n)
     /\ WakeProducer(n)

\* cs are stored as far as there is room; the others are dropped.
PlainInput(cs) ==
  LET k == Min({Len(cs), BUFSIZE - 1 - Len(ibuf)}) IN
  /\ ibuf' = ibuf \o SubSeq(cs, 1, k)
  /\ IF term.icanon THEN UNCHANGED <<st, sem, waiters>> ELSE Announce(k)

\* tty_input_handler.
TtyInputHandler(c) ==
  /\ \/ /\ term.isig /\ c = "intr"
        /\ LineInput(c)
     \/ /\ ~ (term.isig /\ c = "intr") /\ term.icanon /\ c \in {"erase", "kill"}
        /\ EraseInput(c = "kill")
        /\ UNCHANGED <<sem, waiters, pc, signal, due, lockq, arg, panic>>
     \/ /\ term.icanon /\ c \in {"nl", "cr"}
        /\ LineInput("nl")
     \/ /\ ~ (term.isig /\ c = "intr")
        /\ ~ (term.icanon /\ c \in {"erase", "kill", "nl", "cr"})
        /\ PlainInput(<<c>>)
        /\ UNCHANGED <<pc, signal, due, producer, lockq, arg, panic>>
  /\ UNCHANGED <<term, fg, hooks, blocked, sigactions, frames, mask>>

-----------------------------------------------------------------------------
(* The interrupt handlers of the devices.                                  *)

idle == <<ttyVars, st, pc, sigVars>>

\* The character a key's make code stands for: shift and caps lock choose the
\* case, and only a lower-case letter becomes a control character.
KeyChar(k) ==
  LET lower == kbd.shift = kbd.caps IN
  CASE k = "c" -> IF kbd.ctrl /\ lower THEN "intr" ELSE "x"
    [] k = "u" -> IF kbd.ctrl /\ lower THEN "kill" ELSE "x"
    [] k = "h" -> IF kbd.ctrl /\ lower THEN "erase" ELSE "x"
    [] k = "backspace" -> "erase"
    [] k = "enter" -> "cr"

\* intr_handler_keyboard on a prefix, a break code, a modifier, an arrow key
\* (three characters, sent one by one) and any other key.
KeyboardInterrupt(k, make) ==
  /\ \/ /\ k = "e0" /\ make
        /\ kbd' = [kbd EXCEPT !.ext = TRUE]
        /\ UNCHANGED idle
     \/ /\ k # "e0" /\ ~ make
        /\ kbd' = [kbd EXCEPT !.ext = FALSE,
                              !.ctrl = @ /\ k # "ctrl", !.shift = @ /\ k # "shift"]
        /\ UNCHANGED idle
     \/ /\ k \in {"ctrl", "shift", "caps"} /\ make
        /\ kbd' = [kbd EXCEPT !.ext = FALSE,
                              !.ctrl = @ \/ k = "ctrl", !.shift = @ \/ k = "shift",
                              !.caps = IF k = "caps" THEN ~ @ ELSE @]
        /\ UNCHANGED idle
     \/ /\ k = "arrow" /\ make /\ kbd.ext
        /\ kbd' = [kbd EXCEPT !.ext = FALSE]
        /\ PlainInput(<<"x", "x", "x">>)
        /\ UNCHANGED <<term, fg, hooks, producer, lockq, arg, panic, pc, sigVars>>
     \/ /\ k \in {"c", "u", "h", "backspace", "enter"} /\ make
        /\ kbd' = [kbd EXCEPT !.ext = FALSE]
        /\ TtyInputHandler(KeyChar(k))

\* Is striking k of interest now? Modifiers go down and up in turn.
Struck(k, make) ==
  CASE k = "ctrl"  -> make # kbd.ctrl
    [] k = "shift" -> make # kbd.shift
    [] k = "e0"    -> make /\ ~ kbd.ext
    [] k = "arrow" -> make /\ kbd.ext
    [] OTHER       -> make /\ ~ kbd.ext

Key ==
  /\ panic = "" /\ keys < setup.keymax
  /\ keys' = keys + 1
  /\ \E k \in setup.keys, make \in BOOLEAN : Struck(k, make) /\ KeyboardInterrupt(k, make)
  /\ UNCHANGED setup

\* uart_interrupt_handler, for one received byte: in canonical mode a
\* carriage return is a newline and a delete is a backspace.
Uart ==
  /\ panic = "" /\ keys < setup.keymax
  /\ keys' = keys + 1
  /\ \E c \in setup.bytes :
       TtyInputHandler(CASE term.icanon /\ c = "cr"  -> "nl"
                         [] term.icanon /\ c = "del" -> "erase"
                         [] ~ term.icanon /\ c = "del" -> "x"
                         [] OTHER -> c)
  /\ UNCHANGED <<setup, kbd>>

\* ioq_putchar of an interrupted process goes on: the lock is released; if
\* the ring is still full the process waits again, else it stores its
\* character, and returns to user mode past the rest of the handler.
PutAgain(v) ==
  /\ pc[v] = "put" /\ st[v] = "READY"
  /\ \/ /\ Full
        /\ producer' = v
        /\ st' = [st EXCEPT ![v] = "BLOCKED"]
        /\ UNCHANGED <<ibuf, sem, waiters, signal, due, pc>>
     \/ /\ ~ Full
        /\ LineStored(arg[v].char)
        /\ pc' = [pc EXCEPT ![v] = "user"]
        /\ UNCHANGED producer
  /\ UNCHANGED <<term, fg, hooks, lockq, arg, panic, blocked, sigactions, frames, mask>>

\* lock_acquire returns once the lock is free, and ioq_wait follows without
\* another look at the ring.
PutLocked(v) ==
  /\ lockq # <<>> /\ v = Head(lockq) /\ \A p \in Proc : pc[p] # "put"
  /\ lockq' = Tail(lockq)
  /\ pc' = [pc EXCEPT ![v] = "put"]
  /\ producer' = v
  /\ UNCHANGED <<st, term, fg, ibuf, sem, waiters, hooks, arg, panic, sigVars>>

-----------------------------------------------------------------------------
(* tty_read.                                                               *)

\* How many characters the loop takes: up to a newline, or an interrupt
\* character, which the echo turns into one.
LineLength(count) ==
  LET ends == {i \in 1 .. Len(ibuf) : ibuf[i] = "nl" \/ (ibuf[i] = "intr" /\ term.echo)}
  IN Min({count} \cup ends)

\* The loop over ioq_get_raw, with a unit in hand.  It fails its ASSERT when
\* the ring runs empty.
TakeLine(p, n) ==
  /\ sem' = sem - 1
  /\ IF n > Len(ibuf)
     THEN /\ panic' = "ioq_get_raw"
          /\ UNCHANGED <<ibuf, st, producer, pc, due, waiters>>
     ELSE /\ ibuf' = SubSeq(ibuf, n + 1, Len(ibuf))
          /\ WakeProducer(n)
          /\ pc' = [pc EXCEPT ![p] = "user"]
          /\ due' = [due EXCEPT ![p] = TRUE]
          /\ UNCHANGED <<panic, waiters>>

\* sema_wait: sleep while there is no unit.
ReadOrSleep(p, count) ==
  \/ /\ sem = 0
     /\ arg' = [arg EXCEPT ![p].count = count]
     /\ waiters' = Append(waiters, p)
     /\ st' = [st EXCEPT ![p] = "BLOCKED"]
     /\ pc' = [pc EXCEPT ![p] = "read"]
     /\ UNCHANGED <<sem, ibuf, producer, due, panic>>
  \/ /\ sem > 0
     /\ TakeLine(p, LineLength(count))
     /\ UNCHANGED arg

\* What programs ask for: a whole line, or one character.
Count == IF term.icanon THEN BUFSIZE ELSE 1

Read(p) ==
  /\ InUser(p) /\ "read" \in setup.calls
  /\ ReadOrSleep(p, Count)
  /\ UNCHANGED <<term, fg, hooks, lockq, signal, blocked, sigactions, frames, mask>>

\* A woken reader looks at the semaphore again.
ReadAgain(p) ==
  /\ pc[p] = "read" /\ st[p] = "READY"
  /\ ReadOrSleep(p, arg[p].count)
  /\ UNCHANGED <<term, fg, hooks, lockq, signal, blocked, sigactions, frames, mask>>

\* tty_read with O_NONBLOCK: sema_try_wait, or -EAGAIN, which changes nothing.
ReadNonblock(p) ==
  /\ InUser(p) /\ "nonblock" \in setup.calls
  /\ sem > 0
  /\ TakeLine(p, LineLength(Count))
  /\ UNCHANGED <<term, fg, hooks, lockq, arg, signal, blocked, sigactions, frames, mask>>

-----------------------------------------------------------------------------
(* do_poll on the terminal, for POLLIN.                                    *)

\* Mutant: signal_pending is not looked at.
PollPassNoSignal(p, h, timeout) ==
  \/ /\ sem > 0 \/ timeout = "zero"
     /\ hooks' = SelectSeq(h, LAMBDA q : q # p)
     /\ pc' = [pc EXCEPT ![p] = "user"]
     /\ due' = [due EXCEPT ![p] = TRUE]
     /\ UNCHANGED <<st, arg>>
  \/ /\ sem = 0 /\ timeout # "zero"
     /\ hooks' = h
     /\ pc' = [pc EXCEPT ![p] = "poll"]
     /\ st' = [st EXCEPT ![p] = "WAITING"]
     /\ arg' = [arg EXCEPT ![p].timeout = timeout]
     /\ UNCHANGED due

\* One turn of the loop, with the hooks h: return, after poll_cleanup, when
\* there is input, no time left or a signal; sleep otherwise.
PollPass(p, h, timeout) ==
  \/ /\ sem > 0 \/ timeout = "zero" \/ SignalPending(p) # {}
     /\ hooks' = SelectSeq(h, LAMBDA q : q # p)
     /\ pc' = [pc EXCEPT ![p] = "user"]
     /\ due' = [due EXCEPT ![p] = TRUE]
     /\ UNCHANGED <<st, arg>>
  \/ /\ sem = 0 /\ timeout # "zero" /\ SignalPending(p) = {}
     /\ hooks' = h
     /\ pc' = [pc EXCEPT ![p] = "poll"]
     /\ st' = [st EXCEPT ![p] = "WAITING"]
     /\ arg' = [arg EXCEPT ![p].timeout = timeout]
     /\ UNCHANGED due

pollSame == <<term, fg, ibuf, sem, waiters, producer, lockq, panic,
              signal, blocked, sigactions, frames, mask>>

\* The first pass hangs the entry on the terminal; later ones do not.
Poll(p) ==
  /\ InUser(p) /\ "poll" \in setup.calls
  /\ \E timeout \in {"zero", "some", "none"} : PollPass(p, Append(hooks, p), timeout)
  /\ UNCHANGED pollSame

PollAgain(p) ==
  /\ pc[p] = "poll" /\ st[p] = "READY"
  /\ PollPass(p, hooks, arg[p].timeout)
  /\ UNCHANGED pollSame

\* The timer wakes a poller with a timeout; sys_milsleep leaves it no time.
PollTimeout(p) ==
  /\ pc[p] = "poll" /\ st[p] = "WAITING" /\ arg[p].timeout = "some"
  /\ st' = [st EXCEPT ![p] = "READY"]
  /\ arg' = [arg EXCEPT ![p].timeout = "zero"]
  /\ UNCHANGED <<term, fg, ibuf, sem, waiters, hooks, producer, lockq, panic, pc, sigVars>>

-----------------------------------------------------------------------------
(* tty_ioctl, and the calls of Signal.                                     *)

\* TCSETS and TIOCSPGRP.
TtyIoctl(p) ==
  /\ InUser(p)
  /\ \/ /\ setup.switch # "never"
        /\ setup.switch = "drained" =>
             ibuf = <<>> /\ sem = 0 /\ \A q \in Proc : pc[q] \notin {"read", "put", "putlock"}
        /\ term' \in setup.terms
        /\ UNCHANGED fg
     \/ /\ "setpgrp" \in setup.calls
        /\ fg' \in setup.groups
        /\ UNCHANGED term
  /\ due' = [due EXCEPT ![p] = TRUE]
  /\ UNCHANGED <<ibuf, sem, waiters, hooks, producer, lockq, arg, panic, st, pc,
                 signal, blocked, sigactions, frames, mask>>

SignalCall(p) ==
  /\ \/ SysSigreturn(p)
     \/ "pause" \in setup.calls /\ SysPause(p)
     \/ "kill" \in setup.calls /\ \E q \in Proc, s \in Sig : SysKill(p, q, s)
     \/ p \in setup.tunes /\ \E s \in setup.catch, h \in {"DFL", "IGN", "fn"} : SysSignal(p, s, h)
     \/ p \in setup.tunes /\ \E s \in setup.catch, sa \in setup.handlers : SysSigaction(p, s, sa)
     \/ p \in setup.tunes /\
          \E how \in {"BLOCK", "UNBLOCK", "SETMASK"}, set \in setup.masks : SysSigprocmask(p, how, set)
  /\ UNCHANGED ttyVars

\* What a process does on its own, and what it does when it wants to.
Resume(p) ==
  /\ panic = ""
  /\ \/ (IntrExit(p) \/ Tick(p) \/ PauseReturns(p)) /\ UNCHANGED ttyVars
     \/ ReadAgain(p) \/ PollAgain(p) \/ PutAgain(p) \/ PutLocked(p)
  /\ UNCHANGED <<setup, keys, kbd>>

Call(p) ==
  /\ panic = ""
  /\ \/ Read(p) \/ ReadNonblock(p) \/ Poll(p) \/ PollTimeout(p) \/ TtyIoctl(p) \/ SignalCall(p)
  /\ UNCHANGED <<setup, keys, kbd>>

Next == Key \/ Uart \/ \E p \in Proc : Resume(p) \/ Call(p)

\* A process that is ready gets to run (Scheduler); nothing else is promised.
Fairness == \A p \in Proc : WF_vars(Resume(p))

Spec == Init /\ [][Next]_vars /\ Fairness

-----------------------------------------------------------------------------
(* Properties.                                                             *)

\* What a reader may consume: in canonical mode the lines, an interrupt
\* character being one of its own; otherwise the characters.
Units ==
  IF term.icanon
  THEN Cardinality({i \in 1 .. Len(ibuf) : ibuf[i] \in {"nl", "intr"}})
  ELSE Len(ibuf)

\* tty_read takes a unit of line_sem and then reads the ring without waiting,
\* because "the semaphore has made sure that there is data": the semaphore
\* counts exactly the units in the ring, and ioq_get_raw never finds it empty.
LinesCounted == panic # "ioq_get_raw" /\ (panic = "" => sem = Units)

\* do_signal and sys_sigreturn: handlers nest, none is entered again before it
\* has returned, and when the last has returned the mask is the program's own.
HandlersNest ==
  \A p \in Proc :
    /\ \A i, j \in DOMAIN frames[p] : i < j => frames[p][i].sig # frames[p][j].sig
    /\ frames[p] = <<>> => blocked[p] = mask[p]

\* A call that sleeps for input returns once there is some, or somebody else
\* has taken it.
InputIsSeen ==
  \A p \in Proc :
    pc[p] \in {"read", "poll"} /\ sem > 0 ~> pc[p] \notin {"read", "poll"} \/ sem = 0 \/ panic # ""

\* Ctrl-C takes effect: a member of the foreground group that runs or polls
\* has the signal delivered, unless it blocks it or goes to sleep elsewhere.
InterruptIsDelivered ==
  \A p \in Proc :
    pc[p] \in {"user", "poll"} /\ SIGINT \in SignalPending(p)
      ~> \/ SIGINT \notin SignalPending(p) \/ st[p] = "DIED" \/ panic # ""
         \/ pc[p] \notin {"user", "poll"}

\* send_signal says of a process in TASK_WAITING that it "must be pulled out"
\* for its signal: nobody waits interruptibly with a signal to be delivered.
NoSignalSleptOn ==
  \A p \in Proc : st[p] = "WAITING" => SignalPending(p) = {}

=============================================================================
