---------------------------- MODULE ConsoleProofs ----------------------------
(***************************************************************************)
(* Proofs about the signals of Console, for any processes, signals, keys   *)
(* and uses of the terminal: handlers nest.                                *)
(***************************************************************************)
EXTENDS Console, SequenceTheorems, TLAPS

Uncatchable == {SIGKILL, SIGSTOP}

Frame == [sig : Sig \ Uncatchable, blocked : SUBSET Sig]

\* The types of what do_signal works on.  Nobody catches SIGKILL or SIGSTOP.
SigTypeOK ==
  /\ signal \in [Proc -> SUBSET Sig]
  /\ blocked \in [Proc -> SUBSET Sig]
  /\ mask \in [Proc -> SUBSET Sig]
  /\ frames \in [Proc -> Seq(Frame)]
  /\ setup \in Setups
  /\ sigactions \in [Proc -> [Sig -> Action]]
  /\ \A p \in Proc, s \in Uncatchable \cap Sig : sigactions[p][s].handler # "fn"

\* A frame's signal was not blocked when the frame was made, is blocked since,
\* and the oldest frame holds the mask of the program.
Nested(fr, bl, mk) ==
  /\ \A i \in DOMAIN fr : fr[i].sig \in bl /\ fr[i].sig \notin fr[i].blocked
  /\ \A i, j \in DOMAIN fr : i < j => fr[i].sig \in fr[j].blocked
  /\ IF fr = <<>> THEN bl = mk ELSE fr[1].blocked = mk

NestInv == SigTypeOK /\ \A p \in Proc : Nested(frames[p], blocked[p], mask[p])

-----------------------------------------------------------------------------
\* setup_frame on top of nested frames.
LEMMA NestedPush ==
  ASSUME NEW fr \in Seq(Frame), NEW bl \in SUBSET Sig, NEW mk, NEW sm,
         NEW s \in Sig \ Uncatchable, s \notin bl, Nested(fr, bl, mk)
  PROVE  Nested(Append(fr, [sig |-> s, blocked |-> bl]),
                (bl \cup {s} \cup sm) \ Uncatchable, mk)
<1> DEFINE f  == [sig |-> s, blocked |-> bl]
           fs == Append(fr, f)
<1>1. fs \in Seq(Frame) /\ fs # <<>> /\ Len(fs) = Len(fr) + 1 /\ fs[Len(fs)] = f
  BY DEF Frame
<1>2. \A i \in DOMAIN fr : fs[i] = fr[i] /\ i \in 1 .. Len(fr) /\ fr[i] \in Frame
  OBVIOUS
<1>3. \A i \in DOMAIN fs : i \in DOMAIN fr \/ i = Len(fs)
  BY <1>1
<1>4. \A i \in DOMAIN fr : fr[i].sig \in bl \ Uncatchable
  BY <1>2 DEF Frame, Nested
<1>5. fr # <<>> => 1 \in DOMAIN fr
  OBVIOUS
<1>6. fr = <<>> => Len(fs) = 1
  BY <1>1
<1> HIDE DEF fs
<1>7. \A i \in DOMAIN fs : fs[i].sig \in (bl \cup {s} \cup sm) \ Uncatchable
                           /\ fs[i].sig \notin fs[i].blocked
  BY <1>1, <1>2, <1>3, <1>4 DEF Nested
<1>8. \A i, j \in DOMAIN fs : i < j => fs[i].sig \in fs[j].blocked
  <2> SUFFICES ASSUME NEW i \in DOMAIN fs, NEW j \in DOMAIN fs, i < j
               PROVE  fs[i].sig \in fs[j].blocked
    OBVIOUS
  <2>1. i \in DOMAIN fr
    BY <1>1, <1>2, <1>3
  <2> QED BY <2>1, <1>1, <1>2, <1>3, <1>4 DEF Nested
<1>9. fs[1].blocked = mk
  BY <1>1, <1>2, <1>5, <1>6 DEF Nested
<1> QED BY <1>1, <1>7, <1>8, <1>9 DEF Nested, fs

\* sys_sigreturn takes the top frame off.
LEMMA NestedPop ==
  ASSUME NEW fr \in Seq(Frame), fr # <<>>, NEW bl, NEW mk, Nested(fr, bl, mk)
  PROVE  Nested(Front(fr), Last(fr).blocked, mk)
<1> DEFINE n == Len(fr)
           ff == Front(fr)
<1>1. n \in Nat \ {0} /\ DOMAIN fr = 1 .. n
  OBVIOUS
<1>2. /\ ff \in Seq(Frame) /\ DOMAIN ff = 1 .. n - 1
      /\ \A i \in 1 .. n - 1 : ff[i] = fr[i]
      /\ ff = <<>> <=> n = 1
  BY <1>1 DEF Front
<1>3. Last(fr) = fr[n]
  BY DEF Last
<1> HIDE DEF ff, n
<1> QED BY <1>1, <1>2, <1>3 DEF Nested, ff

-----------------------------------------------------------------------------
\* A step that leaves masks, frames and dispositions alone.
Aside ==
  /\ UNCHANGED <<blocked, frames, mask, sigactions, setup>>
  /\ signal' \in [Proc -> SUBSET Sig]

LEMMA AsideKeeps == NestInv /\ Aside => NestInv'
BY DEF NestInv, SigTypeOK, Aside

\* Ctrl-C adds SIGINT to what is pending, and nothing else.
LEMMA LineStoredPending ==
  ASSUME NestInv, NEW c, LineStored(c)
  PROVE  signal' \in [Proc -> SUBSET Sig]
<1>1. signal \in [Proc -> SUBSET Sig] /\ SIGINT \in Sig
  BY CatchAssumption DEF NestInv, SigTypeOK
<1>2. \/ UNCHANGED signal
      \/ signal' = [p \in Proc |-> IF p \in fg THEN signal[p] \cup {SIGINT} ELSE signal[p]]
  BY DEF LineStored, KillPgrp
<1> QED BY <1>1, <1>2

LEMMA InputAside ==
  ASSUME NestInv, NEW c, TtyInputHandler(c)
  PROVE  /\ UNCHANGED <<blocked, frames, mask, sigactions>>
         /\ signal' \in [Proc -> SUBSET Sig]
<1>1. UNCHANGED <<blocked, frames, mask, sigactions>>
  BY DEF TtyInputHandler
<1>2. signal \in [Proc -> SUBSET Sig]
  BY DEF NestInv, SigTypeOK
<1>3. \/ UNCHANGED signal
      \/ \E d : LineStored(d)
  BY DEF TtyInputHandler, LineInput
<1> QED BY <1>1, <1>2, <1>3, LineStoredPending

LEMMA KeyAside == NestInv /\ Key => Aside
<1> SUFFICES ASSUME NestInv, Key
             PROVE  Aside
  OBVIOUS
<1>1. PICK k, make : KeyboardInterrupt(k, make)
  BY DEF Key
<1>2. UNCHANGED setup
  BY DEF Key
<1>3. CASE UNCHANGED sigVars
  BY <1>2, <1>3 DEF sigVars, Aside, NestInv, SigTypeOK
<1>4. CASE TtyInputHandler(KeyChar(k))
  BY <1>2, <1>4, InputAside DEF Aside
<1> QED BY <1>1, <1>3, <1>4 DEF KeyboardInterrupt, idle

LEMMA UartAside == NestInv /\ Uart => Aside
<1> SUFFICES ASSUME NestInv, Uart
             PROVE  Aside
  OBVIOUS
<1>1. \E c : TtyInputHandler(c)
  BY DEF Uart
<1>2. UNCHANGED setup
  BY DEF Uart
<1> QED BY <1>1, <1>2, InputAside DEF Aside

-----------------------------------------------------------------------------
\* do_signal: the frame it makes is nested in the others.
LEMMA IntrExitNests ==
  ASSUME NestInv, NEW p \in Proc, IntrExit(p), UNCHANGED setup
  PROVE  NestInv'
<1>1. UNCHANGED <<sigactions, mask>>
  BY DEF IntrExit
<1>2. CASE UNCHANGED <<signal, blocked, frames>>
  BY <1>1, <1>2, AsideKeeps DEF Aside, NestInv, SigTypeOK
<1>3. CASE \E s \in SignalPending(p) :
             signal' = [signal EXCEPT ![p] = @ \ {s}] /\ DoSignalOf(p, s)
  <2>1. PICK s \in SignalPending(p) :
          signal' = [signal EXCEPT ![p] = @ \ {s}] /\ DoSignalOf(p, s)
    BY <1>3
  <2>2. s \in Sig /\ s \notin blocked[p]
    BY DEF SignalPending, NestInv, SigTypeOK
  <2>3. signal' \in [Proc -> SUBSET Sig]
    BY <2>1 DEF NestInv, SigTypeOK
  <2>4. CASE UNCHANGED <<blocked, frames>>
    BY <1>1, <2>3, <2>4, AsideKeeps DEF Aside
  <2>5. CASE /\ sigactions[p][s].handler = "fn"
             /\ blocked' = [blocked EXCEPT ![p] =
                  (@ \cup {s} \cup sigactions[p][s].mask) \ Uncatchable]
             /\ SetupFrame(p, s)
    <3> DEFINE f == [sig |-> s, blocked |-> blocked[p]]
               b == (blocked[p] \cup {s} \cup sigactions[p][s].mask) \ Uncatchable
    <3>1. s \notin Uncatchable
      BY <2>2, <2>5 DEF NestInv, SigTypeOK
    <3>2. frames[p] \in Seq(Frame) /\ blocked[p] \in SUBSET Sig
          /\ sigactions[p][s].mask \in SUBSET Sig
      BY <2>2 DEF NestInv, SigTypeOK, Action
    <3>3. f \in Frame
      BY <2>2, <3>1, <3>2 DEF Frame
    <3>4. frames' = [frames EXCEPT ![p] = Append(frames[p], f)] /\ blocked' = [blocked EXCEPT ![p] = b]
      BY <2>5 DEF SetupFrame
    <3>5. Nested(Append(frames[p], f), b, mask[p])
      BY <2>2, <3>1, <3>2, NestedPush DEF NestInv
    <3>6. Append(frames[p], f) \in Seq(Frame) /\ b \in SUBSET Sig
      BY <2>2, <3>2, <3>3
    <3> HIDE DEF f, b
    <3>7. SigTypeOK'
      BY <1>1, <2>3, <3>4, <3>6 DEF NestInv, SigTypeOK
    <3>8. \A q \in Proc : Nested(frames'[q], blocked'[q], mask'[q])
      BY <1>1, <3>4, <3>5 DEF NestInv, SigTypeOK
    <3> QED BY <3>7, <3>8 DEF NestInv
  <2> QED BY <2>1, <2>4, <2>5 DEF DoSignalOf, Uncatchable
<1> QED BY <1>2, <1>3 DEF IntrExit

LEMMA SigreturnNests ==
  ASSUME NestInv, NEW p \in Proc, SysSigreturn(p), UNCHANGED setup
  PROVE  NestInv'
<1> DEFINE f == Front(frames[p])
           b == Last(frames[p]).blocked
<1>1. frames[p] \in Seq(Frame) /\ frames[p] # <<>>
  BY DEF NestInv, SigTypeOK, SysSigreturn
<1>2. f \in Seq(Frame) /\ b \in SUBSET Sig
  <2>1. Len(frames[p]) \in Nat \ {0}
    BY <1>1
  <2>2. f \in Seq(Frame)
    BY <1>1, <2>1 DEF Front
  <2>3. Last(frames[p]) \in Frame
    BY <1>1, <2>1 DEF Last
  <2> QED BY <2>2, <2>3 DEF Frame
<1>3. Nested(f, b, mask[p])
  BY <1>1, NestedPop DEF NestInv
<1>4. /\ frames' = [frames EXCEPT ![p] = f] /\ blocked' = [blocked EXCEPT ![p] = b]
      /\ UNCHANGED <<signal, sigactions, mask>>
  BY DEF SysSigreturn
<1> HIDE DEF f, b
<1>5. SigTypeOK'
  BY <1>2, <1>4 DEF NestInv, SigTypeOK
<1>6. \A q \in Proc : Nested(frames'[q], blocked'[q], mask'[q])
  BY <1>3, <1>4 DEF NestInv, SigTypeOK
<1> QED BY <1>5, <1>6 DEF NestInv

\* sys_sigprocmask outside of handlers changes the mask and its history alike.
LEMMA SigprocmaskNests ==
  ASSUME NestInv, NEW p \in Proc, NEW how \in {"BLOCK", "UNBLOCK", "SETMASK"},
         NEW set \in SUBSET Sig, SysSigprocmask(p, how, set), UNCHANGED setup
  PROVE  NestInv'
<1>1. PICK b \in SUBSET Sig : blocked' = [blocked EXCEPT ![p] = b]
  BY DEF SysSigprocmask, NestInv, SigTypeOK
<1>2. mask' = [mask EXCEPT ![p] = b]
  BY <1>1 DEF SysSigprocmask, NestInv, SigTypeOK
<1>3. frames[p] = <<>> /\ UNCHANGED <<signal, sigactions, frames>>
  BY DEF SysSigprocmask
<1>4. SigTypeOK'
  BY <1>1, <1>2, <1>3 DEF NestInv, SigTypeOK
<1>5. Nested(<<>>, b, b)
  BY DEF Nested
<1>6. \A q \in Proc : Nested(frames'[q], blocked'[q], mask'[q])
  BY <1>1, <1>2, <1>3, <1>5 DEF NestInv, SigTypeOK
<1> QED BY <1>4, <1>6 DEF NestInv

\* A new disposition is one that may be caught.
LEMMA DispositionNests ==
  ASSUME NestInv, NEW p \in Proc, NEW s \in Sig \ Uncatchable, NEW sa \in Action,
         sigactions' = [sigactions EXCEPT ![p][s] = sa],
         UNCHANGED <<signal, blocked, frames, mask, setup>>
  PROVE  NestInv'
BY DEF NestInv, SigTypeOK

LEMMA SignalCallNests ==
  ASSUME NestInv, NEW p \in Proc, SignalCall(p), UNCHANGED setup
  PROVE  NestInv'
<1>1. CASE SysSigreturn(p)
  BY <1>1, SigreturnNests
<1>2. CASE SysPause(p)
  BY <1>2, AsideKeeps DEF SysPause, sigVars, Aside, NestInv, SigTypeOK
<1>3. CASE \E q \in Proc, s \in Sig : SysKill(p, q, s)
  BY <1>3, AsideKeeps DEF SysKill, SendSignal, Aside, NestInv, SigTypeOK
<1>4. CASE \E s \in setup.catch, h \in {"DFL", "IGN", "fn"} : SysSignal(p, s, h)
  <2>1. PICK s \in setup.catch, h \in {"DFL", "IGN", "fn"} : SysSignal(p, s, h)
    BY <1>4
  <2>2. s \in Sig \ Uncatchable
    BY CatchAssumption DEF NestInv, SigTypeOK, Uncatchable
  <2> DEFINE sa == [sigactions[p][s] EXCEPT !.handler = h, !.mask = {}]
  <2>3. sa \in Action
    <3>1. sigactions[p][s] \in Action
      BY <2>2 DEF NestInv, SigTypeOK
    <3> QED BY <3>1 DEF Action
  <2>4. sigactions' = [sigactions EXCEPT ![p][s] = sa]
    BY <2>1, <2>2 DEF SysSignal, NestInv, SigTypeOK, Action
  <2> QED BY <2>1, <2>2, <2>3, <2>4, DispositionNests DEF SysSignal
<1>5. CASE \E s \in setup.catch, sa \in setup.handlers : SysSigaction(p, s, sa)
  BY <1>5, CatchAssumption, DispositionNests DEF NestInv, SigTypeOK, Uncatchable, SysSigaction
<1>6. CASE \E how \in {"BLOCK", "UNBLOCK", "SETMASK"}, set \in setup.masks :
             SysSigprocmask(p, how, set)
  BY <1>6, CatchAssumption, SigprocmaskNests DEF NestInv, SigTypeOK
<1> QED BY <1>1, <1>2, <1>3, <1>4, <1>5, <1>6 DEF SignalCall

-----------------------------------------------------------------------------
LEMMA NestInit == Init => NestInv
<1> SUFFICES ASSUME Init
             PROVE  NestInv
  OBVIOUS
<1>1. SigTypeOK
  <2>1. setup \in Setups /\ sigactions = setup.actions
    BY DEF Init
  <2>2. /\ sigactions \in [Proc -> [Sig -> Action]]
        /\ \A p \in Proc, s \in Uncatchable \cap Sig : sigactions[p][s].handler # "fn"
    BY <2>1, CatchAssumption DEF Uncatchable
  <2>3. /\ signal \in [Proc -> SUBSET Sig] /\ blocked \in [Proc -> SUBSET Sig]
        /\ mask \in [Proc -> SUBSET Sig]
    BY DEF Init, SignalInit
  <2>4. frames \in [Proc -> Seq(Frame)]
    <3>1. <<>> \in Seq(Frame)
      OBVIOUS
    <3>2. frames = [p \in Proc |-> <<>>]
      BY DEF Init, SignalInit
    <3> QED BY <3>1, <3>2
  <2> QED BY <2>1, <2>2, <2>3, <2>4 DEF SigTypeOK
<1>2. \A p \in Proc : frames[p] = <<>> /\ blocked[p] = {} /\ mask[p] = {}
  BY DEF Init, SignalInit
<1>3. Nested(<<>>, {}, {})
  BY DEF Nested
<1> QED BY <1>1, <1>2, <1>3 DEF NestInv

LEMMA ResumeNests ==
  ASSUME NestInv, NEW p \in Proc, Resume(p)
  PROVE  NestInv'
<1>1. UNCHANGED setup
  BY DEF Resume
<1>2. CASE IntrExit(p)
  BY <1>1, <1>2, IntrExitNests
<1>3. CASE Tick(p) \/ PauseReturns(p)
  BY <1>1, <1>3, AsideKeeps DEF Tick, PauseReturns, Aside, NestInv, SigTypeOK
<1>4. CASE ReadAgain(p)
  BY <1>1, <1>4, AsideKeeps DEF ReadAgain, Aside, NestInv, SigTypeOK
<1>5. CASE PollAgain(p)
  BY <1>1, <1>5, AsideKeeps DEF PollAgain, pollSame, Aside, NestInv, SigTypeOK
<1>6. CASE PutAgain(p)
  <2>1. UNCHANGED <<blocked, sigactions, frames, mask>>
    BY <1>6 DEF PutAgain
  <2>2. UNCHANGED signal \/ \E c : LineStored(c)
    BY <1>6 DEF PutAgain
  <2> QED BY <1>1, <2>1, <2>2, LineStoredPending, AsideKeeps DEF Aside, NestInv, SigTypeOK
<1>7. CASE PutLocked(p)
  BY <1>1, <1>7, AsideKeeps DEF PutLocked, sigVars, Aside, NestInv, SigTypeOK
<1> QED BY <1>2, <1>3, <1>4, <1>5, <1>6, <1>7 DEF Resume

LEMMA CallNests ==
  ASSUME NestInv, NEW p \in Proc, Call(p)
  PROVE  NestInv'
<1>1. UNCHANGED setup
  BY DEF Call
<1>2. CASE Read(p) \/ ReadNonblock(p)
  BY <1>1, <1>2, AsideKeeps DEF Read, ReadNonblock, Aside, NestInv, SigTypeOK
<1>3. CASE Poll(p) \/ PollTimeout(p)
  BY <1>1, <1>3, AsideKeeps DEF Poll, PollTimeout, pollSame, sigVars, Aside, NestInv, SigTypeOK
<1>4. CASE TtyIoctl(p)
  BY <1>1, <1>4, AsideKeeps DEF TtyIoctl, Aside, NestInv, SigTypeOK
<1>5. CASE SignalCall(p)
  BY <1>1, <1>5, SignalCallNests
<1> QED BY <1>2, <1>3, <1>4, <1>5 DEF Call

LEMMA NestStep == NestInv /\ [Next]_vars => NestInv'
<1> SUFFICES ASSUME NestInv, [Next]_vars
             PROVE  NestInv'
  OBVIOUS
<1>1. CASE Key \/ Uart
  BY <1>1, KeyAside, UartAside, AsideKeeps
<1>2. CASE \E p \in Proc : Resume(p) \/ Call(p)
  BY <1>2, ResumeNests, CallNests
<1>3. CASE UNCHANGED vars
  BY <1>3, AsideKeeps DEF vars, sigVars, Aside, NestInv, SigTypeOK
<1> QED BY <1>1, <1>2, <1>3 DEF Next

LEMMA NestImplies == NestInv => HandlersNest
<1> SUFFICES ASSUME NestInv, NEW p \in Proc
             PROVE  /\ \A i, j \in DOMAIN frames[p] : i < j => frames[p][i].sig # frames[p][j].sig
                    /\ frames[p] = <<>> => blocked[p] = mask[p]
  BY DEF HandlersNest
<1> QED BY DEF NestInv, Nested

\* For any processes, signals, handlers and uses of the terminal: no handler is
\* entered again before it has returned, and when the last has returned, the
\* mask is the program's own (do_signal, sys_sigreturn, sys_sigprocmask).
THEOREM HandlersNestCorrect == Spec => []HandlersNest
<1>1. NestInv /\ [Next]_vars => NestInv'
  BY NestStep
<1> QED BY <1>1, NestInit, NestImplies, PTL DEF Spec
=============================================================================
