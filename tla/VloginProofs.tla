---------------------------- MODULE VloginProofs ----------------------------
(***************************************************************************)
(* Proofs about Vlogin for a pseudo terminal of any size, any number of    *)
(* keys and any amount of output, wherever signals arrive.                 *)
(***************************************************************************)
EXTENDS Vlogin, TLAPS

(* What vlogin's variables say of the terminal: t.state is "reset" only    *)
(* when the terminal is, so that atexit may rely on it.  A process that is *)
(* gone is in no handler.                                                  *)
ModeInv ==
    /\ state = "reset" => tty = "cooked"
    /\ pc = "gone" => hand = "none"
    /\ pc # "gone" => how = "none"
    /\ TerminalRestored

(* Every byte the shell wrote is printed, in the pseudo terminal, or in    *)
(* the buffer of the copy or of the handler, unless a copy was cut off or  *)
(* a write returned short.  The handler's own buffer is empty when it      *)
(* reads and when it waits.                                                *)
BytesInv ==
    /\ printed \in Nat
    /\ printed + outq <= wrote
    /\ pc # "gone" => printed + outq + InBuffer <= wrote
    /\ pc # "gone" /\ ~cut /\ ~short => printed + outq + InBuffer = wrote
    /\ hand \in {"drain", "wait"} => buf = 0
    /\ part => buf > 0
    /\ part /\ pc # "gone" => hand = "flush" \/ (hand = "none" /\ pc \in {"putin", "putout"})
    /\ hand # "none" /\ ~hung => child = "dead"
    /\ hand = "wait" /\ ~hung => outq = 0
    /\ how = "chld" /\ ~hung => child = "dead"
    /\ OutputShown

VloginInv == TypeOK /\ ModeInv /\ BytesInv

LEMMA ModeStep == VloginInv /\ [Next]_vars => ModeInv'
  <1> SUFFICES ASSUME VloginInv, [Next]_vars PROVE ModeInv'
    OBVIOUS
  <1> USE DEF VloginInv, ModeInv, TerminalRestored, main, io, history, signals
  <1>1. CASE UNCHANGED vars
    BY <1>1 DEF vars
  <1>2. CASE Main
    BY <1>2 DEF Main, terminal_raw, Prepare, fork, Settle, terminal_redraw, select,
                ReadIn, PutIn, ReadOut, PutOut, Written, WriteReturns,
                terminal_kill, Step, Running, TypeOK
  <1>3. CASE Handlers
    BY <1>3 DEF Handlers, Interrupted, terminal_end, Drain, Flush, Reset, Written,
                WriteReturns, wait, exit, atexit, TypeOK
  <1>4. CASE Forward \/ Dies
    BY <1>4 DEF Forward, terminal_kill, Resume, WriteReturns, Dies, exit, atexit, Running,
                TypeOK
  <1>5. CASE Shell
    BY <1>5 DEF Shell, Login, LoginFails, ShellReads, ShellWrites, ShellChanges, TypeOK
  <1>6. CASE User
    BY <1>6 DEF User, Type, Resize, Killed, Interrupt
  <1> QED
    BY <1>1, <1>2, <1>3, <1>4, <1>5, <1>6 DEF Next

LEMMA BytesStep == VloginInv /\ [Next]_vars => BytesInv'
  <1> SUFFICES ASSUME VloginInv, [Next]_vars PROVE BytesInv'
    OBVIOUS
  <1> USE BoundsAssumption
      DEF VloginInv, ModeInv, TypeOK, BytesInv, InBuffer, OutputShown, main, io, history, signals
  <1>1. CASE UNCHANGED vars
    BY <1>1 DEF vars
  <1>2. CASE terminal_raw \/ Prepare \/ fork \/ Settle \/ terminal_redraw \/ select
    BY <1>2 DEF terminal_raw, Prepare, fork, Settle, terminal_redraw, terminal_kill, Foreground,
                select, Step, Running
  <1>3. CASE ReadIn \/ PutIn \/ ReadOut \/ PutOut
    <2>1. CASE ReadIn
      BY <2>1 DEF ReadIn, Len, Step, Running
    <2>2. CASE PutIn
      BY <2>2 DEF PutIn, Written, WriteReturns, Running
    <2>3. CASE ReadOut
      BY <2>3 DEF ReadOut, Len, Step, Running
    <2>4. CASE PutOut
      BY <2>4 DEF PutOut, Written, WriteReturns, Running
    <2> QED
      BY <1>3, <2>1, <2>2, <2>3, <2>4
  <1>4. CASE Interrupted
    <2>1. /\ cut' <=> cut \/ (pc = "putout" /\ buf > 0)
          /\ hung' <=> hung \/ child # "dead"
      BY <1>4, Zenon DEF Interrupted
    <2> QED
      BY <1>4, <2>1 DEF Interrupted
  <1>5. CASE terminal_end
    <2>1. CASE Drain
      BY <2>1 DEF Drain, Len
    <2>2. CASE Flush
      BY <2>2 DEF Flush, Written, WriteReturns
    <2> QED
      BY <1>5, <2>1, <2>2 DEF terminal_end
  <1>6. CASE wait
    BY <1>6 DEF wait, exit
  <1>7. CASE Forward
    <2>1. (child = "dead" => child' = "dead") /\ UNCHANGED <<how, io, cut, hung>>
      BY <1>7 DEF Forward, terminal_kill
    <2>2. CASE part
      <3>1. WriteReturns
        BY <1>7, <2>2 DEF Forward, Resume
      <3>2. short' <=> short \/ hand = "flush" \/ pc = "putout"
        BY <1>7, <2>2, Zenon DEF Forward, Resume
      <3> QED
        BY <1>7, <2>1, <2>2, <3>1, <3>2 DEF WriteReturns, Forward
    <2>3. CASE ~part
      <3>1. UNCHANGED <<main, hand, short>>
        BY <1>7, <2>3 DEF Forward, Resume
      <3> QED
        BY <2>1, <3>1
    <2> QED
      BY <2>2, <2>3
  <1>8. CASE Dies
    BY <1>8 DEF Dies, exit
  <1>9. CASE Shell
    BY <1>9 DEF Shell, Login, LoginFails, ShellReads, ShellWrites, ShellChanges, Alive
  <1>10. CASE User
    BY <1>10 DEF User, Type, Resize, Killed, Interrupt
  <1> QED
    BY <1>1, <1>2, <1>3, <1>4, <1>5, <1>6, <1>7, <1>8, <1>9, <1>10 DEF Next, Main, Handlers

(* The Boolean variables. *)
Flags ==
    /\ eof \in BOOLEAN /\ ready \in BOOLEAN /\ part \in BOOLEAN
    /\ cut \in BOOLEAN /\ hung \in BOOLEAN /\ short \in BOOLEAN

LEMMA FlagsStep == Flags /\ [Next]_vars => Flags'
  <1> SUFFICES ASSUME Flags, [Next]_vars PROVE Flags'
    OBVIOUS
  <1> USE DEF Flags, main, io, history
  <1>1. CASE UNCHANGED vars
    BY <1>1 DEF vars
  <1>2. CASE Main
    <2>1. CASE select
      <3>1. ready' = (outq > 0)
        BY <2>1 DEF select
      <3>2. ready' \in BOOLEAN
        BY <3>1
      <3> QED
        BY <2>1, <3>2, Zenon DEF select
    <2>2. CASE PutIn
      BY <2>2, Zenon DEF PutIn, Written, WriteReturns
    <2>3. CASE PutOut
      BY <2>3, Zenon DEF PutOut, Written, WriteReturns
    <2>4. CASE Main /\ ~select /\ ~PutIn /\ ~PutOut
      BY <2>4, Zenon DEF Main, terminal_raw, Prepare, fork, Settle, terminal_redraw, ReadIn,
                 ReadOut
    <2> QED
      BY <1>2, <2>1, <2>2, <2>3, <2>4
  <1>3. CASE Handlers
    <2>1. CASE Interrupted
      BY <2>1, Zenon DEF Interrupted
    <2>2. CASE Drain \/ wait
      BY <2>2, Zenon DEF Drain, wait
    <2>3. CASE Flush
      BY <2>3, Zenon DEF Flush, Written, WriteReturns
    <2> QED
      BY <1>3, <2>1, <2>2, <2>3 DEF Handlers, terminal_end
  <1>4. CASE Forward
    BY <1>4, Zenon DEF Forward, Resume, WriteReturns
  <1>5. CASE Dies
    BY <1>5, Zenon DEF Dies
  <1>6. CASE Shell
    BY <1>6, Zenon DEF Shell, Login, LoginFails, ShellReads, ShellWrites, ShellChanges
  <1>7. CASE User
    BY <1>7, Zenon DEF User, Type, Resize, Killed, Interrupt
  <1> QED
    BY <1>1, <1>2, <1>3, <1>4, <1>5, <1>6, <1>7 DEF Next

(* The bytes that are counted. *)
Counts ==
    /\ inq \in 0 .. Cap /\ outq \in 0 .. Cap /\ buf \in 0 .. Size
    /\ wrote \in 0 .. MaxOut /\ keys \in 0 .. MaxKeys /\ typed \in 0 .. keys

LEMMA CountsStep == Counts /\ [Next]_vars => Counts'
  <1> SUFFICES ASSUME Counts, [Next]_vars PROVE Counts'
    OBVIOUS
  <1> Cap \in Nat \ {0} /\ Size \in Nat \ {0} /\ MaxKeys \in Nat \ {0} /\ MaxOut \in Nat \ {0}
    BY BoundsAssumption
  <1> USE DEF Counts, main, io
  <1>1. CASE UNCHANGED vars
    BY <1>1 DEF vars
  <1>2. CASE terminal_raw \/ Prepare \/ fork \/ Settle \/ terminal_redraw \/ select
    BY <1>2 DEF terminal_raw, Prepare, fork, Settle, terminal_redraw, select
  <1>3. CASE ReadIn
    BY <1>3 DEF ReadIn, Len
  <1>4. CASE ReadOut
    BY <1>4 DEF ReadOut, Len
  <1>5. CASE PutIn
    BY <1>5 DEF PutIn, Written, WriteReturns
  <1>6. CASE PutOut \/ Flush
    BY <1>6 DEF PutOut, Flush, Written, WriteReturns
  <1>7. CASE Drain
    BY <1>7 DEF Drain, Len
  <1>8. CASE Interrupted \/ wait \/ Dies
    BY <1>8 DEF Interrupted, wait, Dies
  <1>9. CASE Forward
    BY <1>9 DEF Forward, Resume, WriteReturns
  <1>10. CASE Shell
    BY <1>10 DEF Shell, Login, LoginFails, ShellReads, ShellWrites, ShellChanges
  <1>11. CASE User
    BY <1>11 DEF User, Type, Resize, Killed, Interrupt
  <1> QED
    BY <1>1, <1>2, <1>3, <1>4, <1>5, <1>6, <1>7, <1>8, <1>9, <1>10, <1>11
    DEF Next, Main, Handlers, terminal_end

(* The signals that wait, and those vlogin has sent itself. *)
Waiting == pending \subseteq {"CHLD", "WINCH", "INT"} /\ self \subseteq {"WINCH", "INT"}

LEMMA WaitingStep == Waiting /\ [Next]_vars => Waiting'
  <1> SUFFICES ASSUME Waiting, [Next]_vars PROVE Waiting'
    OBVIOUS
  <1> USE DEF Waiting, signals
  <1>1. CASE UNCHANGED vars
    BY <1>1 DEF vars
  <1>2. CASE Main
    BY <1>2 DEF Main, terminal_raw, Prepare, fork, Settle, terminal_redraw, terminal_kill,
                Signal, select, ReadIn, PutIn, ReadOut, PutOut
  <1>3. CASE Handlers \/ Dies
    BY <1>3 DEF Handlers, Interrupted, terminal_end, Drain, Flush, wait, Dies, exit
  <1>4. CASE Forward
    <2> PICK s \in (pending \ {"CHLD"}) \cup self : terminal_kill(s, pending \ {s})
      BY <1>4 DEF Forward
    <2> s \in {"WINCH", "INT"}
      OBVIOUS
    <2> QED
      BY DEF terminal_kill
  <1>5. CASE Shell
    BY <1>5 DEF Shell, Login, LoginFails, ShellReads, ShellWrites, ShellChanges, Signal
  <1>6. CASE User
    BY <1>6 DEF User, Type, Resize, Killed, Interrupt, Signal
  <1> QED
    BY <1>1, <1>2, <1>3, <1>4, <1>5, <1>6 DEF Next

(* The states of vlogin, of its handler, of the terminal and of the shell. *)
States ==
    /\ pc \in {"start", "raw", "atexit", "pty", "ready", "forked", "signals", "pid",
              "loop", "in", "putin", "out", "putout", "gone"}
    /\ hand \in {"none", "drain", "flush", "wait"}
    /\ how \in {"none", "died", "chld", "killed"}
    /\ tty \in {"cooked", "raw"} /\ state \in {"reset", "raw"}
    /\ child \in {"none", "forked", "session", "tty", "shell", "stopped", "dead"}

LEMMA StatesStep == States /\ [Next]_vars => States'
  <1> SUFFICES ASSUME States, [Next]_vars PROVE States'
    OBVIOUS
  <1> USE DEF States, main
  <1>1. CASE UNCHANGED vars
    BY <1>1 DEF vars
  <1>2. CASE terminal_raw \/ Prepare \/ fork \/ Settle \/ terminal_redraw \/ select
    BY <1>2 DEF terminal_raw, Prepare, fork, Settle, terminal_redraw, terminal_kill, select, Step
  <1>3. CASE ReadIn \/ PutIn \/ ReadOut \/ PutOut
    BY <1>3 DEF ReadIn, PutIn, ReadOut, PutOut, Written, WriteReturns, Step
  <1>4. CASE Handlers \/ Dies
    BY <1>4 DEF Handlers, Interrupted, terminal_end, Drain, Flush, Reset, Written, WriteReturns,
                wait, Dies, exit, atexit
  <1>5. CASE Forward
    BY <1>5 DEF Forward, terminal_kill, Resume, WriteReturns
  <1>6. CASE Shell
    <2>1. CASE Login
      <3>1. child' \in {"session", "tty", "shell"}
        BY <2>1 DEF Login
      <3> QED
        BY <2>1, <3>1 DEF Login
    <2>2. CASE LoginFails \/ ShellReads \/ ShellWrites \/ ShellChanges
      BY <2>2 DEF LoginFails, ShellReads, ShellWrites, ShellChanges
    <2> QED
      BY <1>6, <2>1, <2>2 DEF Shell
  <1>7. CASE User
    BY <1>7 DEF User, Type, Resize, Killed, Interrupt
  <1> QED
    BY <1>1, <1>2, <1>3, <1>4, <1>5, <1>6, <1>7 DEF Next, Main

-----------------------------------------------------------------------------
LEMMA NothingToAdd ==
    ASSUME NEW p \in Nat, NEW o \in Nat, NEW w \in Nat, p + o <= w
    PROVE  p + o + 0 <= w
  OBVIOUS

LEMMA VloginAlways == Spec => []VloginInv
  <1>1. Init => VloginInv
    <2> SUFFICES ASSUME Init PROVE VloginInv
      OBVIOUS
    <2>1. Flags
      BY Zenon DEF Init, Flags
    <2>2. Counts /\ States /\ Waiting
      BY BoundsAssumption DEF Init, Counts, States, Waiting
    <2>3. ModeInv
      BY DEF Init, ModeInv, TerminalRestored
    <2>4. BytesInv
      BY DEF Init, BytesInv, InBuffer, OutputShown
    <2>5. printed + outq + InBuffer <= wrote
      BY DEF Init, InBuffer
    <2> QED
      BY <2>1, <2>2, <2>3, <2>4, <2>5, Zenon DEF VloginInv, TypeOK, Flags, Counts, States, Waiting
  <1>2. VloginInv /\ [Next]_vars => VloginInv'
    <2> SUFFICES ASSUME VloginInv, [Next]_vars PROVE VloginInv'
      OBVIOUS
    <2>1. ModeInv' /\ BytesInv'
      BY ModeStep, BytesStep
    <2>2. Flags'
      <3>1. Flags
        BY Zenon DEF VloginInv, TypeOK, Flags
      <3> QED
        BY <3>1, FlagsStep
    <2>3. Counts' /\ States' /\ Waiting'
      BY CountsStep, StatesStep, WaitingStep DEF VloginInv, TypeOK, Counts, States, Waiting
    <2>4. (printed + outq + InBuffer <= wrote)'
      <3>1. CASE pc' # "gone"
        BY <2>1, <3>1 DEF BytesInv
      <3>2. CASE pc' = "gone"
        <4>1. (printed \in Nat /\ outq \in Nat /\ wrote \in Nat)'
          BY <2>1, <2>3, BoundsAssumption DEF BytesInv, Counts
        <4>2. InBuffer' = 0
          BY <2>1, <3>2 DEF InBuffer, ModeInv
        <4> QED
          BY <2>1, <4>1, <4>2, NothingToAdd, Zenon DEF BytesInv
      <3> QED
        BY <3>1, <3>2
    <2> QED
      BY <2>1, <2>2, <2>3, <2>4, Zenon DEF VloginInv, TypeOK, Flags, Counts, States, Waiting
  <1> QED
    BY <1>1, <1>2, PTL DEF Spec

(* Every step of vlogin, of its handlers, of the shell and of the user     *)
(* keeps the types, and no byte is made up: what is printed, buffered or   *)
(* in the pseudo terminal was written by the shell.                        *)
THEOREM TypeCorrect == Spec => []TypeOK
  <1>1. VloginInv => TypeOK
    BY DEF VloginInv
  <1> QED
    BY <1>1, VloginAlways, PTL

(* Whatever makes vlogin exit, and in whatever step a signal finds it, the *)
(* user's terminal is left as it was: t.state never says that a terminal   *)
(* in raw mode was reset, also not when the child has reset it.            *)
THEOREM TerminalIsRestored == Spec => []TerminalRestored
  <1>1. VloginInv => TerminalRestored
    BY DEF VloginInv, ModeInv
  <1> QED
    BY <1>1, VloginAlways, PTL

(* All that the shell has written is on the terminal when vlogin exits     *)
(* after SIGCHLD, unless the signal came for a live shell or cut off a     *)
(* copy, or a write to stdout returned short because SIGWINCH or SIGINT    *)
(* was handled in the middle of it.                                        *)
THEOREM OutputIsShown == Spec => []OutputShown
  <1>1. VloginInv => OutputShown
    BY DEF VloginInv, BytesInv
  <1> QED
    BY <1>1, VloginAlways, PTL
=============================================================================
