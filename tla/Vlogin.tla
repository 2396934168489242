------------------------------- MODULE Vlogin -------------------------------
(***************************************************************************)
(* do_vlogin: after vcc login has entered a vserver it puts the terminal   *)
(* into raw mode, opens a pseudo terminal, forks a shell on it, and copies *)
(* between the two terminals until the shell ends.  All of its exits go    *)
(* through signals: SIGCHLD drains the output, resets the terminal, waits  *)
(* and exits.                                                              *)
(*                                                                         *)
(* Signals arrive between any two steps, and while a write is under way:   *)
(* one that has moved some bytes then returns short, and vlogin does not   *)
(* look at the count.  Bytes are counted, not told apart.  The shell may   *)
(* read, write, stop, continue and end as it likes.                        *)
(***************************************************************************)
EXTENDS Integers

CONSTANTS Cap,      \* bytes that fit into one direction of the pseudo terminal
          Size,     \* sizeof(buf)
          MaxKeys,  \* bound on the keys typed
          MaxOut,   \* bound on the bytes the shell writes
          NoGroup   \* TIOCGPGRP of a terminal without a foreground group

ASSUME BoundsAssumption == {Cap, Size, MaxKeys, MaxOut} \subseteq Nat \ {0}

(* 0 in the kernels since 2.6.21, -1 before. *)
ASSUME NoGroupAssumption == NoGroup \in {0, -1}

VARIABLES pc,       \* where do_vlogin is
          hand,     \* what the handler of SIGCHLD does, or "none"
          how,      \* how the process ended
          tty,      \* mode of the user's terminal
          state,    \* t.state
          pending,  \* signals that wait for their handler
          self,     \* signals that their handler has just sent to vlogin itself
          child,    \* the process that becomes the shell
          typed, eof,       \* keys on stdin, and its end
          keys,             \* history: keys typed so far
          ready, buf,       \* result of select, and the bytes still to be written
          part,             \* the write under way has moved some bytes
          inq, outq,        \* bytes in the pseudo terminal
          wrote, printed,   \* history: bytes of the shell, bytes on stdout
          cut, hung, short  \* history: SIGCHLD cut off a copy; SIGCHLD of a live
                            \* shell; a write to stdout returned short

main == <<pc, ready, buf, part>>
io == <<typed, eof, keys, inq, outq, wrote, printed>>
history == <<cut, hung, short>>
signals == <<pending, self>>
vars == <<main, hand, how, tty, state, signals, child, io, history>>

-----------------------------------------------------------------------------
(* Handlers and exits *)

Before == [s \in {"CHLD", "WINCH", "INT"} |->
              IF s = "CHLD" THEN {"start", "raw", "atexit", "pty"}
              ELSE {"start", "raw", "atexit", "pty", "ready", "forked"}]

(* Mutant: the handler of SIGCHLD is set up after the fork. *)
Installed_AfterFork(s) == pc \notin Before[s] \cup {"forked"}

(* signal(SIGCHLD) is before the fork, the others are after it. *)
Installed(s) == pc \notin Before[s]

(* A signal without a handler: SIGCHLD and SIGWINCH are ignored. *)
Signal(s) ==
    /\ pending' = (IF Installed(s) THEN pending \cup {s} ELSE pending)
    /\ UNCHANGED self

(* Mutant: the terminal is not reset at exit. *)
atexit_Forgotten == UNCHANGED <<tty, state>>

(* terminal_reset, registered after terminal_raw. *)
atexit ==
    IF state = "raw" THEN tty' = "cooked" /\ state' = "reset"
    ELSE UNCHANGED <<tty, state>>

(* exit and log_perror_and_die *)
exit(reason) ==
    /\ pc' = "gone" /\ hand' = "none" /\ how' = reason
    /\ pending' = {} /\ self' = {} /\ atexit

(* The pseudo terminal has a foreground group from TIOCSCTTY until the     *)
(* session leader has ended.                                               *)
Foreground == child \in {"tty", "shell", "stopped"}

(* kill(-0) is vlogin's own group: the signal comes back to vlogin, and    *)
(* SIGINT ends a child that has no session of its own yet.  The fallback   *)
(* is kill(-t.pid), and t.pid is 0 until it is saved.                      *)
terminal_kill(s, waiting) ==
    LET own == ~Foreground /\ (NoGroup = 0 \/ pc = "signals")
        hit == s = "INT" /\ child = (IF own THEN "forked" ELSE "session")
    IN /\ self' = (IF own THEN self \cup {s} ELSE self \ {s})
       /\ child' = (IF hit THEN "dead" ELSE child)
       /\ pending' = (IF hit THEN waiting \cup {"CHLD"} ELSE waiting)

(* A write ends: in terminal_end the loop goes on, in terminal_copy the    *)
(* caller.                                                                 *)
WriteReturns ==
    /\ part' = FALSE /\ buf' = 0
    /\ IF hand = "flush" THEN hand' = "drain" /\ UNCHANGED <<pc, ready>>
       ELSE /\ pc' = (IF pc = "putin" /\ ready THEN "out" ELSE "loop")
            /\ ready' = FALSE /\ UNCHANGED hand

(* One byte of a write. *)
Written ==
    IF buf > 1 THEN buf' = buf - 1 /\ part' = TRUE /\ UNCHANGED <<pc, ready, hand>>
    ELSE WriteReturns

(* A handler returns: a write that has moved nothing is restarted, one     *)
(* that has moved some bytes returns their number, which nobody looks at.  *)
Resume ==
    IF part THEN WriteReturns /\ short' = (short \/ hand = "flush" \/ pc = "putout")
    ELSE UNCHANGED <<main, hand, short>>

-----------------------------------------------------------------------------
(* do_vlogin *)

(* A signal vlogin has sent itself is handled before anything else. *)
Running == hand = "none" /\ pc # "gone" /\ self = {}
Step(from, to) == Running /\ pc = from /\ pc' = to

terminal_raw ==
    /\ Step("start", "raw") /\ tty' = "raw" /\ state' = "raw"
    /\ UNCHANGED <<hand, how, signals, child, io, history, ready, buf, part>>

(* atexit, openpty and signal(SIGCHLD) *)
Prepare ==
    /\ Step("raw", "atexit") \/ Step("atexit", "pty") \/ Step("pty", "ready")
    /\ UNCHANGED <<hand, how, tty, state, signals, child, io, history, ready, buf, part>>

fork ==
    /\ Step("ready", "forked") /\ child' = "forked"
    /\ UNCHANGED <<hand, how, tty, state, signals, io, history, ready, buf, part>>

(* signal(SIGWINCH), signal(SIGINT) and t.pid *)
Settle ==
    /\ Step("forked", "signals") \/ Step("signals", "pid")
    /\ UNCHANGED <<hand, how, tty, state, signals, child, io, history, ready, buf, part>>

(* stdin has a window size: terminal_raw has found a terminal. *)
terminal_redraw ==
    /\ Step("pid", "loop") /\ terminal_kill("WINCH", pending)
    /\ UNCHANGED <<hand, how, tty, state, io, history, ready, buf, part>>

(* Mutant: output waits until there is no input. *)
select_Else ==
    LET in == typed > 0 \/ eof
        out == outq > 0 /\ ~in
    IN /\ Running /\ pc = "loop" /\ (in \/ out)
       /\ pc' = (IF in THEN "in" ELSE "out") /\ ready' = out
       /\ UNCHANGED <<hand, how, tty, state, signals, child, io, history, buf, part>>

(* At its end stdin is always readable. *)
select ==
    LET in == typed > 0 \/ eof
        out == outq > 0
    IN /\ Running /\ pc = "loop" /\ (in \/ out)
       /\ pc' = (IF in THEN "in" ELSE "out") /\ ready' = out
       /\ UNCHANGED <<hand, how, tty, state, signals, child, io, history, buf, part>>

(* What a read into buf returns. *)
Len(queue) == IF queue < Size THEN queue ELSE Size

(* terminal_copy is a read and a write. *)
ReadIn ==
    /\ Step("in", "putin")
    /\ buf' = Len(typed) /\ typed' = typed - buf'
    /\ UNCHANGED <<hand, how, tty, state, signals, child, history, ready, part,
                   eof, keys, inq, outq, wrote, printed>>

(* The write waits for room; a write of nothing, after the end of stdin,   *)
(* does not.                                                               *)
PutIn ==
    /\ Running /\ pc = "putin" /\ Written
    /\ \/ buf > 0 /\ inq < Cap /\ inq' = inq + 1
       \/ buf = 0 /\ UNCHANGED inq
    /\ UNCHANGED <<how, tty, state, signals, child, history,
                   typed, eof, keys, outq, wrote, printed>>

ReadOut ==
    /\ Step("out", "putout")
    /\ buf' = Len(outq) /\ outq' = outq - buf'
    /\ UNCHANGED <<hand, how, tty, state, signals, child, history, ready, part,
                   typed, eof, keys, inq, wrote, printed>>

PutOut ==
    /\ Running /\ pc = "putout" /\ buf > 0 /\ Written /\ printed' = printed + 1
    /\ UNCHANGED <<how, tty, state, signals, child, history,
                   typed, eof, keys, inq, outq, wrote>>

(* tcsetattr, openpty, fork, select or a call in terminal_copy or          *)
(* terminal_end fails.                                                     *)
Dies ==
    /\ \/ Running /\ pc \in {"start", "atexit", "ready", "loop", "in", "putin", "out", "putout"}
       \/ hand \in {"drain", "flush"} /\ self = {}
    /\ exit("died")
    /\ UNCHANGED <<child, io, history, ready, buf, part>>

-----------------------------------------------------------------------------
(* signal_handler *)

(* The handler of SIGCHLD does not return, so a copy under way ends here.  *)
(* It may come on top of another handler, whose signal is then blocked     *)
(* until vlogin exits, or below it.                                        *)
Interrupted ==
    /\ "CHLD" \in pending /\ hand = "none" /\ pc # "gone"
    /\ hand' = "drain" /\ pending' = pending \ {"CHLD"} /\ self' \in {self, {}}
    /\ cut' = (cut \/ (pc = "putout" /\ buf > 0))
    /\ hung' = (hung \/ child # "dead")
    /\ buf' = 0 /\ part' = FALSE
    /\ UNCHANGED <<pc, ready, how, tty, state, child, io, short>>

Reset == tty' = (IF state = "raw" THEN "cooked" ELSE tty) /\ state' = "reset"

(* Mutant: the output is not drained. *)
Drain_Not ==
    /\ hand = "drain" /\ self = {} /\ hand' = "wait" /\ Reset
    /\ UNCHANGED <<main, how, signals, child, history, io>>

(* Mutant: the whole buffer is written, not the bytes that were read. *)
Drain_WholeBuffer ==
    /\ hand = "drain" /\ self = {}
    /\ \/ outq > 0 /\ hand' = "flush" /\ buf' = Size /\ outq' = outq - Len(outq)
          /\ UNCHANGED <<tty, state>>
       \/ outq = 0 /\ hand' = "wait" /\ Reset /\ UNCHANGED <<buf, outq>>
    /\ UNCHANGED <<pc, ready, part, how, signals, child, history,
                   typed, eof, keys, inq, wrote, printed>>

(* The read does not block: the loop ends when nothing is left. *)
Drain ==
    /\ hand = "drain" /\ self = {}
    /\ \/ outq > 0 /\ hand' = "flush" /\ buf' = Len(outq) /\ outq' = outq - buf'
          /\ UNCHANGED <<tty, state>>
       \/ outq = 0 /\ hand' = "wait" /\ Reset /\ UNCHANGED <<buf, outq>>
    /\ UNCHANGED <<pc, ready, part, how, signals, child, history,
                   typed, eof, keys, inq, wrote, printed>>

Flush ==
    /\ hand = "flush" /\ self = {} /\ buf > 0 /\ Written /\ printed' = printed + 1
    /\ UNCHANGED <<how, tty, state, signals, child, history,
                   typed, eof, keys, inq, outq, wrote>>

terminal_end == Drain \/ Flush

(* wait returns when the shell has ended; exit(WEXITSTATUS(sig)) is 0. *)
wait ==
    /\ hand = "wait" /\ child = "dead" /\ self = {}
    /\ exit("chld")
    /\ UNCHANGED <<child, io, history, ready, buf, part>>

(* SIGWINCH redraws, SIGINT is passed on.  Neither is blocked by SIGCHLD.  *)
(* While there is no foreground group the handler runs again and again.    *)
Forward ==
    /\ pc # "gone"
    /\ \E s \in (pending \ {"CHLD"}) \cup self : terminal_kill(s, pending \ {s})
    /\ Resume
    /\ UNCHANGED <<how, tty, state, io, cut, hung>>

-----------------------------------------------------------------------------
(* The child, the shell and the user *)

Alive == child \in {"shell", "stopped"}

(* setsid, TIOCSCTTY, execvp *)
Login ==
    /\ child' = CASE child = "forked"  -> "session"
                  [] child = "session" -> "tty"
                  [] child = "tty"     -> "shell"
                  [] OTHER             -> child
    /\ child' # child
    /\ UNCHANGED <<main, hand, how, tty, state, signals, io, history>>

(* It has inherited atexit and t.state.  Until dup2 its stdin is the       *)
(* user's terminal.                                                        *)
LoginFails ==
    /\ child \in {"forked", "session", "tty"} /\ child' = "dead"
    /\ tty' = (IF child # "tty" THEN "cooked" ELSE tty)
    /\ Signal("CHLD")
    /\ UNCHANGED <<main, hand, how, state, io, history>>

ShellReads ==
    /\ child = "shell" /\ inq > 0 /\ inq' = 0
    /\ UNCHANGED <<main, hand, how, tty, state, signals, child, history,
                   typed, eof, keys, outq, wrote, printed>>

ShellWrites ==
    /\ child = "shell" /\ outq < Cap /\ wrote < MaxOut
    /\ outq' = outq + 1 /\ wrote' = wrote + 1
    /\ UNCHANGED <<main, hand, how, tty, state, signals, child, history,
                   typed, eof, keys, inq, printed>>

(* SIGCHLD is sent for all of these. *)
ShellChanges ==
    /\ Alive
    /\ child' \in {"shell", "stopped", "dead"} \ {child}
    /\ Signal("CHLD")
    /\ UNCHANGED <<main, hand, how, tty, state, io, history>>

Type ==
    /\ pc # "gone" /\ ~eof
    /\ \/ keys < MaxKeys /\ typed' = typed + 1 /\ keys' = keys + 1 /\ UNCHANGED eof
       \/ typed = 0 /\ eof' = TRUE /\ UNCHANGED <<typed, keys>>
    /\ UNCHANGED <<main, hand, how, tty, state, signals, child, history,
                   inq, outq, wrote, printed>>

Resize ==
    /\ pc # "gone" /\ Signal("WINCH")
    /\ UNCHANGED <<main, hand, how, tty, state, child, io, history>>

(* SIGTERM and SIGHUP have no handler, and SIGINT has none in the          *)
(* beginning: no exit, no reset.                                           *)
Killed ==
    /\ pc # "gone"
    /\ pc' = "gone" /\ hand' = "none" /\ how' = "killed" /\ pending' = {} /\ self' = {}
    /\ UNCHANGED <<ready, buf, part, tty, state, child, io, history>>

Interrupt ==
    /\ pc # "gone" /\ Installed("INT") /\ Signal("INT")
    /\ UNCHANGED <<main, hand, how, tty, state, child, io, history>>

-----------------------------------------------------------------------------
Init ==
    /\ pc = "start" /\ hand = "none" /\ how = "none"
    /\ tty = "cooked" /\ state = "reset" /\ pending = {} /\ self = {} /\ child = "none"
    /\ typed = 0 /\ eof = FALSE /\ keys = 0 /\ ready = FALSE /\ buf = 0 /\ part = FALSE
    /\ inq = 0 /\ outq = 0 /\ wrote = 0 /\ printed = 0
    /\ cut = FALSE /\ hung = FALSE /\ short = FALSE

Main == terminal_raw \/ Prepare \/ fork \/ Settle \/ terminal_redraw
        \/ select \/ ReadIn \/ PutIn \/ ReadOut \/ PutOut
Handlers == Interrupted \/ terminal_end \/ wait
Shell == Login \/ LoginFails \/ ShellReads \/ ShellWrites \/ ShellChanges
User == Type \/ Resize \/ Killed \/ Interrupt

Next == Main \/ Handlers \/ Forward \/ Dies \/ Shell \/ User

(* The process runs, its signals are delivered, the user's terminal takes  *)
(* output, and a child that was forked goes on to its shell.  The shell    *)
(* need not read, write, end or continue.                                  *)
Fairness ==
    /\ WF_vars(Main) /\ WF_vars(Handlers) /\ WF_vars(Forward)
    /\ WF_vars(Login)

Spec == Init /\ [][Next]_vars /\ Fairness

-----------------------------------------------------------------------------
(* Properties *)

(* Output that was read and is not yet written. *)
InBuffer == IF pc = "putout" \/ hand = "flush" THEN buf ELSE 0

(* Types of the state.  No byte is made up: what is printed, buffered or   *)
(* in the pseudo terminal was written by the shell.                        *)
TypeOK ==
    /\ pc \in {"start", "raw", "atexit", "pty", "ready", "forked", "signals", "pid",
              "loop", "in", "putin", "out", "putout", "gone"}
    /\ hand \in {"none", "drain", "flush", "wait"}
    /\ how \in {"none", "died", "chld", "killed"}
    /\ tty \in {"cooked", "raw"} /\ state \in {"reset", "raw"}
    /\ pending \subseteq {"CHLD", "WINCH", "INT"} /\ self \subseteq {"WINCH", "INT"}
    /\ child \in {"none", "forked", "session", "tty", "shell", "stopped", "dead"}
    /\ inq \in 0 .. Cap /\ outq \in 0 .. Cap /\ buf \in 0 .. Size
    /\ wrote \in 0 .. MaxOut /\ keys \in 0 .. MaxKeys /\ typed \in 0 .. keys
    /\ printed + outq + InBuffer <= wrote
    /\ {eof, ready, part, cut, hung, short} \subseteq BOOLEAN

(* Whatever makes vlogin exit, in the middle of its setup, in its loop or  *)
(* in a handler, the user's terminal is as it was before.  Only a signal   *)
(* that kills it leaves the terminal raw.                                  *)
TerminalRestored == how \in {"died", "chld"} /\ pc = "gone" => tty = "cooked"

(* When the shell has ended, all it wrote is on the user's terminal,       *)
(* although SIGCHLD may come before the loop has seen any of it and        *)
(* terminal_end needs several rounds.  Bytes are missing only if SIGCHLD   *)
(* cut off a copy before the end of its write, if it came because the      *)
(* shell was stopped, or if SIGWINCH or SIGINT was handled in the middle   *)
(* of a write to stdout, which then returned short.                        *)
OutputShown == how = "chld" /\ ~cut /\ ~hung /\ ~short => printed = wrote

(* vlogin ends when its shell has ended, however early that was and        *)
(* wherever vlogin waits: the handler is set up before the fork, and       *)
(* nothing else would tell, since vlogin keeps the slave side open.  The   *)
(* one other outcome is a SIGWINCH or SIGINT on top of the handler of      *)
(* SIGCHLD, when the terminal has lost its foreground group:               *)
(* terminal_kill sends it to vlogin, whose handler sends it again, for     *)
(* ever.                                                                   *)
EndsWithShell ==
    child = "dead" ~> pc = "gone" \/ [](hand # "none" /\ self # {})

(* Output that is in the pseudo terminal gets out of it, also when stdin   *)
(* is at its end and select returns at once for ever.  Whether the shell   *)
(* reads is left open: what keeps output back for good is a shell that     *)
(* leaves its input full while vlogin waits to write more of it, a signal  *)
(* that vlogin sends itself for ever, or SIGCHLD of a live shell.          *)
OutputMoves ==
    outq > 0 ~> \/ outq = 0 \/ pc = "gone" \/ hung
                \/ [](pc = "putin" /\ inq = Cap)
                \/ [](self # {})
=============================================================================
