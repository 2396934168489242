---------------------------- MODULE ClientProofs ----------------------------
(***************************************************************************)
(* Proofs about Client, for any clients, sessions and options, any         *)
(* database that is in order in the beginning and any outcome of the calls *)
(* to the kernel: passwords go with their users, the database stays in     *)
(* order, rows change only for the vserver that was named, what cmd_login  *)
(* and vg.vx.stop have learnt of a name holds until somebody else touches  *)
(* it, every call and every answer has the format its reader expects, and  *)
(* vce, the network and vcd together implement VceSpec.                    *)
(*                                                                         *)
(* PassInv is about the settings of a client, LockInv about the database,  *)
(* the locks and how far each process has come, and MeantInv about what an *)
(* answer said.  A step of one client keeps the other clients' parts of    *)
(* LockInv because rows and xids of a name change only under its lock, and *)
(* theirs of MeantInv because whoever changes a name tells all the others. *)
(*                                                                         *)
(* FormatInv ties the call and the answer of a process to the command line *)
(* they were made from, and VisibleInv says that no row is printed as an   *)
(* empty line.  With the two, Lookup is the Aim of its command line in     *)
(* VceSpec, the Execute step of a method on a table of rows its Change or  *)
(* its Show, every refusal its Fail and Lost its Lose; Body of vx.create,  *)
(* vx.remove and vx.rename is a step of the registry, and no other step is *)
(* seen there.                                                             *)
(***************************************************************************)
EXTENDS Client, WellFoundedInduction, TLAPS

-----------------------------------------------------------------------------
(* Passwords *)

SettingFields == {"host", "port", "user", "pass", "dead"}
ProcFields == DOMAIN Idle

(* The password read so far is none, or that of a file with this user. *)
FromFile(user, pass) ==
    \E f \in DOMAIN Configs : Configs[f].user = user /\ Configs[f].pass = pass
Kept(s) ==
    /\ s = [f \in SettingFields |-> s[f]]
    /\ s.pass = "NULL" \/ FromFile(s.user, s.pass)

Sent(p) == p.at # "idle" => p.pass = Typed[p.user] \/ FromFile(p.user, p.pass)

Shape ==
    /\ proc = [c \in Clients |-> proc[c]]
    /\ \A c \in Clients : proc[c] = [f \in ProcFields |-> proc[c][f]]
    /\ settings = [c \in Clients |-> settings[c]]

PassInv ==
    /\ Shape
    /\ \A c \in Clients : Kept(settings[c]) /\ Sent(proc[c])

LEMMA DefaultKept == Kept(DefaultConfig)
<1>1. CASE "vcc.conf" \in DOMAIN Configs
  <2>1. DefaultConfig = Loaded("vcc.conf")
    BY <1>1 DEF DefaultConfig
  <2>2. QED  BY <1>1, <2>1 DEF Loaded, Kept, FromFile, SettingFields
<1>2. CASE "vcc.conf" \notin DOMAIN Configs
  BY <1>2 DEF DefaultConfig, Kept, SettingFields
<1>3. QED  BY <1>1, <1>2

(* An option leaves a password with its own user. *)
LEMMA OptionKeeps ==
    ASSUME NEW s, NEW o, Kept(s)
    PROVE  Kept(Option(s, o))
<1>1. CASE o[1] = "c"
  <2>1. CASE s.dead \/ o[2] \notin DOMAIN Configs
    BY <1>1, <2>1 DEF Option, read_config, Kept, SettingFields
  <2>2. CASE ~(s.dead \/ o[2] \notin DOMAIN Configs)
    <3>1. Option(s, o) = Loaded(o[2])
      BY <1>1, <2>2 DEF Option, read_config
    <3>2. QED  BY <2>2, <3>1 DEF Loaded, Kept, FromFile, SettingFields
  <2>3. QED  BY <2>1, <2>2
<1>2. CASE o[1] \in {"h", "p", "u"}
  BY <1>2 DEF Option, Kept, SettingFields
<1>3. CASE o[1] \notin {"c", "h", "p", "u"}
  BY <1>3 DEF Option, Kept, SettingFields
<1>4. QED  BY <1>1, <1>2, <1>3

(* A step of c's process, in which only fields of F may change. *)
Step(c, F) ==
    /\ proc' = [p \in Clients |-> proc'[p]]
    /\ \A p \in Clients \ {c} : proc'[p] = proc[p]
    /\ proc'[c] = [f \in ProcFields |-> proc'[c][f]]
    /\ \A f \in ProcFields \ F : proc'[c][f] = proc[c][f]

Work == {"at", "fault", "answer", "xid", "todo", "members"}

LEMMA AnswerStep ==
    ASSUME Shape, NEW c \in Clients, NEW r, Answer(c, r)
    PROVE  /\ Step(c, Work \ {"members"})
           /\ proc'[c].at = "answered" /\ proc'[c].fault = r.fault
           /\ proc'[c].answer = r.answer /\ proc'[c].xid = 0
<1>1. proc' = [proc EXCEPT ![c].at = "answered", ![c].fault = r.fault,
                           ![c].answer = r.answer, ![c].xid = 0, ![c].todo = {}]
  BY DEF Answer
<1>2. QED  BY <1>1 DEF Shape, ProcFields, Idle, Step, Work

LEMMA RefuseStep ==
    ASSUME Shape, NEW c \in Clients, NEW id, Refuse(c, id)
    PROVE  /\ Step(c, Work \ {"members"})
           /\ proc'[c].at = "answered" /\ proc'[c].fault = id /\ db' = db
<1>1. Answer(c, Refused(db, id))
  BY DEF Refuse
<1>2. db' = db
  BY <1>1 DEF Answer, Refused
<1>3. QED  BY <1>1, <1>2, AnswerStep DEF Refused

(* The process of a client works on its call, and leaves the client alone. *)
LEMMA DaemonStep ==
    ASSUME Shape, NEW c \in Clients, Daemon(c) \/ Lost(c), ~Exit(c)
    PROVE  /\ Step(c, Work)
           /\ proc[c].at \in {"calling", "checked", "begun", "looked", "looping", "answered"}
           /\ proc[c].at = "answered" => Lost(c)
           /\ proc'[c].at # "idle"
           /\ settings' = settings /\ left' = left /\ late' = late
<1>0. ASSUME Step(c, Work \ {"members"}) PROVE Step(c, Work)
  BY <1>0 DEF Step
<1>1. CASE method_default(c)
  BY <1>1, <1>0, RefuseStep DEF method_default
<1>2. CASE method_init(c)
  <2>1. /\ proc[c].at = "calling"
        /\ settings' = settings /\ left' = left /\ late' = late
    BY <1>2 DEF method_init
  <2>2. \/ \E r : Answer(c, r)
        \/ proc' = [proc EXCEPT ![c].at =
                       IF Method(c) \in M_LOCK THEN "checked" ELSE "begun"]
    BY <1>2, Zenon DEF method_init
  <2>3. CASE \E r : Answer(c, r)
    BY <2>1, <2>3, <1>0, AnswerStep
  <2>4. CASE proc' = [proc EXCEPT ![c].at =
                        IF Method(c) \in M_LOCK THEN "checked" ELSE "begun"]
    BY <2>1, <2>4 DEF Shape, ProcFields, Idle, Step, Work
  <2>5. QED  BY <2>2, <2>3, <2>4
<1>3. CASE method_lock(c)
  <2>1. CASE Refuse(c, "MEBUSY")
    BY <1>3, <2>1, <1>0, RefuseStep DEF method_lock
  <2>2. CASE proc' = [proc EXCEPT ![c].at = "begun"]
    BY <1>3, <2>2 DEF method_lock, Shape, ProcFields, Idle, Step, Work
  <2>3. QED  BY <1>3, <2>1, <2>2 DEF method_lock
<1>4. CASE Lookup(c)
  <2>1. CASE \E id : Refuse(c, id)
    BY <1>4, <2>1, <1>0, RefuseStep DEF Lookup
  <2>2. CASE \E xid : proc' = [proc EXCEPT ![c].at = "looked", ![c].xid = xid]
    BY <1>4, <2>2 DEF Lookup, Shape, ProcFields, Idle, Step, Work
  <2>3. QED  BY <1>4, <2>1, <2>2, Zenon DEF Lookup
<1>5. CASE Execute(c)
  <2>1. \E r : Answer(c, r)
    BY <1>5, Zenon DEF Execute, Refuse
  <2>2. QED  BY <1>5, <2>1, <1>0, AnswerStep DEF Execute
<1>6. CASE Body(c)
  <2>1. \E r : Answer(c, r)
    BY <1>6, Zenon DEF Body, Refuse
  <2>2. QED  BY <1>6, <2>1, <1>0, AnswerStep DEF Body
<1>7. CASE GroupList(c)
  <2>1. CASE \E id : Refuse(c, id)
    BY <1>7, <2>1, <1>0, RefuseStep DEF GroupList
  <2>2. CASE \E a, b : proc' = [proc EXCEPT ![c].at = "looping", ![c].todo = a,
                                            ![c].members = b]
    <3>1. Step(c, Work) /\ proc'[c].at = "looping"
      BY <2>2, SMTT(30) DEF Shape, ProcFields, Idle, Step, Work
    <3>2. QED  BY <1>7, <3>1 DEF GroupList
  <2>3. QED  BY <1>7, <2>1, <2>2, Zenon DEF GroupList
<1>8. CASE GroupMember(c)
  <2>1. CASE \E r : Answer(c, r)
    BY <1>8, <2>1, <1>0, AnswerStep DEF GroupMember
  <2>2. CASE \E pos : proc' = [proc EXCEPT ![c].todo = @ \ {pos}]
    <3>1. Step(c, Work) /\ proc'[c].at = proc[c].at
      BY <2>2 DEF Shape, ProcFields, Idle, Step, Work
    <3>2. QED  BY <1>8, <3>1 DEF GroupMember
  <2>3. QED  BY <1>8, <2>1, <2>2, Zenon DEF GroupMember
<1>9. CASE GroupEnd(c)
  BY <1>9, <1>0, AnswerStep DEF GroupEnd
<1>10. CASE Lost(c)
  BY <1>10, <1>0, RefuseStep DEF Lost
<1>11. QED
  BY <1>1, <1>2, <1>3, <1>4, <1>5, <1>6, <1>7, <1>8, <1>9, <1>10, Zenon DEF Daemon

LEMMA AskStep ==
    ASSUME Shape, NEW c \in Clients, AskVdir(c)
    PROVE  /\ Step(c, {"at", "got", "call"})
           /\ proc[c].at = "answered" /\ proc'[c].at = "calling"
           /\ proc'[c].got = proc[c].answer[2]
           /\ proc'[c].call = [method |-> "vxdb.vdir.get", params |-> Params(c), reply |-> Text]
<1>1. proc[c].at = "answered"
  BY DEF AskVdir
<1> DEFINE k == [method |-> "vxdb.vdir.get", params |-> Params(c), reply |-> Text]
           x == proc[c].answer[2]
<1>2. proc' = [proc EXCEPT ![c].at = "calling", ![c].got = x, ![c].call = k]
  BY DEF AskVdir
<1> HIDE DEF k, x
<1>3. /\ Step(c, {"at", "got", "call"})
      /\ proc'[c].at = "calling" /\ proc'[c].got = x /\ proc'[c].call = k
  BY <1>2 DEF Step, Shape, ProcFields, Idle
<1>4. QED  BY <1>1, <1>3 DEF k, x

LEMMA ReceiveStep ==
    ASSUME Shape, NEW c \in Clients, Receive(c)
    PROVE  Step(c, ProcFields) /\ proc'[c] = Idle
  BY DEF Receive, Step, Shape, ProcFields, Idle

(* A command line that is refused ends; any other has the user and the     *)
(* password of the settings, the call of its command, and nothing of the   *)
(* command before it.                                                      *)
Short(l) == [tool |-> l.tool, cmd |-> l.cmd, argv |-> l.argv]
Makes(k, l) == k.method \notin {"invalid", "usage"} /\ \E g \in Garbage : k = CallOf(l, g)

LEMMA MainStep ==
    ASSUME Shape, NEW c \in Clients, main(c)
    PROVE  /\ Step(c, ProcFields)
           /\ \/ proc'[c] = Idle
              \/ /\ proc'[c].at \in {"calling", "answered"}
                 /\ proc'[c].fault \in {"none", "TRANSPORT"}
                 /\ proc'[c].at = "answered" => proc'[c].fault = "TRANSPORT"
                 /\ proc'[c].user = settings[c].user
                 /\ proc'[c].pass = read_password(settings[c])
                 /\ proc'[c].line = Short(Head(left[c]))
                 /\ Makes(proc'[c].call, Head(left[c]))
                 /\ proc'[c].got = 0 /\ proc'[c].xid = 0 /\ proc'[c].members = {}
<1> DEFINE New(next, l, k) ==
              /\ next = [f \in ProcFields |-> next[f]]
              /\ next.at \in {"calling", "answered"}
              /\ next.fault \in {"none", "TRANSPORT"}
              /\ next.at = "answered" => next.fault = "TRANSPORT"
              /\ next.user = settings[c].user
              /\ next.pass = read_password(settings[c])
              /\ next.line = l /\ next.call = k
              /\ next.got = 0 /\ next.xid = 0 /\ next.members = {}
<1> DEFINE Base(l, u, p, k) == [Idle EXCEPT !.line = l, !.user = u, !.pass = p, !.call = k]
           Fails(n) == [n EXCEPT !.at = "answered", !.fault = "TRANSPORT"]
           Calls(n) == [n EXCEPT !.at = "calling"]
<1>1. \A l, k : LET n == Base(l, settings[c].user, read_password(settings[c]), k) IN
                New(Fails(n), l, k) /\ New(Calls(n), l, k)
  <2> TAKE l, k
  <2> DEFINE u == settings[c].user
             p == read_password(settings[c])
             n == Base(l, u, p, k)
  <2> HIDE DEF u, p
  <2>1. /\ n = [f \in ProcFields |-> n[f]] /\ n.user = u /\ n.pass = p
        /\ n.line = l /\ n.call = k /\ n.fault = "none"
        /\ n.got = 0 /\ n.xid = 0 /\ n.members = {}
        /\ ProcFields = {"at", "line", "user", "pass", "call", "xid", "fault", "answer",
                         "got", "todo", "members"}
    BY DEF Idle, ProcFields
  <2> HIDE DEF n
  <2>2. New(Fails(n), l, k) /\ New(Calls(n), l, k)
    BY <2>1 DEF u, p
  <2>3. QED  BY <2>2 DEF n, u, p
<1> DEFINE line == Short(Head(left[c]))
<1>2. \E next : /\ proc' = [proc EXCEPT ![c] = next]
                /\ next = Idle \/ \E k : New(next, line, k) /\ Makes(k, Head(left[c]))
  <2>1. \E k : LET n == Base(line, settings[c].user, read_password(settings[c]), k) IN
           \/ proc' = [proc EXCEPT ![c] = Idle]
           \/ /\ Makes(k, Head(left[c]))
              /\ \/ proc' = [proc EXCEPT ![c] = Fails(n)]
                 \/ proc' = [proc EXCEPT ![c] = Calls(n)]
    <3>1. PICK g \in Garbage :
            LET l == Head(left[c])
                s == settings[c]
                call == CallOf(l, g)
                dies == s.dead \/ s.user \in {"", "NULL"} \/ call.method \in {"invalid", "usage"}
                next == [Idle EXCEPT !.line = [tool |-> l.tool, cmd |-> l.cmd,
                                               argv |-> l.argv],
                                     !.user = s.user, !.pass = read_password(s), !.call = call]
            IN proc' = [proc EXCEPT ![c] =
                  IF dies THEN Idle
                  ELSE IF Listen # [host |-> s.host, port |-> s.port]
                       THEN [next EXCEPT !.at = "answered", !.fault = "TRANSPORT"]
                  ELSE [next EXCEPT !.at = "calling"]]
      BY Zenon DEF main
    <3> DEFINE call == CallOf(Head(left[c]), g)
               none == call.method \in {"invalid", "usage"}
               dies == settings[c].dead \/ settings[c].user \in {"", "NULL"} \/ none
               far == Listen # [host |-> settings[c].host, port |-> settings[c].port]
               n == Base(line, settings[c].user, read_password(settings[c]), call)
    <3>2. proc' = [proc EXCEPT ![c] = IF dies THEN Idle ELSE IF far THEN Fails(n) ELSE Calls(n)]
      BY <3>1, Zenon DEF Short
    <3>3. ~none => Makes(call, Head(left[c]))
      BY Zenon DEF Makes
    <3>4. ~dies => ~none
      OBVIOUS
    <3> HIDE DEF line, call, dies, far, none
    <3>5. \/ proc' = [proc EXCEPT ![c] = Idle]
          \/ /\ Makes(call, Head(left[c]))
             /\ \/ proc' = [proc EXCEPT ![c] = Fails(n)]
                \/ proc' = [proc EXCEPT ![c] = Calls(n)]
      BY <3>2, <3>3, <3>4, Zenon
    <3>6. QED  BY <3>5, Zenon
  <2> HIDE DEF New, Base, Fails, Calls, line
  <2>2. QED  BY <1>1, <2>1, Zenon
<1>3. PICK next : /\ proc' = [proc EXCEPT ![c] = next]
                  /\ next = Idle \/ \E k : New(next, line, k) /\ Makes(k, Head(left[c]))
  BY <1>2
<1>4. Idle = [f \in ProcFields |-> Idle[f]]
  BY DEF Idle, ProcFields
<1> HIDE DEF line
<1>5. next = [f \in ProcFields |-> next[f]]
  BY <1>3, <1>4
<1>6. proc'[c] = next /\ Step(c, ProcFields)
  BY <1>3, <1>5 DEF Step, Shape
<1>7. QED  BY <1>3, <1>6 DEF line

LEMMA PassInit == Init => PassInv
<1> SUFFICES ASSUME Init PROVE PassInv
  OBVIOUS
<1>1. settings = [c \in Clients |-> DefaultConfig] /\ proc = [c \in Clients |-> Idle]
  BY DEF Init
<1>2. Idle = [f \in ProcFields |-> Idle[f]] /\ Idle.at = "idle"
  BY DEF Idle, ProcFields
<1>3. Shape
  BY <1>1, <1>2 DEF Shape
<1>4. \A c \in Clients : Kept(settings[c]) /\ Sent(proc[c])
  BY <1>1, <1>2, DefaultKept DEF Sent
<1>5. QED  BY <1>3, <1>4 DEF PassInv

LEMMA PassNext == PassInv /\ [Next]_vars => PassInv'
<1> SUFFICES ASSUME PassInv, [Next]_vars PROVE PassInv'
  OBVIOUS
<1>0. Shape /\ \A c \in Clients : Kept(settings[c]) /\ Sent(proc[c])
  BY DEF PassInv
<1>1. ASSUME NEW c \in Clients, NEW F, Step(c, F), Sent(proc'[c]),
             settings' = [p \in Clients |-> settings'[p]],
             \A p \in Clients : Kept(settings'[p])
      PROVE  PassInv'
  BY <1>0, <1>1 DEF PassInv, Shape, Step
<1>2. CASE UNCHANGED <<proc, settings>>
  BY <1>0, <1>2 DEF PassInv, Shape
<1>3. ASSUME NEW c \in Clients, getopt(c) PROVE PassInv'
  <2>1. proc' = proc /\ settings' = [settings EXCEPT ![c] = Option(@, Head(Head(left[c]).opts))]
    BY <1>3 DEF getopt
  <2>2. settings' = [p \in Clients |-> IF p = c THEN Option(settings[c], Head(Head(left[c]).opts))
                                      ELSE settings[p]]
    BY <2>1, <1>0 DEF Shape
  <2>3. Kept(Option(settings[c], Head(Head(left[c]).opts)))
    BY <1>0, OptionKeeps
  <2>4. QED  BY <1>0, <2>1, <2>2, <2>3 DEF PassInv, Shape
<1>4. ASSUME NEW c \in Clients, main(c) PROVE PassInv'
  <2>1. settings' = [p \in Clients |-> IF p = c THEN DefaultConfig ELSE settings[p]]
    BY <1>0, <1>4 DEF main, Shape
  <2>2. \A p \in Clients : Kept(settings'[p])
    BY <2>1, <1>0, DefaultKept
  <2>3. Sent(proc'[c])
    <3>0. Idle.at = "idle"
      BY DEF Idle
    <3>1. CASE proc'[c] = Idle
      BY <3>0, <3>1 DEF Sent
    <3>2. CASE /\ proc'[c].user = settings[c].user
               /\ proc'[c].pass = read_password(settings[c])
      BY <1>0, <3>2 DEF Sent, Kept, read_password
    <3>3. QED  BY <1>0, <1>4, <3>1, <3>2, MainStep
  <2>4. QED  BY <1>0, <1>1, <1>4, <2>1, <2>2, <2>3, MainStep
<1>5. ASSUME NEW c \in Clients, AskVdir(c) PROVE PassInv'
  <2>1. settings' = settings
    BY <1>5 DEF AskVdir
  <2>2. Step(c, {"at", "got", "call"}) /\ proc[c].at = "answered"
    BY <1>0, <1>5, AskStep
  <2>3. Sent(proc'[c])
    <3>1. {"user", "pass"} \subseteq ProcFields \ {"at", "got", "call"}
      BY DEF ProcFields, Idle
    <3>2. proc'[c].user = proc[c].user /\ proc'[c].pass = proc[c].pass
      BY <2>2, <3>1 DEF Step
    <3>3. QED  BY <1>0, <2>2, <3>2 DEF Sent
  <2>4. QED  BY <1>0, <1>1, <2>1, <2>2, <2>3 DEF Shape
<1>6. ASSUME NEW c \in Clients, Receive(c) PROVE PassInv'
  <2>1. settings' = settings /\ Sent(proc'[c])
    <3>1. Idle.at = "idle"
      BY DEF Idle
    <3>2. settings' = settings
      BY <1>6 DEF Receive
    <3>3. QED  BY <1>0, <1>6, <3>1, <3>2, ReceiveStep DEF Sent
  <2>2. QED  BY <1>0, <1>1, <1>6, <2>1, ReceiveStep DEF Shape
<1>7. ASSUME NEW c \in Clients, Daemon(c) \/ Lost(c), ~Exit(c) PROVE PassInv'
  <2>1. Step(c, Work) /\ proc[c].at # "idle" /\ settings' = settings
    BY <1>0, <1>7, DaemonStep
  <2>2. Sent(proc'[c])
    BY <1>0, <2>1 DEF Sent, Step, Work, ProcFields, Idle
  <2>3. QED  BY <1>0, <1>1, <2>1, <2>2 DEF Shape
<1>8. ASSUME NEW c \in Clients, Exit(c) \/ vxpasswd(c) PROVE PassInv'
  BY <1>2, <1>8 DEF Exit, vxpasswd
<1>9. CASE Guest \/ Terminated \/ UNCHANGED vars
  BY <1>2, <1>9 DEF Guest, Terminated, vars
<1>10. QED
  BY <1>3, <1>4, <1>5, <1>6, <1>7, <1>8, <1>9, Zenon DEF Next, Program

(* A password reaches the daemon only with the user it belongs to,         *)
(* whatever -c and -u the command line has and in whatever order: case 'u' *)
(* of main takes the password of the file away with its user.              *)
THEOREM OwnPasswordHolds == Spec => []OwnPassword
<1>1. PassInv => OwnPassword
  BY DEF PassInv, Sent, FromFile, OwnPassword
<1>2. QED  BY PassInit, PassNext, <1>1, PTL DEF Spec

-----------------------------------------------------------------------------
(* What the methods leave of the registry *)

(* Methods that ask. *)
LEMMA AskingKeeps ==
    ASSUME NEW d, NEW q, NEW user, NEW r, NEW n, NEW b
    PROVE  /\ m_vxdb_xid_get(d, q).next = d
           /\ m_vxdb_name_get(d, q).next = d
           /\ m_vxdb_vdir_get(d, q).next = d
           /\ m_vxdb_owner_get(d, q).next = d
           /\ m_vxdb_list(d, q, user).next = d
           /\ m_vcd_hostinfo(d).next = d
           /\ m_vcd_login(d).next = d
           /\ m_vcd_status(d, n).next = d
           /\ m_vcd_user_get(d, q).next = d
           /\ m_vcd_user_caps_get(d, q).next = d
           /\ m_vg_list(d, q).next = d
           /\ m_vx_status(d, q, b, n).next = d
           /\ m_vx_limstatus(d, q, n).next = d
           /\ m_vx_netstatus(d, q, n).next = d
           /\ m_vx_templates(d, q).next = d
           /\ m_vx_exec(d, q, r).next = d
           /\ m_vx_reboot(d, q, r).next = d
           /\ m_vx_kill(d, q, r).next = d
<1>1. m_vxdb_xid_get(d, q).next = d
  BY DEF m_vxdb_xid_get, OfUser, Running, Named, Checked, Answered, Changed, Refused
<1>2. m_vxdb_name_get(d, q).next = d
  BY DEF m_vxdb_name_get, OfUser, Running, Named, Checked, Answered, Changed, Refused
<1>3. m_vxdb_vdir_get(d, q).next = d
  BY DEF m_vxdb_vdir_get, OfUser, Running, Named, Checked, Answered, Changed, Refused
<1>4. m_vxdb_owner_get(d, q).next = d
  BY DEF m_vxdb_owner_get, OfUser, Running, Named, Checked, Answered, Changed, Refused
<1>5. m_vxdb_list(d, q, user).next = d
  BY DEF m_vxdb_list, OfUser, Running, Named, Checked, Answered, Changed, Refused
<1>6. m_vcd_hostinfo(d).next = d
  BY DEF m_vcd_hostinfo, OfUser, Running, Named, Checked, Answered, Changed, Refused
<1>7. m_vcd_login(d).next = d
  BY DEF m_vcd_login, OfUser, Running, Named, Checked, Answered, Changed, Refused
<1>8. m_vcd_status(d, n).next = d
  BY DEF m_vcd_status, OfUser, Running, Named, Checked, Answered, Changed, Refused
<1>9. m_vcd_user_get(d, q).next = d
  BY DEF m_vcd_user_get, OfUser, Running, Named, Checked, Answered, Changed, Refused
<1>10. m_vcd_user_caps_get(d, q).next = d
  BY DEF m_vcd_user_caps_get, OfUser, Running, Named, Checked, Answered, Changed, Refused
<1>11. m_vg_list(d, q).next = d
  BY DEF m_vg_list, OfUser, Running, Named, Checked, Answered, Changed, Refused
<1>12. m_vx_status(d, q, b, n).next = d
  BY DEF m_vx_status, OfUser, Running, Named, Checked, Answered, Changed, Refused
<1>13. m_vx_limstatus(d, q, n).next = d
  BY DEF m_vx_limstatus, OfUser, Running, Named, Checked, Answered, Changed, Refused
<1>14. m_vx_netstatus(d, q, n).next = d
  BY DEF m_vx_netstatus, OfUser, Running, Named, Checked, Answered, Changed, Refused
<1>15. m_vx_templates(d, q).next = d
  BY DEF m_vx_templates, OfUser, Running, Named, Checked, Answered, Changed, Refused
<1>16. m_vx_exec(d, q, r).next = d
  BY DEF m_vx_exec, OfUser, Running, Named, Checked, Answered, Changed, Refused
<1>17. m_vx_reboot(d, q, r).next = d
  BY DEF m_vx_reboot, m_vx_exec, OfUser, Running, Named, Checked, Answered, Changed, Refused
<1>18. m_vx_kill(d, q, r).next = d
  BY DEF m_vx_kill, OfUser, Running, Named, Checked, Answered, Changed, Refused
<1>19. QED  BY <1>1, <1>2, <1>3, <1>4, <1>5, <1>6, <1>7, <1>8, <1>9, <1>10, <1>11, <1>12,
   <1>13, <1>14, <1>15, <1>16, <1>17, <1>18, Zenon

(* Methods on users, owners and groups. *)
KeepsRegistry(d, e) ==
    /\ DOMAIN e = DbFields /\ UsersOK(e)
    /\ e.xid = d.xid /\ e.vdir = d.vdir /\ e.conf = d.conf /\ e.up = d.up

LEMMA AccountsKeep ==
    ASSUME NEW d, NEW q, DbOK(d)
    PROVE  /\ KeepsRegistry(d, m_vxdb_owner_add(d, q).next)
           /\ KeepsRegistry(d, m_vxdb_owner_remove(d, q).next)
           /\ KeepsRegistry(d, m_vcd_user_set(d, q).next)
           /\ KeepsRegistry(d, m_vcd_user_remove(d, q).next)
           /\ KeepsRegistry(d, m_vcd_user_caps_add(d, q).next)
           /\ KeepsRegistry(d, m_vcd_user_caps_remove(d, q).next)
           /\ KeepsRegistry(d, m_vg_add(d, q).next)
           /\ KeepsRegistry(d, m_vg_remove(d, q).next)
<1>1. KeepsRegistry(d, m_vxdb_owner_add(d, q).next)
  BY DEF m_vxdb_owner_add, OfUser, Named, Checked, Changed, Refused, KeepsRegistry, DbOK,
     UsersOK, DbFields
<1>2. KeepsRegistry(d, m_vxdb_owner_remove(d, q).next)
  BY DEF m_vxdb_owner_remove, OfUser, Named, Checked, Changed, Refused, KeepsRegistry,
     DbOK, UsersOK, DbFields
<1>3. KeepsRegistry(d, m_vcd_user_set(d, q).next)
  BY DEF m_vcd_user_set, With, OfUser, Named, Checked, Changed, Refused, KeepsRegistry,
     DbOK, UsersOK, DbFields
<1>4. KeepsRegistry(d, m_vcd_user_remove(d, q).next)
  BY DEF m_vcd_user_remove, Without, OfUser, Named, Checked, Changed, Refused,
     KeepsRegistry, DbOK, UsersOK, DbFields
<1>5. KeepsRegistry(d, m_vcd_user_caps_add(d, q).next)
  BY DEF m_vcd_user_caps_add, OfUser, Named, Checked, Changed, Refused, KeepsRegistry,
     DbOK, UsersOK, DbFields
<1>6. KeepsRegistry(d, m_vcd_user_caps_remove(d, q).next)
  BY DEF m_vcd_user_caps_remove, OfUser, Named, Checked, Changed, Refused, KeepsRegistry,
     DbOK, UsersOK, DbFields
<1>7. KeepsRegistry(d, m_vg_add(d, q).next)
  BY DEF m_vg_add, OfUser, Named, Checked, Changed, Refused, KeepsRegistry, DbOK, UsersOK,
     DbFields
<1>8. KeepsRegistry(d, m_vg_remove(d, q).next)
  BY DEF m_vg_remove, OfUser, Named, Checked, Changed, Refused, KeepsRegistry, DbOK,
     UsersOK, DbFields
<1>9. QED  BY <1>1, <1>2, <1>3, <1>4, <1>5, <1>6, <1>7, <1>8, Zenon

(* Methods that start and stop. *)
KeepsTables(d, e) ==
    /\ DOMAIN e = DbFields
    /\ \A f \in DbFields \ {"up"} : e[f] = d[f]

LEMMA StartKeeps ==
    ASSUME NEW d, NEW q, NEW r, DbOK(d)
    PROVE  LET e == m_vx_start(d, q, r).next IN KeepsTables(d, e) /\ e.up \subseteq Xids
  BY DEF m_vx_start, Named, Checked, Changed, Refused, KeepsTables, DbOK, RegistryOK,
     DbFields,
         vxdb_getxid

LEMMA StopKeeps ==
    ASSUME NEW d, NEW q, NEW r, DbOK(d)
    PROVE  LET e == m_vx_stop(d, q, r).next IN KeepsTables(d, e) /\ e.up \subseteq d.up
  BY AskingKeeps DEF m_vx_stop, Running, Named, Checked, Changed, Refused, KeepsTables,
     DbOK, DbFields

LEMMA RestartKeeps ==
    ASSUME NEW d, NEW q, NEW r, DbOK(d)
    PROVE  LET e == m_vx_restart(d, q, r).next IN KeepsTables(d, e) /\ e.up \subseteq Xids
<1> DEFINE s == m_vx_stop(d, q, r)
<1>1. KeepsTables(d, s.next) /\ s.next.up \subseteq Xids
  BY StopKeeps DEF DbOK
<1>2. DbOK(s.next)
  BY <1>1 DEF DbOK, KeepsTables, DbFields, RegistryOK, UsersOK
<1>3. KeepsTables(s.next, m_vx_start(s.next, q, r).next) /\ m_vx_start(s.next, q, r).next.up \subseteq Xids
  BY <1>2, StartKeeps
<1>4. m_vx_restart(d, q, r) = IF s.fault # "none" THEN s ELSE m_vx_start(s.next, q, r)
  BY DEF m_vx_restart
<1> HIDE DEF s
<1>5. QED  BY <1>1, <1>3, <1>4 DEF KeepsTables

(* What a method leaves of everything but the vserver it names. *)
ChangesOnly(d, e, name) ==
    /\ DbOK(e)
    /\ \A n \in Names \ {name} :
          vxdb_getxid(d, n) # 0 => vxdb_getxid(e, n) = vxdb_getxid(d, n)
    /\ \A x \in Xids : x \notin {vxdb_getxid(d, name), vxdb_getxid(e, name)}
                        => e.conf[x] = d.conf[x]

LEMMA SameChangesOnly ==
    ASSUME NEW d, NEW name, DbOK(d) PROVE ChangesOnly(d, d, name)
  BY DEF ChangesOnly

LEMMA KeepsChangesOnly ==
    ASSUME NEW d, NEW e, NEW name, DbOK(d),
           \/ KeepsRegistry(d, e)
           \/ KeepsTables(d, e) /\ e.up \subseteq Xids
    PROVE  ChangesOnly(d, e, name)
<1>1. /\ DOMAIN e = DbFields /\ UsersOK(e) /\ e.up \subseteq Xids
      /\ e.xid = d.xid /\ e.vdir = d.vdir /\ e.conf = d.conf
  BY DEF KeepsRegistry, KeepsTables, DbOK, DbFields, UsersOK
<1>2. DbOK(e)
  BY <1>1 DEF DbOK, RegistryOK
<1>3. QED  BY <1>1, <1>2 DEF ChangesOnly, vxdb_getxid

(* A set of numbers has a least element, a set of xids a greatest one. *)
LEMMA LeastNat ==
    ASSUME NEW U, U \subseteq Nat, U # {}
    PROVE  Min(U) \in U
<1> DEFINE R == OpToRel(<, Nat)
<1>1. U \subseteq Nat
  OBVIOUS
<1>2. IsWellFoundedOn(R, Nat)
  BY NatLessThanWellFounded
<1> HIDE DEF R
<1>3. PICK x \in U : \A y \in U : <<y, x>> \notin R
  BY <1>1, <1>2, WFMin
<1>4. \A y \in U : ~(y < x)
  BY <1>1, <1>3 DEF OpToRel, R
<1>5. \A y \in U : x =< y
  BY <1>1, <1>4
<1>6. QED  BY <1>5 DEF Min

LEMMA GreatestXid ==
    ASSUME NEW U, U \subseteq Xids, U # {}
    PROVE  Max(U) \in U /\ \A y \in U : y =< Max(U)
<1> DEFINE R == OpToRel(<, Nat)
           top == Max(Xids)
           T == {k \in Nat : \E y \in U : k = top - y}
<1>1. top \in Nat /\ Xids = 2 .. top
  BY RegistryAssumption
<1> HIDE DEF top
<1>2. \A y \in U : y \in Nat /\ top - y \in Nat
  BY <1>1
<1>3. T \subseteq Nat /\ T # {}
  BY <1>2
<1>4. IsWellFoundedOn(R, Nat)
  BY NatLessThanWellFounded
<1>5. PICK k \in T : \A j \in T : <<j, k>> \notin R
  <2> HIDE DEF R, T
  <2> QED  BY <1>3, <1>4, WFMin
<1>6. \A j \in T : ~(j < k)
  BY <1>3, <1>5 DEF OpToRel
<1>7. PICK x \in U : k = top - x
  OBVIOUS
<1>8. ASSUME NEW y \in U PROVE x >= y
  <2>1. ~(top - y < top - x)
    BY <1>2, <1>6, <1>7
  <2>2. QED  BY <1>1, <1>2, <2>1
<1>9. Max(U) \in U /\ \A y \in U : Max(U) >= y
  BY <1>8 DEF Max
<1> DEFINE m == Max(U)
<1>10. m \in U /\ \A y \in U : m >= y
  BY <1>9
<1> HIDE DEF m
<1>11. \A y \in U : y =< m
  BY <1>2, <1>10
<1>12. QED  BY <1>10, <1>11 DEF m

(* An xid that find_free_xid finds has no name. *)
LEMMA FreeXid ==
    ASSUME NEW d, DbOK(d), find_free_xid(d) # 0
    PROVE  find_free_xid(d) \in Xids /\ \A n \in DOMAIN d.xid : d.xid[n] # find_free_xid(d)
<1> DEFINE used == {d.xid[n] : n \in DOMAIN d.xid}
           free == IF used = {} THEN {2}
                   ELSE IF Max(used) < Max(Xids) THEN {Max(used) + 1} ELSE Xids \ used
<1>1. used \subseteq Xids
  BY DEF DbOK, RegistryOK
<1>2. find_free_xid(d) = IF free = {} THEN 0 ELSE Min(free)
  BY DEF find_free_xid
<1>3. free \subseteq Xids \ used
  <2> DEFINE top == Max(Xids)
             m == Max(used)
  <2>0. top \in Nat \ {0, 1} /\ Xids = 2 .. top
    BY RegistryAssumption
  <2>1. CASE used = {}
    <3>1. free = {2}
      BY <2>1
    <3> HIDE DEF top, free, used
    <3>2. 2 \in Xids
      BY <2>0
    <3> QED  BY <2>1, <3>1, <3>2
  <2>2. CASE used # {}
    <3>1. m \in used /\ \A y \in used : y =< m
      BY <1>1, <2>2, GreatestXid
    <3>2. free = IF m < top THEN {m + 1} ELSE Xids \ used
      BY <2>2
    <3> HIDE DEF top, m, used, free
    <3>3. m \in 2 .. top /\ \A y \in used : y \in 2 .. top
      BY <1>1, <2>0, <3>1
    <3>4. m < top => m + 1 \in 2 .. top /\ m + 1 \notin used
      BY <2>0, <3>1, <3>3
    <3> QED  BY <2>0, <3>2, <3>4
  <2>3. QED  BY <2>1, <2>2
<1> HIDE DEF free
<1>4. free # {} /\ find_free_xid(d) = Min(free)
  BY <1>2
<1>5. Min(free) \in free
  <2>1. PICK top \in Nat : Xids = 2 .. top
    BY RegistryAssumption
  <2>2. free \subseteq Nat
    BY <1>3, <2>1
  <2>3. QED  BY <1>4, <2>2, LeastNat
<1>6. find_free_xid(d) \in Xids \ used
  BY <1>3, <1>4, <1>5
<1>7. QED  BY <1>6

LEMMA NoXid == 0 \notin Xids /\ "" \notin Names
<1>1. PICK top \in Nat : Xids = 2 .. top
  BY RegistryAssumption
<1>2. "" \notin Names
  BY RegistryAssumption
<1>3. 0 \notin Xids
  BY <1>1
<1>4. QED  BY <1>2, <1>3

-----------------------------------------------------------------------------
(* Rows and their keys *)

LEMMA TheTables ==
    /\ Tables = {"dx_limit", "init", "nx_broadcast", "vx_cpuset", "mount", "nx_addr",
                 "vx_bcaps", "vx_ccaps", "vx_flags", "vx_limit", "vx_sched", "vx_uname"}
    /\ \A t \in {"dx_limit", "init", "nx_broadcast", "vx_cpuset"} : Keys[t] = {"xid"}
    /\ Keys["mount"] = Paths /\ Keys["nx_addr"] = Addrs
    /\ \A t \in {"vx_bcaps", "vx_ccaps", "vx_flags"} : Keys[t] = Flags
    /\ Keys["vx_limit"] = LimitTypes /\ Keys["vx_sched"] = -1 .. NumCpus - 1
    /\ Keys["vx_uname"] = Unames
  BY DEF Tables, Keys, Single

LEMMA RowsKept ==
    ASSUME NEW c, NEW d, RowsOK(c), NEW t \in Tables, NEW rows, DOMAIN rows \subseteq Keys[t],
           d = [c EXCEPT ![t] = rows]
    PROVE  RowsOK(d)
<1>1. d = [x \in Tables |-> IF x = t THEN rows ELSE c[x]]
  BY DEF RowsOK
<1>2. QED  BY <1>1 DEF RowsOK

LEMMA InsertRows ==
    ASSUME NEW c, RowsOK(c), NEW t \in Tables, NEW k \in Keys[t], NEW row
    PROVE  RowsOK(InsertOrReplace(c, t, k, row))
<1> DEFINE rows == With(c[t], k, row)
<1>1. InsertOrReplace(c, t, k, row) = [c EXCEPT ![t] = rows]
  BY DEF InsertOrReplace, RowsOK
<1>2. DOMAIN rows = DOMAIN c[t] \cup {k}
  BY DEF With
<1> HIDE DEF rows
<1>3. DOMAIN rows \subseteq Keys[t]
  BY <1>2 DEF RowsOK
<1>4. QED  BY <1>1, <1>3, RowsKept

LEMMA DeleteRows ==
    ASSUME NEW c, RowsOK(c), NEW t \in Tables, NEW K
    PROVE  RowsOK(Delete(c, t, K))
<1> DEFINE rows == Without(c[t], K)
<1>1. Delete(c, t, K) = [c EXCEPT ![t] = rows]
  BY DEF Delete, RowsOK
<1>2. DOMAIN rows = DOMAIN c[t] \ K
  BY DEF Without
<1> HIDE DEF rows
<1>3. DOMAIN rows \subseteq Keys[t]
  BY <1>2 DEF RowsOK
<1>4. QED  BY <1>1, <1>3, RowsKept

LEMMA RemovesKeepRows ==
    ASSUME NEW c, NEW q, RowsOK(c)
    PROVE  /\ RowsOK(m_vxdb_dx_limit_remove(c, q).next)
           /\ RowsOK(m_vxdb_mount_remove(c, q).next)
           /\ RowsOK(m_vxdb_nx_addr_remove(c, q).next)
           /\ RowsOK(m_vxdb_nx_broadcast_remove(c, q).next)
           /\ RowsOK(m_vxdb_vx_bcaps_remove(c, q).next)
           /\ RowsOK(m_vxdb_vx_ccaps_remove(c, q).next)
           /\ RowsOK(m_vxdb_vx_flags_remove(c, q).next)
           /\ RowsOK(m_vxdb_vx_limit_remove(c, q).next)
           /\ RowsOK(m_vxdb_vx_sched_remove(c, q).next)
           /\ RowsOK(m_vxdb_vx_cpuset_remove(c, q).next)
           /\ RowsOK(m_vxdb_vx_uname_remove(c, q).next)
<1>1. RowsOK(m_vxdb_dx_limit_remove(c, q).next)
  BY TheTables, DeleteRows DEF m_vxdb_dx_limit_remove, Checked, Changed, Refused
<1>2. RowsOK(m_vxdb_mount_remove(c, q).next)
  BY TheTables, DeleteRows DEF m_vxdb_mount_remove, Checked, Changed, Refused
<1>3. RowsOK(m_vxdb_nx_addr_remove(c, q).next)
  BY TheTables, DeleteRows DEF m_vxdb_nx_addr_remove, Checked, Changed, Refused
<1>4. RowsOK(m_vxdb_nx_broadcast_remove(c, q).next)
  BY TheTables, DeleteRows DEF m_vxdb_nx_broadcast_remove, Checked, Changed, Refused
<1>5. RowsOK(m_vxdb_vx_bcaps_remove(c, q).next)
  BY TheTables, DeleteRows DEF m_vxdb_vx_bcaps_remove, Checked, Changed, Refused
<1>6. RowsOK(m_vxdb_vx_ccaps_remove(c, q).next)
  BY TheTables, DeleteRows DEF m_vxdb_vx_ccaps_remove, Checked, Changed, Refused
<1>7. RowsOK(m_vxdb_vx_flags_remove(c, q).next)
  BY TheTables, DeleteRows DEF m_vxdb_vx_flags_remove, Checked, Changed, Refused
<1>8. RowsOK(m_vxdb_vx_limit_remove(c, q).next)
  BY TheTables, DeleteRows DEF m_vxdb_vx_limit_remove, Checked, Changed, Refused
<1>9. RowsOK(m_vxdb_vx_sched_remove(c, q).next)
  BY TheTables, DeleteRows DEF m_vxdb_vx_sched_remove, Checked, Changed, Refused
<1>10. RowsOK(m_vxdb_vx_cpuset_remove(c, q).next)
  BY TheTables, DeleteRows DEF m_vxdb_vx_cpuset_remove, Checked, Changed, Refused
<1>11. RowsOK(m_vxdb_vx_uname_remove(c, q).next)
  BY TheTables, DeleteRows DEF m_vxdb_vx_uname_remove, Checked, Changed, Refused
<1>12. QED  BY <1>1, <1>2, <1>3, <1>4, <1>5, <1>6, <1>7, <1>8, <1>9, <1>10, <1>11, Zenon

LEMMA SetsKeepRows ==
    ASSUME NEW c, NEW q, RowsOK(c)
    PROVE  /\ RowsOK(m_vxdb_dx_limit_set(c, q).next)
           /\ RowsOK(m_vxdb_init_set(c, q).next)
           /\ RowsOK(m_vxdb_mount_set(c, q).next)
           /\ RowsOK(m_vxdb_nx_addr_set(c, q).next)
           /\ RowsOK(m_vxdb_nx_broadcast_set(c, q).next)
           /\ RowsOK(m_vxdb_vx_bcaps_add(c, q).next)
           /\ RowsOK(m_vxdb_vx_ccaps_add(c, q).next)
           /\ RowsOK(m_vxdb_vx_flags_add(c, q).next)
           /\ RowsOK(m_vxdb_vx_limit_set(c, q).next)
           /\ RowsOK(m_vxdb_vx_sched_set(c, q).next)
           /\ RowsOK(m_vxdb_vx_cpuset_set(c, q).next)
           /\ RowsOK(m_vxdb_vx_uname_set(c, q).next)
<1>1. RowsOK(m_vxdb_dx_limit_set(c, q).next)
  BY TheTables, InsertRows DEF m_vxdb_dx_limit_set, Checked, Changed, Refused
<1>2. RowsOK(m_vxdb_init_set(c, q).next)
  BY TheTables, InsertRows DEF m_vxdb_init_set, Checked, Changed, Refused
<1>3. RowsOK(m_vxdb_mount_set(c, q).next)
  BY TheTables, InsertRows DEF m_vxdb_mount_set, Checked, Changed, Refused, validate_path
<1>4. RowsOK(m_vxdb_nx_addr_set(c, q).next)
  BY TheTables, InsertRows DEF m_vxdb_nx_addr_set, Checked, Changed, Refused, validate_addr
<1>5. RowsOK(m_vxdb_nx_broadcast_set(c, q).next)
  BY TheTables, InsertRows DEF m_vxdb_nx_broadcast_set, Checked, Changed, Refused
<1>6. RowsOK(m_vxdb_vx_bcaps_add(c, q).next)
  BY TheTables, InsertRows DEF m_vxdb_vx_bcaps_add, Checked, Changed, Refused, validate_bcap
<1>7. RowsOK(m_vxdb_vx_ccaps_add(c, q).next)
  BY TheTables, InsertRows DEF m_vxdb_vx_ccaps_add, Checked, Changed, Refused, validate_ccap
<1>8. RowsOK(m_vxdb_vx_flags_add(c, q).next)
  BY TheTables, InsertRows DEF m_vxdb_vx_flags_add, Checked, Changed, Refused, validate_cflag
<1>9. RowsOK(m_vxdb_vx_limit_set(c, q).next)
  BY TheTables, InsertRows DEF m_vxdb_vx_limit_set, Checked, Changed, Refused, validate_rlimit
<1>10. RowsOK(m_vxdb_vx_sched_set(c, q).next)
  BY TheTables, InsertRows DEF m_vxdb_vx_sched_set, Checked, Changed, Refused, validate_cpuid
<1>11. RowsOK(m_vxdb_vx_cpuset_set(c, q).next)
  BY TheTables, InsertRows DEF m_vxdb_vx_cpuset_set, Checked, Changed, Refused
<1>12. RowsOK(m_vxdb_vx_uname_set(c, q).next)
  BY TheTables, InsertRows DEF m_vxdb_vx_uname_set, Checked, Changed, Refused, validate_uname
<1>13. QED  BY <1>1, <1>2, <1>3, <1>4, <1>5, <1>6, <1>7, <1>8, <1>9, <1>10, <1>11, <1>12,
   Zenon

(* The rows that are left of a vserver, and those of a new one. *)
LEMMA CpusetKept ==
    ASSUME NEW c, RowsOK(c)
    PROVE  RowsOK([NoRows EXCEPT !.vx_cpuset = c.vx_cpuset])
<1>1. RowsOK(NoRows)
  BY DEF RowsOK, NoRows, Empty
<1>2. "vx_cpuset" \in Tables
  BY TheTables
<1>3. DOMAIN c.vx_cpuset \subseteq Keys["vx_cpuset"]
  BY <1>2, Zenon DEF RowsOK
<1>4. QED  BY <1>1, <1>2, <1>3, RowsKept

LEMMA TemplateRows ==
    ASSUME NEW c, RowsOK(c), NEW t, ValidTemplate(t)
    PROVE  RowsOK(create_vxdb_entries(c, t))
<1> DEFINE e == create_vxdb_entries(c, t)
<1>1. /\ e = [x \in Tables |-> e[x]]
      /\ e.vx_cpuset = c.vx_cpuset /\ DOMAIN e.init = Single
      /\ DOMAIN e.mount \subseteq DOMAIN t.mount \cup {"/proc", "/dev/pts"}
      /\ DOMAIN e.vx_bcaps = t.vx_bcaps /\ DOMAIN e.vx_ccaps = t.vx_ccaps
      /\ DOMAIN e.vx_flags = t.vx_flags
      /\ \A x \in Tables \ {"vx_cpuset", "init", "mount", "vx_bcaps", "vx_ccaps", "vx_flags"} :
            DOMAIN e[x] = {}
  BY TheTables DEF create_vxdb_entries, NoRows, Empty
<1> HIDE DEF e
<1>2. /\ DOMAIN t.mount \subseteq Paths
      /\ t.vx_bcaps \subseteq Flags /\ t.vx_ccaps \subseteq Flags /\ t.vx_flags \subseteq Flags
  BY DEF ValidTemplate
<1>3. {"/proc", "/dev/pts"} \subseteq Paths
  BY RegistryAssumption
<1>4. DOMAIN c.vx_cpuset \subseteq Keys["vx_cpuset"]
  BY TheTables DEF RowsOK
<1>5. \A x \in Tables : DOMAIN e[x] \subseteq Keys[x]
  <2>1. ASSUME NEW x \in Tables \ {"vx_cpuset", "init", "mount", "vx_bcaps", "vx_ccaps", "vx_flags"}
        PROVE  DOMAIN e[x] \subseteq Keys[x]
    BY <1>1, <2>1
  <2>2. DOMAIN e["vx_cpuset"] \subseteq Keys["vx_cpuset"]
    BY <1>1, <1>4
  <2>3. DOMAIN e["init"] \subseteq Keys["init"]
    BY <1>1, TheTables DEF Single
  <2>4. DOMAIN e["mount"] \subseteq Keys["mount"]
    BY <1>1, <1>2, <1>3, TheTables
  <2>5. \A x \in {"vx_bcaps", "vx_ccaps", "vx_flags"} : DOMAIN e[x] \subseteq Keys[x]
    BY <1>1, <1>2, TheTables
  <2>6. QED  BY <2>1, <2>2, <2>3, <2>4, <2>5
<1>6. RowsOK(e)
  BY <1>1, <1>5 DEF RowsOK
<1>7. QED  BY <1>6 DEF e

(* The registry with one more row, or another directory of an old one. *)
Inserted(d, name, xid, vdir, rows) ==
    [d EXCEPT !.xid = With(@, name, xid), !.vdir = With(@, xid, vdir), !.conf[xid] = rows]

LEMMA InsertKeeps ==
    ASSUME NEW d, DbOK(d), NEW name \in Names, NEW xid \in Xids, NEW vdir, NEW rows,
           RowsOK(rows), vxdb_getxid(d, name) \in {0, xid},
           vxdb_getxid(d, name) = 0 => \A n \in DOMAIN d.xid : d.xid[n] # xid
    PROVE  ChangesOnly(d, Inserted(d, name, xid, vdir, rows), name)
<1> DEFINE e == Inserted(d, name, xid, vdir, rows)
<1>0. 0 \notin Xids
  BY NoXid
<1>1. /\ DOMAIN d = DbFields /\ UsersOK(d) /\ d.up \subseteq Xids
      /\ d.xid \in [DOMAIN d.xid -> Xids] /\ DOMAIN d.xid \subseteq Names
      /\ \A m, n \in DOMAIN d.xid : d.xid[m] = d.xid[n] => m = n
      /\ DOMAIN d.vdir = {d.xid[n] : n \in DOMAIN d.xid}
      /\ DOMAIN d.conf = Xids /\ \A x \in Xids : RowsOK(d.conf[x])
  BY DEF DbOK, RegistryOK
<1>2. /\ DOMAIN e = DbFields
      /\ e.xid = With(d.xid, name, xid) /\ e.vdir = With(d.vdir, xid, vdir)
      /\ e.conf = [d.conf EXCEPT ![xid] = rows]
      /\ e.up = d.up /\ e.admin = d.admin /\ e.uid = d.uid /\ e.pass = d.pass
  BY <1>1 DEF DbFields, Inserted
<1> HIDE DEF e
<1>3. /\ DOMAIN e.xid = DOMAIN d.xid \cup {name} /\ e.xid[name] = xid
      /\ \A n \in DOMAIN d.xid \ {name} : e.xid[n] = d.xid[n]
      /\ e.xid \in [DOMAIN e.xid -> Xids]
  BY <1>1, <1>2 DEF With
<1>4. \A n \in DOMAIN d.xid \ {name} : d.xid[n] # xid
  BY <1>0, <1>1 DEF vxdb_getxid
<1>5. \A m, n \in DOMAIN e.xid : e.xid[m] = e.xid[n] => m = n
  BY <1>1, <1>3, <1>4
<1>6. DOMAIN e.vdir = DOMAIN d.vdir \cup {xid}
  BY <1>2 DEF With
<1>7. name \in DOMAIN d.xid => d.xid[name] = xid
  BY <1>0, <1>1 DEF vxdb_getxid
<1>8. DOMAIN e.vdir = {e.xid[n] : n \in DOMAIN e.xid}
  BY <1>1, <1>3, <1>6, <1>7
<1>9. /\ DOMAIN e.conf = Xids /\ \A x \in Xids \ {xid} : e.conf[x] = d.conf[x]
      /\ \A x \in Xids : RowsOK(e.conf[x])
  BY <1>1, <1>2
<1>10. DbOK(e)
  BY <1>1, <1>2, <1>3, <1>5, <1>8, <1>9 DEF DbOK, RegistryOK, UsersOK
<1>11. vxdb_getxid(e, name) = xid
  BY <1>3 DEF vxdb_getxid
<1>12. \A n \in Names \ {name} : vxdb_getxid(e, n) = vxdb_getxid(d, n)
  BY <1>3 DEF vxdb_getxid
<1>13. ChangesOnly(d, e, name)
  BY <1>9, <1>10, <1>11, <1>12 DEF ChangesOnly
<1>14. QED  BY <1>13 DEF e

LEMMA FirstOfNext ==
    ASSUME NEW d, NEW checks, NEW result
    PROVE  \/ FirstOf(d, checks, result).next = d
           \/ /\ FirstOf(d, checks, result) = result
              /\ \A i \in DOMAIN checks : ~checks[i][1]
  BY DEF FirstOf, Refused

(* vx.create changes nothing, or makes a vserver from a valid template. *)
CreatedFrom(d, e, name, xid, vdir, t) ==
    /\ e = Inserted(d, name, xid, vdir, create_vxdb_entries(d.conf[xid], t))
    /\ ValidTemplate(t) /\ vxdb_getxid(d, name) \in {0, xid}
    /\ vxdb_getxid(d, name) = 0 => \A n \in DOMAIN d.xid : d.xid[n] # xid

LEMMA CreateIs ==
    ASSUME NEW d, NEW q, NEW user, DbOK(d), q.name[2] \in Names
    PROVE  \/ m_vx_create(d, q, user).next = d
           \/ \E xid \in Xids, t \in DOMAIN Templates : \E vdir :
                 CreatedFrom(d, m_vx_create(d, q, user).next, q.name[2], xid, vdir, Templates[t])
<1> DEFINE p == Fields(q)
           old == vxdb_getxid(d, p.name)
           xid == IF old # 0 THEN old ELSE find_free_xid(d)
           vdir == IF p.vdir = Blank \/ ~auth_isadmin(d, user) THEN vxdb_getvdir(d, p.name)
                   ELSE p.vdir
           t == Templates[p.template]
           checks == << <<old # 0 /\ ~auth_isowner(d, user, p.name), "MENOVPS">>,
                        <<old # 0 /\ p.force = 0, "MEEXIST">>,
                        <<old \in d.up, "MERUNNING">>,
                        <<old = 0 /\ ~auth_isadmin(d, user), "MEPERM">>,
                        <<~validate_path(vdir), "MEINVAL">>,
                        <<p.force = 0 /\ \E x \in DOMAIN d.vdir : d.vdir[x] = vdir, "MEEXIST">>,
                        <<xid = 0, "MEVXDB">>,
                        <<~ValidTemplate(t), "MECONF">> >>
           format == [name |-> "s", template |-> "s", force |-> "b", copy |-> "b", vdir |-> "s"]
           rows == create_vxdb_entries(d.conf[xid], t)
           e == [d EXCEPT !.xid = With(@, p.name, xid), !.vdir = With(@, xid, vdir),
                          !.conf[xid] = create_vxdb_entries(@, t)]
<1>1. m_vx_create(d, q, user) = Checked(d, q, format, p.template \in DOMAIN Templates,
                                        FirstOf(d, checks, Changed(e)))
  BY DEF m_vx_create
<1>2. /\ 7 \in DOMAIN checks /\ checks[7][1] = (xid = 0)
      /\ 8 \in DOMAIN checks /\ checks[8][1] = ~ValidTemplate(t)
  OBVIOUS
<1> HIDE DEF checks, format, e
<1>3. \/ m_vx_create(d, q, user).next = d
      \/ /\ m_vx_create(d, q, user).next = e /\ xid # 0 /\ ValidTemplate(t)
         /\ Decomposes(q, format) /\ p.template \in DOMAIN Templates
  <2>1. \/ m_vx_create(d, q, user).next = d
        \/ /\ m_vx_create(d, q, user) = FirstOf(d, checks, Changed(e))
           /\ Decomposes(q, format) /\ p.template \in DOMAIN Templates
    BY <1>1 DEF Checked, Refused
  <2>2. \/ FirstOf(d, checks, Changed(e)).next = d
        \/ /\ FirstOf(d, checks, Changed(e)) = Changed(e)
           /\ \A i \in DOMAIN checks : ~checks[i][1]
    BY FirstOfNext
  <2>3. Changed(e).next = e
    BY DEF Changed
  <2>4. (\A i \in DOMAIN checks : ~checks[i][1]) => xid # 0 /\ ValidTemplate(t)
    BY <1>2
  <2>5. QED  BY <2>1, <2>2, <2>3, <2>4
<1>4. CASE m_vx_create(d, q, user).next = d
  BY <1>4
<1>5. CASE /\ m_vx_create(d, q, user).next = e /\ xid # 0 /\ ValidTemplate(t)
           /\ Decomposes(q, format) /\ p.template \in DOMAIN Templates
  <2>1. "name" \in DOMAIN q
    BY <1>5 DEF Decomposes, format
  <2>2. p.name = q.name[2]
    BY <2>1 DEF Fields
  <2>3. xid \in Xids /\ (old = 0 => \A n \in DOMAIN d.xid : d.xid[n] # xid)
    <3>1. CASE old = 0
      BY <1>5, <3>1, FreeXid
    <3>2. CASE old # 0
      BY <3>2 DEF vxdb_getxid, DbOK, RegistryOK
    <3>3. QED  BY <3>1, <3>2
  <2>4. old \in {0, xid}
    OBVIOUS
  <2>5. e = Inserted(d, q.name[2], xid, vdir, rows)
    BY <2>2, <1>1 DEF e, Inserted
  <2>6. /\ vxdb_getxid(d, q.name[2]) \in {0, xid}
        /\ vxdb_getxid(d, q.name[2]) = 0 => \A n \in DOMAIN d.xid : d.xid[n] # xid
    BY <2>2, <2>3, <2>4
  <2>7. xid \in Xids
    BY <2>3
  <2> DEFINE template == p.template
  <2>8. e = Inserted(d, q.name[2], xid, vdir, create_vxdb_entries(d.conf[xid], Templates[template]))
    BY <2>5
  <2>9. ValidTemplate(Templates[template]) /\ template \in DOMAIN Templates
    BY <1>5
  <2> HIDE DEF xid, vdir, template
  <2>10. CreatedFrom(d, e, q.name[2], xid, vdir, Templates[template])
    BY <2>6, <2>8, <2>9 DEF CreatedFrom
  <2>11. m_vx_create(d, q, user).next = e
    BY <1>5
  <2>12. QED  BY <2>7, <2>9, <2>10, <2>11
<1>6. QED  BY <1>3, <1>4, <1>5, Zenon

LEMMA CreateKeeps ==
    ASSUME NEW d, NEW q, NEW user, DbOK(d), q.name[2] \in Names
    PROVE  ChangesOnly(d, m_vx_create(d, q, user).next, q.name[2])
<1> DEFINE e == m_vx_create(d, q, user).next
<1>1. CASE e = d
  BY <1>1, SameChangesOnly
<1>2. CASE e # d
  <2>1. PICK xid \in Xids, t \in DOMAIN Templates :
             \E vdir : CreatedFrom(d, e, q.name[2], xid, vdir, Templates[t])
    BY <1>2, CreateIs
  <2>2. RowsOK(d.conf[xid])
    BY DEF DbOK, RegistryOK
  <2>3. RowsOK(create_vxdb_entries(d.conf[xid], Templates[t]))
    BY <2>1, <2>2, TemplateRows DEF CreatedFrom
  <2>4. QED  BY <2>1, <2>3, InsertKeeps DEF CreatedFrom
<1>3. QED  BY <1>1, <1>2

LEMMA RemoveKeeps ==
    ASSUME NEW d, NEW q, DbOK(d)
    PROVE  ChangesOnly(d, m_vx_remove(d, q).next, q.name[2])
<1> DEFINE name == q.name[2]
           xid == d.xid[name]
           e == m_vx_remove(d, q).next
<1>1. /\ DOMAIN d = DbFields /\ UsersOK(d) /\ d.up \subseteq Xids
      /\ d.xid \in [DOMAIN d.xid -> Xids] /\ DOMAIN d.xid \subseteq Names
      /\ \A m, n \in DOMAIN d.xid : d.xid[m] = d.xid[n] => m = n
      /\ DOMAIN d.vdir = {d.xid[n] : n \in DOMAIN d.xid}
      /\ DOMAIN d.conf = Xids /\ \A x \in Xids : RowsOK(d.conf[x])
  BY DEF DbOK, RegistryOK
<1>2. \/ e = d
      \/ /\ vxdb_getxid(d, name) # 0
         /\ DOMAIN e = DbFields
         /\ e.xid = Without(d.xid, {name}) /\ e.vdir = Without(d.vdir, {xid})
         /\ e.conf = [d.conf EXCEPT ![xid] = [NoRows EXCEPT !.vx_cpuset = d.conf[xid].vx_cpuset]]
         /\ e.up = d.up /\ e.admin = d.admin /\ e.uid = d.uid /\ e.pass = d.pass
  BY <1>1 DEF m_vx_remove, Named, Checked, Refused, Changed, DbFields
<1>3. CASE e = d
  BY <1>3, SameChangesOnly
<1>4. ASSUME vxdb_getxid(d, name) # 0,
             DOMAIN e = DbFields,
             e.xid = Without(d.xid, {name}), e.vdir = Without(d.vdir, {xid}),
             NEW rows, RowsOK(rows), e.conf = [d.conf EXCEPT ![xid] = rows],
             e.up = d.up, e.admin = d.admin, e.uid = d.uid, e.pass = d.pass
      PROVE  ChangesOnly(d, e, name)
  <2> HIDE DEF e, name
  <2>1. name \in DOMAIN d.xid /\ vxdb_getxid(d, name) = xid
    BY <1>4 DEF vxdb_getxid
  <2>2. /\ DOMAIN e.xid = DOMAIN d.xid \ {name}
        /\ \A n \in DOMAIN e.xid : e.xid[n] = d.xid[n]
        /\ e.xid \in [DOMAIN e.xid -> Xids]
    BY <1>1, <1>4 DEF Without
  <2>3. \A m, n \in DOMAIN e.xid : e.xid[m] = e.xid[n] => m = n
    BY <1>1, <2>2
  <2>4. DOMAIN e.vdir = DOMAIN d.vdir \ {xid}
    BY <1>4 DEF Without
  <2>5. DOMAIN e.vdir = {e.xid[n] : n \in DOMAIN e.xid}
    BY <1>1, <2>1, <2>2, <2>4
  <2>6. /\ DOMAIN e.conf = Xids /\ \A x \in Xids \ {xid} : e.conf[x] = d.conf[x]
        /\ \A x \in Xids : RowsOK(e.conf[x])
    BY <1>1, <1>4
  <2>7. DbOK(e)
    BY <1>1, <1>4, <2>2, <2>3, <2>5, <2>6 DEF DbOK, RegistryOK, UsersOK
  <2>8. \A n \in Names \ {name} : vxdb_getxid(e, n) = vxdb_getxid(d, n)
    BY <2>2 DEF vxdb_getxid
  <2>9. QED  BY <2>1, <2>6, <2>7, <2>8 DEF ChangesOnly
<1>5. CASE /\ vxdb_getxid(d, name) # 0
           /\ DOMAIN e = DbFields
           /\ e.xid = Without(d.xid, {name}) /\ e.vdir = Without(d.vdir, {xid})
           /\ e.conf = [d.conf EXCEPT ![xid] = [NoRows EXCEPT !.vx_cpuset = d.conf[xid].vx_cpuset]]
           /\ e.up = d.up /\ e.admin = d.admin /\ e.uid = d.uid /\ e.pass = d.pass
  <2>1. xid \in Xids
    BY <1>1, <1>5 DEF vxdb_getxid
  <2>2. RowsOK([NoRows EXCEPT !.vx_cpuset = d.conf[xid].vx_cpuset])
    BY <1>1, <2>1, CpusetKept
  <2>3. QED  BY <1>4, <1>5, <2>2
<1>6. QED  BY <1>2, <1>3, <1>5

LEMMA RenameKeeps ==
    ASSUME NEW d, NEW q, DbOK(d)
    PROVE  ChangesOnly(d, m_vx_rename(d, q).next, q.name[2])
<1> DEFINE p == Fields(q)
           name == q.name[2]
           new == p.newname
           e == m_vx_rename(d, q).next
<1>0. 0 \notin Xids
  BY NoXid
<1>1. /\ DOMAIN d = DbFields /\ UsersOK(d) /\ d.up \subseteq Xids
      /\ d.xid \in [DOMAIN d.xid -> Xids] /\ DOMAIN d.xid \subseteq Names
      /\ \A m, n \in DOMAIN d.xid : d.xid[m] = d.xid[n] => m = n
      /\ DOMAIN d.vdir = {d.xid[n] : n \in DOMAIN d.xid}
      /\ DOMAIN d.conf = Xids /\ \A x \in Xids : RowsOK(d.conf[x])
  BY DEF DbOK, RegistryOK
<1>2. \/ e = d
      \/ /\ Decomposes(q, [name |-> "s", newname |-> "s"])
         /\ new \in Names /\ vxdb_getxid(d, new) = 0 /\ vxdb_getxid(d, name) # 0
         /\ e = [d EXCEPT !.xid = With(Without(@, {p.name}), new, @[p.name])]
  BY DEF m_vx_rename, Named, Checked, Refused, Changed, validate_name
<1>3. CASE e = d
  BY <1>3, SameChangesOnly
<1>4. CASE /\ Decomposes(q, [name |-> "s", newname |-> "s"])
           /\ new \in Names /\ vxdb_getxid(d, new) = 0 /\ vxdb_getxid(d, name) # 0
           /\ e = [d EXCEPT !.xid = With(Without(@, {p.name}), new, @[p.name])]
  <2>1. "name" \in DOMAIN q
    BY <1>4 DEF Decomposes
  <2>2. p.name = name
    BY <2>1 DEF Fields
  <2>3. /\ DOMAIN e = DbFields
        /\ e.xid = With(Without(d.xid, {name}), new, d.xid[name])
        /\ e.vdir = d.vdir /\ e.conf = d.conf /\ e.up = d.up
        /\ e.admin = d.admin /\ e.uid = d.uid /\ e.pass = d.pass
    BY <1>1, <1>4, <2>2 DEF DbFields
  <2>4. new \in Names /\ vxdb_getxid(d, new) = 0 /\ vxdb_getxid(d, name) # 0
    BY <1>4
  <2> HIDE DEF e, name, new, p
  <2>5. name \in DOMAIN d.xid /\ new \notin DOMAIN d.xid
    BY <1>0, <1>1, <2>4 DEF vxdb_getxid
  <2>6. /\ DOMAIN e.xid = (DOMAIN d.xid \ {name}) \cup {new}
        /\ e.xid[new] = d.xid[name]
        /\ \A n \in DOMAIN d.xid \ {name} : e.xid[n] = d.xid[n]
        /\ e.xid \in [DOMAIN e.xid -> Xids]
    BY <1>1, <2>3, <2>5 DEF With, Without
  <2>7. \A m, n \in DOMAIN e.xid : e.xid[m] = e.xid[n] => m = n
    BY <1>1, <2>5, <2>6
  <2>8. DOMAIN e.vdir = {e.xid[n] : n \in DOMAIN e.xid}
    <3>1. \A x : x \in DOMAIN d.vdir <=> \E n \in DOMAIN e.xid : x = e.xid[n]
      <4>1. ASSUME NEW n \in DOMAIN d.xid PROVE \E k \in DOMAIN e.xid : d.xid[n] = e.xid[k]
        BY <2>5, <2>6
      <4>2. ASSUME NEW n \in DOMAIN e.xid PROVE \E k \in DOMAIN d.xid : e.xid[n] = d.xid[k]
        BY <2>5, <2>6
      <4>3. QED  BY <1>1, <4>1, <4>2
    <3>2. QED  BY <2>3, <3>1
  <2>9. DbOK(e)
    BY <1>1, <2>3, <2>4, <2>6, <2>7, <2>8 DEF DbOK, RegistryOK, UsersOK
  <2>10. \A n \in Names \ {name} :
            vxdb_getxid(d, n) # 0 => vxdb_getxid(e, n) = vxdb_getxid(d, n)
    BY <2>5, <2>6 DEF vxdb_getxid
  <2>11. ChangesOnly(d, e, name)
    BY <2>3, <2>9, <2>10 DEF ChangesOnly
  <2>12. QED  BY <2>11 DEF e, name
<1>5. QED  BY <1>2, <1>3, <1>4

(* Any method of one step.  vx.create is only called with a valid name. *)
OneStep == Methods \ {m \in Methods : IsConf(m) \/ m \in DOMAIN Inner}

LEMMA InnerIs ==
    /\ DOMAIN Inner = {"vg.vx.reboot", "vg.vx.restart", "vg.vx.start", "vg.vx.stop"}
    /\ \A m \in DOMAIN Inner : Inner[m] \in {"vx.reboot", "vx.restart", "vx.start", "vx.stop"}
    /\ Inner["vg.vx.stop"] = "vx.stop"
<1>1. DOMAIN Inner = {"vg.vx.reboot", "vg.vx.restart", "vg.vx.start", "vg.vx.stop"}
  BY Zenon DEF Inner
<1>2. /\ Inner["vg.vx.reboot"] = "vx.reboot" /\ Inner["vg.vx.restart"] = "vx.restart"
      /\ Inner["vg.vx.start"] = "vx.start" /\ Inner["vg.vx.stop"] = "vx.stop"
  BY DEF Inner
<1>3. QED  BY <1>1, <1>2

(* All but three leave names, directories and rows alone. *)
Quiet(d, e) ==
    e = d \/ KeepsRegistry(d, e) \/ (KeepsTables(d, e) /\ e.up \subseteq Xids)

LEMMA QuietKeeps ==
    ASSUME NEW d, NEW q, NEW user, NEW r, NEW n, DbOK(d),
           NEW m \in OneStep \ {"vx.create", "vx.remove", "vx.rename"}
    PROVE  Quiet(d, VcdMethod(m, d, q, user, r, n).next)
<1> DEFINE Asks == {"vxdb.xid.get", "vxdb.name.get", "vxdb.vdir.get", "vxdb.owner.get",
               "vxdb.list", "vcd.hostinfo", "vcd.login", "vcd.status", "vcd.user.get",
               "vcd.user.caps.get", "vg.list", "vx.status", "vx.limstatus", "vx.netstatus",
               "vx.templates", "vx.exec", "vx.reboot", "vx.kill"}
           Accounting == {"vxdb.owner.add", "vxdb.owner.remove", "vcd.user.set", "vcd.user.remove",
               "vcd.user.caps.add", "vcd.user.caps.remove", "vg.add", "vg.remove"}
<1>1. CASE m \in Asks
  BY <1>1, AskingKeeps DEF VcdMethod, Quiet
<1>2. CASE m \in Accounting
  BY <1>2, AccountsKeep DEF VcdMethod, Quiet
<1>3. CASE m \in {"vx.start", "vx.stop", "vx.restart"}
  BY <1>3, StartKeeps, StopKeeps, RestartKeeps DEF VcdMethod, DbOK, Quiet
<1>4. OneStep \subseteq Asks \cup Accounting \cup {"vx.start", "vx.stop", "vx.restart"}
                       \cup {"vx.create", "vx.remove", "vx.rename"}
  <2>1. SUFFICES ASSUME NEW k \in OneStep
                 PROVE  k \in Asks \cup Accounting \cup {"vx.start", "vx.stop", "vx.restart"}
                                 \cup {"vx.create", "vx.remove", "vx.rename"}
    BY Zenon
  <2>2. k \in Methods /\ ~IsConf(k) /\ k \notin DOMAIN Inner
    BY DEF OneStep
  <2>3. k = "vcd.login" \/ \E cap \in DOMAIN OtherMethods : k \in OtherMethods[cap]
    <3>1. \/ k = "vcd.login" \/ k \in UNION {ConfMethods[cap] : cap \in DOMAIN ConfMethods}
          \/ k \in UNION {OtherMethods[cap] : cap \in DOMAIN OtherMethods}
      BY <2>2, Zenon DEF Methods
    <3>2. k \notin UNION {ConfMethods[cap] : cap \in DOMAIN ConfMethods}
      BY <2>2, Zenon DEF IsConf
    <3>3. QED  BY <3>1, <3>2, Zenon
  <2>4. k \notin {"vg.vx.reboot", "vg.vx.restart", "vg.vx.start", "vg.vx.stop"}
    BY <2>2, InnerIs
  <2>5. QED  BY <2>3, <2>4 DEF OtherMethods
<1>5. QED  BY <1>1, <1>2, <1>3, <1>4

LEMMA QuietChanges ==
    ASSUME NEW d, NEW e, DbOK(d), Quiet(d, e)
    PROVE  DbOK(e) /\ e.xid = d.xid /\ e.vdir = d.vdir /\ e.conf = d.conf
<1>1. \A name : ChangesOnly(d, e, name)
  BY SameChangesOnly, KeepsChangesOnly DEF Quiet
<1>2. DbOK(e)
  BY <1>1 DEF ChangesOnly
<1>3. QED  BY <1>2 DEF Quiet, KeepsRegistry, KeepsTables, DbFields

LEMMA MethodKeeps ==
    ASSUME NEW d, NEW q, NEW user, NEW r, NEW n, DbOK(d), NEW m \in OneStep,
           m = "vx.create" => q.name[2] \in Names
    PROVE  ChangesOnly(d, VcdMethod(m, d, q, user, r, n).next, q.name[2])
<1>1. CASE m \in OneStep \ {"vx.create", "vx.remove", "vx.rename"}
  <2>1. Quiet(d, VcdMethod(m, d, q, user, r, n).next)
    BY <1>1, QuietKeeps
  <2>2. QED  BY <2>1, SameChangesOnly, KeepsChangesOnly DEF Quiet
<1>2. CASE m = "vx.create"
  BY <1>2, CreateKeeps DEF VcdMethod
<1>3. CASE m = "vx.remove"
  BY <1>3, RemoveKeeps DEF VcdMethod
<1>4. CASE m = "vx.rename"
  BY <1>4, RenameKeeps DEF VcdMethod
<1>5. QED  BY <1>1, <1>2, <1>3, <1>4

(* Methods that change the rows or the name of a vserver lock it. *)
LEMMA Lockers ==
    /\ {"vx.create", "vx.remove", "vx.rename"} \subseteq M_LOCK
    /\ \A m : IsConf(m) /\ m \notin M_LOCK => m \in Reads
<1>1. {"vx.create", "vx.remove", "vx.rename"} \subseteq M_OWNER \cup {"vx.create"}
  BY Zenon DEF M_OWNER
<1>2. \A m \in {"vx.create", "vx.remove", "vx.rename"} :
         m \notin Reads \cup {"vx.exec", "vx.status", "vx.limstatus", "vx.netstatus"}
  BY DEF Reads
<1>3. ASSUME NEW m, IsConf(m), m \notin M_LOCK PROVE m \in Reads
  <2>1. m \in M_OWNER
    BY <1>3, Zenon DEF IsConf, M_OWNER
  <2>2. m \notin {"vx.exec", "vx.status", "vx.limstatus", "vx.netstatus"}
    BY <1>3 DEF IsConf, ConfMethods
  <2>3. QED  BY <1>3, <2>1, <2>2, Zenon DEF M_LOCK
<1>4. QED  BY <1>1, <1>2, <1>3 DEF M_LOCK

LEMMA ReadsKeep ==
    ASSUME NEW c, NEW q, NEW m \in Reads PROVE ConfMethod(m, c, q).next = c
<1>1. m_vxdb_dx_limit_get(c, q).next = c
  BY DEF m_vxdb_dx_limit_get, Checked, Answered, Refused
<1>2. m_vxdb_init_get(c, q).next = c
  BY DEF m_vxdb_init_get, Checked, Answered, Refused
<1>3. m_vxdb_mount_get(c, q).next = c
  BY DEF m_vxdb_mount_get, Checked, Answered, Refused
<1>4. m_vxdb_nx_addr_get(c, q).next = c
  BY DEF m_vxdb_nx_addr_get, Checked, Answered, Refused
<1>5. m_vxdb_nx_broadcast_get(c, q).next = c
  BY DEF m_vxdb_nx_broadcast_get, Checked, Answered, Refused
<1>6. m_vxdb_vx_bcaps_get(c, q).next = c
  BY DEF m_vxdb_vx_bcaps_get, Checked, Answered, Refused
<1>7. m_vxdb_vx_ccaps_get(c, q).next = c
  BY DEF m_vxdb_vx_ccaps_get, Checked, Answered, Refused
<1>8. m_vxdb_vx_flags_get(c, q).next = c
  BY DEF m_vxdb_vx_flags_get, Checked, Answered, Refused
<1>9. m_vxdb_vx_limit_get(c, q).next = c
  BY DEF m_vxdb_vx_limit_get, Checked, Answered, Refused
<1>10. m_vxdb_vx_sched_get(c, q).next = c
  BY DEF m_vxdb_vx_sched_get, Checked, Answered, Refused
<1>11. m_vxdb_vx_cpuset_get(c, q).next = c
  BY DEF m_vxdb_vx_cpuset_get, Checked, Answered, Refused
<1>12. m_vxdb_vx_uname_get(c, q).next = c
  BY DEF m_vxdb_vx_uname_get, Checked, Answered, Refused
<1>13. QED
  BY <1>1, <1>2, <1>3, <1>4, <1>5, <1>6, <1>7, <1>8, <1>9, <1>10, <1>11, <1>12
     DEF ConfMethod, Reads

(* A configuration method lets no key in that its table does not allow. *)
LEMMA ConfKeepsRows ==
    ASSUME NEW c, NEW q, NEW m, IsConf(m), RowsOK(c)
    PROVE  RowsOK(ConfMethod(m, c, q).next)
<1>1. CASE m \in {"vxdb.dx.limit.get", "vxdb.init.get", "vxdb.mount.get",
                "vxdb.nx.addr.get", "vxdb.nx.broadcast.get", "vxdb.vx.bcaps.get",
                "vxdb.vx.ccaps.get", "vxdb.vx.flags.get", "vxdb.vx.limit.get",
                "vxdb.vx.sched.get", "vxdb.vx.cpuset.get", "vxdb.vx.uname.get"}
  BY <1>1, ReadsKeep DEF Reads
<1>2. CASE m \in {"vxdb.dx.limit.remove", "vxdb.mount.remove", "vxdb.nx.addr.remove",
                "vxdb.nx.broadcast.remove", "vxdb.vx.bcaps.remove", "vxdb.vx.ccaps.remove",
                "vxdb.vx.flags.remove", "vxdb.vx.limit.remove", "vxdb.vx.sched.remove",
                "vxdb.vx.cpuset.remove", "vxdb.vx.uname.remove"}
  BY <1>2, RemovesKeepRows DEF ConfMethod
<1>3. CASE m \in {"vxdb.dx.limit.set", "vxdb.init.set", "vxdb.mount.set",
                "vxdb.nx.addr.set", "vxdb.nx.broadcast.set", "vxdb.vx.bcaps.add",
                "vxdb.vx.ccaps.add", "vxdb.vx.flags.add", "vxdb.vx.limit.set",
                "vxdb.vx.sched.set", "vxdb.vx.cpuset.set", "vxdb.vx.uname.set"}
  BY <1>3, SetsKeepRows DEF ConfMethod
<1>4. QED  BY <1>1, <1>2, <1>3 DEF IsConf, ConfMethods

-----------------------------------------------------------------------------
(* What a step of one client lets the others know *)

TouchOK ==
    /\ touched = [c \in Clients |-> touched[c]]
    /\ \A c \in Clients : touched[c] \subseteq Names

(* p has been told of every name that means something else now. *)
Told(p) ==
    /\ touched[p] \subseteq touched'[p]
    /\ \A n \in Names : n \in touched'[p] \/ About(db', n) = About(db, n)

LEMMA TouchTells ==
    ASSUME TouchOK, NEW c \in Clients, Touch(c, db')
    PROVE  /\ TouchOK' /\ touched'[c] = touched[c]
           /\ \A p \in Clients \ {c} : proc[p].at # "idle" => Told(p)
<1>1. touched' = [p \in Clients |->
        IF p = c \/ proc[p].at = "idle" THEN touched[p]
        ELSE touched[p] \cup {n \in Names : About(db', n) # About(db, n)}]
  BY DEF Touch
<1>2. touched'[c] = touched[c]
  BY <1>1
<1>3. TouchOK'
  BY <1>1 DEF TouchOK
<1>4. ASSUME NEW p \in Clients \ {c}, proc[p].at # "idle" PROVE Told(p)
  <2>1. touched'[p] = touched[p] \cup {n \in Names : About(db', n) # About(db, n)}
    BY <1>1, <1>4
  <2>2. QED  BY <2>1 DEF Told
<1>5. QED  BY <1>2, <1>3, <1>4

(* Every step of the daemon that changes the database tells the others. *)
LEMMA DaemonTells ==
    ASSUME NEW c \in Clients, Daemon(c) \/ Lost(c)
    PROVE  Touch(c, db') \/ UNCHANGED <<db, touched>>
<1>0. ASSUME NEW r, Answer(c, r) PROVE Touch(c, db')
  BY <1>0 DEF Answer
<1>1. ASSUME NEW id, Refuse(c, id) PROVE Touch(c, db')
  BY <1>0, <1>1 DEF Refuse
<1>2. CASE method_default(c)
  BY <1>1, <1>2 DEF method_default
<1>3. CASE method_init(c)
  BY <1>0, <1>3, Zenon DEF method_init
<1>4. CASE method_lock(c)
  BY <1>1, <1>4 DEF method_lock
<1>5. CASE Lookup(c)
  BY <1>1, <1>5, Zenon DEF Lookup
<1>6. CASE Execute(c)
  BY <1>0, <1>1, <1>6, Zenon DEF Execute
<1>7. CASE Body(c)
  BY <1>0, <1>1, <1>7, Zenon DEF Body
<1>8. CASE GroupList(c)
  BY <1>1, <1>8, Zenon DEF GroupList
<1>9. CASE GroupMember(c)
  <2>1. \E r : Answer(c, r) \/ (db' = r.next /\ Touch(c, r.next))
    BY <1>9, Zenon DEF GroupMember
  <2>2. QED  BY <2>1, <1>0
<1>10. CASE GroupEnd(c)
  BY <1>0, <1>10, Zenon DEF GroupEnd
<1>11. CASE Exit(c)
  BY <1>11 DEF Exit
<1>12. CASE Lost(c)
  BY <1>1, <1>12 DEF Lost
<1>13. QED
  BY <1>2, <1>3, <1>4, <1>5, <1>6, <1>7, <1>8, <1>9, <1>10, <1>11, <1>12, Zenon DEF Daemon

LEMMA StepTells ==
    ASSUME TouchOK, DbOK(db), NEW c \in Clients, Program(c) \/ Daemon(c) \/ Lost(c)
    PROVE  /\ TouchOK'
           /\ \A p \in Clients \ {c} : proc[p].at # "idle" => Told(p)
           /\ (~main(c) /\ ~Receive(c)) => touched'[c] = touched[c]
<1>1. CASE UNCHANGED <<db, touched>>
  BY <1>1 DEF TouchOK, Told
<1>2. CASE Daemon(c) \/ Lost(c)
  BY <1>1, <1>2, DaemonTells, TouchTells
<1>3. CASE getopt(c) \/ AskVdir(c)
  BY <1>1, <1>3 DEF getopt, AskVdir
<1>4. CASE main(c) \/ Receive(c)
  <2>1. touched' = [touched EXCEPT ![c] = {}] /\ db' = db
    BY <1>4 DEF main, Receive
  <2>2. QED  BY <1>4, <2>1 DEF TouchOK, Told
<1>5. CASE vxpasswd(c)
  <2>1. touched' = touched
    BY <1>5 DEF vxpasswd
  <2>2. db' = db \/ \E u, password : db' = [db EXCEPT !.pass[u] = password]
    BY <1>5, Zenon DEF vxpasswd
  <2>3. db'.xid = db.xid /\ db'.vdir = db.vdir /\ db'.up = db.up
    BY <2>2 DEF DbOK, DbFields
  <2>4. \A n : About(db', n) = About(db, n)
    BY <2>3 DEF About, vxdb_getxid, vxdb_getvdir
  <2>5. QED  BY <2>1, <2>4 DEF TouchOK, Told
<1>6. QED  BY <1>2, <1>3, <1>4, <1>5, Zenon DEF Program

LEMMA GuestTells ==
    ASSUME TouchOK, Guest
    PROVE  TouchOK' /\ \A p \in Clients : proc[p].at # "idle" => Told(p)
<1>1. touched' = [p \in Clients |-> IF proc[p].at = "idle" THEN {} ELSE touched[p]
                           \cup {n \in Names : About(db', n) # About(db, n)}]
  BY DEF Guest
<1>2. TouchOK'
  BY <1>1 DEF TouchOK
<1>3. ASSUME NEW p \in Clients, proc[p].at # "idle" PROVE Told(p)
  <2>1. touched'[p] = touched[p] \cup {n \in Names : About(db', n) # About(db, n)}
    BY <1>1, <1>3
  <2>2. QED  BY <2>1 DEF Told
<1>4. QED  BY <1>2, <1>3

-----------------------------------------------------------------------------
(* Locks and types *)

Places == {"idle", "calling", "checked", "begun", "looked", "looping", "answered"}

(* How far a process p has come with the lock h: a method that locks works *)
(* with the lock of the name in its parameters, and between the look-up    *)
(* and the statement the name keeps its xid.                               *)
FlowOK(p, h, d) ==
    LET m == p.call.method
        n == p.call.params.name[2]
    IN /\ p.at \in Places /\ p.xid \in Xids \cup {0} /\ p.members \subseteq Names
       /\ p.at \in {"checked", "begun", "looked", "looping"} => m \in Methods
       /\ p.at = "checked" => m \in M_LOCK /\ n \in Names
       /\ p.at \in {"begun", "looked"} /\ m \in M_LOCK => h = n /\ n \in Names
       /\ p.at = "looked" => IsConf(m) /\ p.xid \in Xids
       /\ p.at = "looked" /\ m \in M_LOCK => vxdb_getxid(d, n) = p.xid
       /\ p.at = "looping" => m \in DOMAIN Inner

LocksOK ==
    /\ held = [c \in Clients |-> held[c]] /\ late = [c \in Clients |-> late[c]]
    /\ \A c \in Clients : held[c] \in Names \cup {""} /\ late[c] \subseteq Names
    /\ \A c, p \in Clients : c # p /\ held[c] # "" => held[c] # held[p]

LockInv ==
    /\ DbOK(db) /\ TouchOK /\ LocksOK
    /\ \A c \in Clients : FlowOK(proc[c], held[c], db)

(* The rows and the xid of a name change only under its lock. *)
UnderLock(c) ==
    /\ ChangesOnly(db, db', held[c]) /\ held[c] = Params(c).name[2] /\ held[c] \in Names
    /\ proc[c].at \in {"begun", "looked"} /\ proc'[c].at = "answered"
SameRows == db'.xid = db.xid /\ \A x \in Xids : db'.conf[x] = db.conf[x]

LEMMA ExecuteChanges ==
    ASSUME Shape, LockInv, NEW c \in Clients, Execute(c)
    PROVE  DbOK(db') /\ (SameRows \/ UnderLock(c))
<1> DEFINE xid == proc[c].xid
           n == Params(c).name[2]
           rows == ConfMethod(Method(c), db.conf[xid], Params(c)).next
<1>0. proc'[c].at = "answered"
  <2>1. \E r : Answer(c, r)
    BY Zenon DEF Execute, Refuse
  <2>2. QED  BY <2>1, AnswerStep
<1>1. proc[c].at = "looked" /\ FlowOK(proc[c], held[c], db) /\ DbOK(db)
  BY DEF Execute, LockInv
<1>2. /\ xid \in Xids /\ IsConf(Method(c))
      /\ Method(c) \in M_LOCK => held[c] = n /\ n \in Names /\ vxdb_getxid(db, n) = xid
  BY <1>1 DEF FlowOK, Method, Params
<1>3. CASE db' = db
  BY <1>1, <1>3 DEF SameRows
<1>4. CASE db' = [db EXCEPT !.conf[xid] = rows]
  <2> HIDE DEF rows, xid
  <2>1. /\ DOMAIN db' = DbFields /\ DOMAIN db'.conf = Xids
        /\ \A f \in DbFields \ {"conf"} : db'[f] = db[f]
        /\ \A x \in Xids \ {xid} : db'.conf[x] = db.conf[x]
        /\ db'.conf[xid] = rows
    BY <1>1, <1>2, <1>4 DEF DbOK, RegistryOK, DbFields
  <2>0. RowsOK(rows)
    BY <1>1, <1>2, ConfKeepsRows DEF DbOK, RegistryOK, rows
  <2>2. DbOK(db') /\ db'.xid = db.xid
    <3>1. \A x \in Xids : RowsOK(db'.conf[x])
      BY <1>1, <2>0, <2>1 DEF DbOK, RegistryOK
    <3>2. QED  BY <1>1, <2>1, <3>1 DEF DbOK, RegistryOK, UsersOK, DbFields
  <2>3. CASE Method(c) \in M_LOCK
    <3>1. \A k : vxdb_getxid(db', k) = vxdb_getxid(db, k)
      BY <2>2 DEF vxdb_getxid
    <3>2. ChangesOnly(db, db', n)
      BY <1>2, <2>1, <2>2, <2>3, <3>1 DEF ChangesOnly
    <3>3. QED  BY <1>0, <1>1, <1>2, <2>2, <2>3, <3>2 DEF UnderLock
  <2>4. CASE Method(c) \notin M_LOCK
    <3>1. rows = db.conf[xid]
      BY <1>2, <2>4, Lockers, ReadsKeep DEF rows
    <3>2. QED  BY <1>2, <2>1, <2>2, <3>1 DEF SameRows
  <2>5. QED  BY <2>3, <2>4
<1>5. db' = db \/ db' = [db EXCEPT !.conf[xid] = rows]
  <2> DEFINE result == ConfMethod(Method(c), db.conf[xid], Params(c))
             next == [db EXCEPT !.conf[xid] = result.next]
  <2>1. \/ Answer(c, [fault |-> result.fault, answer |-> result.answer, next |-> next])
        \/ Refuse(c, "MEVXDB")
    BY Zenon DEF Execute
  <2>2. CASE Refuse(c, "MEVXDB")
    BY <2>2, RefuseStep
  <2>3. CASE Answer(c, [fault |-> result.fault, answer |-> result.answer, next |-> next])
    <3> HIDE DEF result, next
    <3>1. db' = next
      BY <2>3 DEF Answer
    <3>2. QED  BY <3>1 DEF next, result
  <2>4. QED  BY <2>1, <2>2, <2>3
<1>6. QED  BY <1>3, <1>4, <1>5

LEMMA BodyChanges ==
    ASSUME Shape, LockInv, NEW c \in Clients, Body(c)
    PROVE  DbOK(db') /\ (SameRows \/ UnderLock(c))
<1> DEFINE n == Params(c).name[2]
           m == Method(c)
<1>1. /\ proc[c].at = "begun" /\ ~IsConf(m) /\ m \notin DOMAIN Inner
      /\ FlowOK(proc[c], held[c], db) /\ DbOK(db)
  BY DEF Body, LockInv
<1>2. m \in OneStep /\ (m \in M_LOCK => held[c] = n /\ n \in Names)
  BY <1>1 DEF FlowOK, OneStep, Method, Params
<1>3. CASE Refuse(c, "MEVXDB")
  BY <1>1, <1>3, RefuseStep DEF SameRows
<1>4. ASSUME NEW r \in Outcomes, NEW k \in Counters,
             Answer(c, VcdMethod(m, db, Params(c), proc[c].user, r, k))
      PROVE  DbOK(db') /\ (SameRows \/ UnderLock(c))
  <2> DEFINE next == VcdMethod(m, db, Params(c), proc[c].user, r, k).next
  <2>1. db' = next /\ proc'[c].at = "answered"
    BY <1>4, AnswerStep DEF Answer
  <2>2. CASE m \in {"vx.create", "vx.remove", "vx.rename"}
    <3>1. held[c] = n /\ n \in Names
      BY <1>2, <2>2, Lockers
    <3>2. ChangesOnly(db, next, n)
      BY <1>1, <1>2, <3>1, MethodKeeps
    <3>3. QED  BY <1>1, <2>1, <3>1, <3>2 DEF UnderLock, ChangesOnly
  <2>3. CASE m \notin {"vx.create", "vx.remove", "vx.rename"}
    <3>1. Quiet(db, next)
      BY <1>1, <1>2, <2>3, QuietKeeps
    <3>2. QED  BY <1>1, <2>1, <3>1, QuietChanges DEF SameRows
  <2>4. QED  BY <2>2, <2>3
<1>5. QED  BY <1>3, <1>4, Zenon DEF Body

(* What a group's method does to one of its members. *)
LEMMA MemberQuiet ==
    ASSUME NEW d, DbOK(d), NEW q, NEW r, NEW m \in DOMAIN Inner
    PROVE  Quiet(d, VcdMethod(Inner[m], d, q, "", r, 0).next)
<1>1. Inner[m] \in {"vx.reboot", "vx.restart", "vx.start", "vx.stop"}
  BY InnerIs
<1>2. \A k \in {"vx.reboot", "vx.restart", "vx.start", "vx.stop"} :
         k \in OneStep \ {"vx.create", "vx.remove", "vx.rename"}
  <2> TAKE k \in {"vx.reboot", "vx.restart", "vx.start", "vx.stop"}
  <2>1. k \in OtherMethods["INIT"] /\ "INIT" \in DOMAIN OtherMethods
    BY DEF OtherMethods
  <2>2. k \in Methods
    BY <2>1, Zenon DEF Methods
  <2>3. ~IsConf(k)
    BY DEF IsConf, ConfMethods
  <2>4. k \notin DOMAIN Inner
    BY InnerIs
  <2>5. QED  BY <2>2, <2>3, <2>4 DEF OneStep
<1>3. QED  BY <1>1, <1>2, QuietKeeps

(* One member is dealt with: the method was due or not. *)
Due(pos, m, d) == (pos.xid \in d.up) # (Inner[m] = "vx.start")
Dealt(pos, m, d, r) ==
    IF Due(pos, m, d) THEN VcdMethod(Inner[m], d, [name |-> S(pos.name)], "", r, 0)
    ELSE Changed(d)

LEMMA MemberStep ==
    ASSUME Shape, NEW c \in Clients, GroupMember(c)
    PROVE  \E pos \in proc[c].todo, r \in Outcomes :
              LET result == Dealt(pos, Method(c), db, r) IN
              /\ db' = result.next
              /\ IF result.fault # "none" THEN Answer(c, result)
                 ELSE proc' = [proc EXCEPT ![c].todo = @ \ {pos}]
<1>1. PICK pos \in proc[c].todo, r \in Outcomes :
        LET result == Dealt(pos, Method(c), db, r)
        IN IF result.fault # "none" THEN Answer(c, result)
           ELSE /\ proc' = [proc EXCEPT ![c].todo = @ \ {pos}]
                /\ db' = result.next /\ Touch(c, result.next)
  BY Zenon DEF GroupMember, Dealt, Due
<1>2. QED  BY <1>1, Zenon DEF Answer

LEMMA GroupChanges ==
    ASSUME Shape, LockInv, NEW c \in Clients, GroupMember(c)
    PROVE  DbOK(db') /\ SameRows /\ db'.vdir = db.vdir
<1>1. PICK pos \in proc[c].todo, r \in Outcomes : db' = Dealt(pos, Method(c), db, r).next
  BY MemberStep
<1>2. DbOK(db) /\ Method(c) \in DOMAIN Inner
  BY DEF LockInv, FlowOK, GroupMember, Method
<1>3. Quiet(db, db')
  <2>1. CASE Due(pos, Method(c), db)
    BY <1>1, <1>2, <2>1, MemberQuiet DEF Dealt
  <2>2. CASE ~Due(pos, Method(c), db)
    BY <1>1, <2>2 DEF Dealt, Changed, Quiet
  <2>3. QED  BY <2>1, <2>2
<1>4. QED  BY <1>2, <1>3, QuietChanges DEF SameRows

LEMMA SameStep ==
    ASSUME Shape, LockInv, NEW c \in Clients, Program(c) \/ Daemon(c) \/ Lost(c),
           ~Execute(c), ~Body(c)
    PROVE  DbOK(db') /\ SameRows
<1>0. DbOK(db)
  BY DEF LockInv
<1>1. CASE db' = db
  BY <1>0, <1>1 DEF SameRows
<1>2. CASE \E id : Refuse(c, id)
  BY <1>1, <1>2, RefuseStep
<1>3. CASE getopt(c) \/ main(c) \/ AskVdir(c) \/ Receive(c) \/ Exit(c)
  BY <1>1, <1>3 DEF getopt, main, AskVdir, Receive, Exit
<1>4. CASE vxpasswd(c)
  <2>1. db' = db \/ \E u, password : db' = [db EXCEPT !.pass[u] = password]
    BY <1>4, Zenon DEF vxpasswd
  <2>2. CASE \E u, password : db' = [db EXCEPT !.pass[u] = password]
    <3>1. /\ DOMAIN db' = DbFields /\ DOMAIN db'.pass = DOMAIN db.pass
          /\ \A f \in DbFields \ {"pass"} : db'[f] = db[f]
      BY <1>0, <2>2 DEF DbOK, DbFields
    <3>2. QED  BY <1>0, <3>1 DEF DbOK, RegistryOK, UsersOK, DbFields, SameRows
  <2>3. QED  BY <1>1, <2>1, <2>2
<1>5. CASE Lost(c) \/ method_default(c)
  BY <1>2, <1>5, Zenon DEF Lost, method_default
<1>6. CASE method_init(c)
  <2>1. ASSUME NEW checks PROVE FirstOf(db, checks, Changed(db)).next = db
    BY <2>1 DEF FirstOf, Refused, Changed
  <2>2. (\E checks : Answer(c, FirstOf(db, checks, Changed(db)))) \/ db' = db
    BY <1>6, Zenon DEF method_init
  <2>3. QED  BY <1>1, <2>1, <2>2 DEF Answer
<1>7. CASE method_lock(c)
  BY <1>1, <1>2, <1>7 DEF method_lock
<1>8. CASE Lookup(c)
  BY <1>1, <1>2, <1>8, Zenon DEF Lookup
<1>9. CASE GroupList(c)
  BY <1>1, <1>2, <1>9, Zenon DEF GroupList
<1>10. CASE GroupEnd(c)
  BY <1>1, <1>10 DEF GroupEnd, Answer, Changed
<1>11. CASE GroupMember(c)
  BY <1>11, GroupChanges
<1>12. QED
  BY <1>3, <1>4, <1>5, <1>6, <1>7, <1>8, <1>9, <1>10, <1>11, Zenon DEF Program, Daemon

LEMMA DbStep ==
    ASSUME Shape, LockInv, NEW c \in Clients, Program(c) \/ Daemon(c) \/ Lost(c)
    PROVE  DbOK(db') /\ (SameRows \/ UnderLock(c))
  BY SameStep, ExecuteChanges, BodyChanges

(* The others go on under their own locks. *)
LEMMA OthersFlow ==
    ASSUME LockInv, NEW c \in Clients, NEW p \in Clients \ {c}, SameRows \/ UnderLock(c)
    PROVE  FlowOK(proc[p], held[p], db')
<1> DEFINE m == proc[p].call.method
           n == proc[p].call.params.name[2]
<1>1. FlowOK(proc[p], held[p], db)
  BY DEF LockInv
<1>2. SUFFICES ASSUME proc[p].at = "looked", m \in M_LOCK PROVE vxdb_getxid(db', n) = proc[p].xid
  BY <1>1 DEF FlowOK
<1>3. held[p] = n /\ n \in Names /\ vxdb_getxid(db, n) = proc[p].xid /\ proc[p].xid \in Xids
  BY <1>1, <1>2 DEF FlowOK
<1>4. CASE SameRows
  BY <1>3, <1>4 DEF SameRows, vxdb_getxid
<1>5. CASE UnderLock(c)
  <2>1. n # "" /\ proc[p].xid # 0
    BY <1>3, NoXid
  <2>2. held[c] # n
    <3>1. held[p] # "" => held[p] # held[c]
      BY Zenon DEF LockInv, LocksOK
    <3>2. QED  BY <1>3, <2>1, <3>1
  <2>3. QED  BY <1>3, <1>5, <2>1, <2>2 DEF UnderLock, ChangesOnly
<1>6. QED  BY <1>4, <1>5

LEMMA AnsweredFlow ==
    ASSUME Shape, NEW c \in Clients, FlowOK(proc[c], held[c], db), NEW r, Answer(c, r), NEW h
    PROVE  FlowOK(proc'[c], h, db')
<1>1. proc'[c].at = "answered" /\ proc'[c].xid = 0 /\ Step(c, Work \ {"members"})
  BY AnswerStep
<1>2. "members" \in ProcFields \ (Work \ {"members"})
  BY DEF ProcFields, Idle, Work
<1>3. proc'[c].members = proc[c].members
  BY <1>1, <1>2 DEF Step
<1>4. QED  BY <1>1, <1>3 DEF FlowOK, Places

(* A list of checks that refuses nothing has nothing that is wrong. *)
LEMMA MethodRefused ==
    ASSUME NEW d, NEW checks, NEW result, NEW top \in Nat, DOMAIN checks = 1 .. top,
           \A i \in DOMAIN checks : checks[i][2] # "none",
           FirstOf(d, checks, result).fault = "none"
    PROVE  \A i \in DOMAIN checks : ~checks[i][1]
<1> DEFINE bad == {i \in DOMAIN checks : checks[i][1]}
<1>1. SUFFICES ASSUME bad # {} PROVE FALSE
  OBVIOUS
<1>2. Min(bad) \in bad
  <2>1. bad \subseteq Nat
    OBVIOUS
  <2> HIDE DEF bad
  <2>2. QED  BY <1>1, <2>1, LeastNat
<1>3. FirstOf(d, checks, result) = Refused(d, checks[Min(bad)][2])
  BY <1>1 DEF FirstOf
<1>4. QED  BY <1>2, <1>3 DEF Refused

(* The list of a group has the xid and the name of registered vservers. *)
LEMMA ListIs ==
    ASSUME NEW d, NEW q, vg_list_init(d, q).fault = "none"
    PROVE  \A pos \in vg_list_init(d, q).answer : /\ pos.name \in DOMAIN d.xid
                                                  /\ pos.xid = d.xid[pos.name]
<1> DEFINE group == q.group[2]
           gid == vxdb_getgid(d, group)
           names == IF group = "all" THEN DOMAIN d.xid
                    ELSE {n \in DOMAIN d.xid : <<d.xid[n], gid>> \in d.member}
           rows == {[xid |-> d.xid[n], name |-> n] : n \in names}
<1>1. vg_list_init(d, q) =
        Checked(d, q, [group |-> "s"], validate_group(group),
                IF group # "all" /\ gid = 0 THEN Refused(d, "MENOVG") ELSE Answered(d, rows))
  BY DEF vg_list_init
<1>2. names \subseteq DOMAIN d.xid
  OBVIOUS
<1> HIDE DEF names
<1>3. \A pos \in rows : pos.name \in DOMAIN d.xid /\ pos.xid = d.xid[pos.name]
  BY <1>2
<1> HIDE DEF rows
<1>4. vg_list_init(d, q).answer = rows
  BY <1>1 DEF Checked, Refused, Answered
<1>5. QED  BY <1>3, <1>4

(* A process goes from check to lock to look-up. *)
LEMMA OwnFlow ==
    ASSUME Shape, LockInv, NEW c \in Clients, Daemon(c) \/ Lost(c), ~Exit(c)
    PROVE  FlowOK(proc'[c], held'[c], db')
<1>0. FlowOK(proc[c], held[c], db) /\ DbOK(db) /\ LocksOK
  BY DEF LockInv
<1>1. ASSUME NEW r, Answer(c, r) PROVE FlowOK(proc'[c], held'[c], db')
  BY <1>0, <1>1, AnsweredFlow
<1>2. ASSUME NEW id, Refuse(c, id) PROVE FlowOK(proc'[c], held'[c], db')
  BY <1>1, <1>2 DEF Refuse
<1>3. CASE method_default(c) \/ Lost(c)
  BY <1>2, <1>3, Zenon DEF method_default, Lost
<1>4. CASE Execute(c) \/ Body(c) \/ GroupEnd(c)
  BY <1>1, <1>2, <1>4, Zenon DEF Execute, Body, GroupEnd
<1>5. CASE method_init(c)
  <2> DEFINE m == Method(c)
             q == Params(c)
             flags == m \in M_OWNER \cup M_LOCK
             checks == << <<~auth_isvalid(db, proc[c].user, proc[c].pass), "MEAUTH">>,
               <<\E cap \in Caps(m) : ~auth_capable(db, proc[c].user, cap), "MEPERM">>,
               <<flags /\ ~Decomposes(q, [name |-> "s"]), "TYPE">>,
               <<flags /\ ~validate_name(q.name[2]), "MEINVAL">>,
               <<m \in M_OWNER /\ ~auth_isowner(db, proc[c].user, q.name[2]), "MENOVPS">> >>
  <2>1. CASE \E r : Answer(c, r)
    BY <1>1, <2>1
  <2>2. CASE /\ FirstOf(db, checks, Changed(db)).fault = "none"
             /\ proc' = [proc EXCEPT ![c].at = IF m \in M_LOCK THEN "checked" ELSE "begun"]
             /\ db' = db
    <3>1. m \in M_LOCK => q.name[2] \in Names
      <4>0. DOMAIN checks = 1 .. 5 /\ 5 \in Nat
        OBVIOUS
      <4>1. 4 \in DOMAIN checks /\ checks[4][1] = (flags /\ ~validate_name(q.name[2]))
        OBVIOUS
      <4>2. \A i \in DOMAIN checks : checks[i][2] # "none"
        OBVIOUS
      <4> HIDE DEF checks
      <4>3. ~checks[4][1]
        BY <2>2, <4>0, <4>1, <4>2, MethodRefused
      <4>4. QED  BY <4>1, <4>3 DEF validate_name
    <3>2. m \in Methods
      BY <1>5 DEF method_init
    <3> HIDE DEF checks, flags
    <3>3. /\ proc'[c].at = IF m \in M_LOCK THEN "checked" ELSE "begun"
          /\ proc'[c].call = proc[c].call /\ proc'[c].xid = proc[c].xid
          /\ proc'[c].members = proc[c].members
      BY <2>2 DEF Shape, ProcFields, Idle
    <3>4. QED  BY <1>0, <2>2, <3>1, <3>2, <3>3 DEF FlowOK, Places, Method, Params
  <2>3. QED  BY <1>5, <2>1, <2>2, Zenon DEF method_init
<1>6. CASE method_lock(c)
  <2>1. CASE Refuse(c, "MEBUSY")
    BY <1>2, <2>1
  <2>2. CASE /\ proc' = [proc EXCEPT ![c].at = "begun"]
             /\ held' = [held EXCEPT ![c] = Params(c).name[2]] /\ db' = db
    <3>1. /\ proc'[c].at = "begun" /\ proc'[c].call = proc[c].call
          /\ proc'[c].xid = proc[c].xid /\ proc'[c].members = proc[c].members
      BY <2>2 DEF Shape, ProcFields, Idle
    <3>2. held'[c] = proc[c].call.params.name[2]
      BY <1>0, <2>2 DEF LocksOK, Params
    <3>3. proc[c].at = "checked"
      BY <1>6 DEF method_lock
    <3>4. QED  BY <1>0, <2>2, <3>1, <3>2, <3>3 DEF FlowOK, Places
  <2>3. QED  BY <1>6, <2>1, <2>2, Zenon DEF method_lock
<1>7. CASE Lookup(c)
  <2> DEFINE xid == vxdb_getxid(db, Params(c).name[2])
  <2>1. CASE \E id : Refuse(c, id)
    BY <1>2, <2>1
  <2>2. CASE /\ xid # 0 /\ proc' = [proc EXCEPT ![c].at = "looked", ![c].xid = xid]
             /\ db' = db
    <3>1. /\ proc'[c].at = "looked" /\ proc'[c].call = proc[c].call
          /\ proc'[c].xid = xid /\ proc'[c].members = proc[c].members
      <4>1. PICK x : x = xid /\ proc' = [proc EXCEPT ![c].at = "looked", ![c].xid = x]
        BY <2>2, Zenon
      <4> HIDE DEF xid
      <4>2. /\ proc'[c].at = "looked" /\ proc'[c].call = proc[c].call
            /\ proc'[c].xid = x /\ proc'[c].members = proc[c].members
        <5>1. proc'[c] = [proc[c] EXCEPT !.at = "looked", !.xid = x]
          BY <4>1 DEF Shape
        <5>2. DOMAIN proc[c] = {"at", "line", "user", "pass", "call", "xid", "fault", "answer",
                                "got", "todo", "members"}
          BY DEF Shape, ProcFields, Idle
        <5>3. QED  BY <5>1, <5>2
      <4>3. QED  BY <4>1, <4>2
    <3>2. held' = held /\ proc[c].at = "begun" /\ IsConf(Method(c))
      BY <1>7 DEF Lookup
    <3>3. xid \in Xids
      BY <1>0, <2>2 DEF DbOK, RegistryOK, vxdb_getxid
    <3>4. QED  BY <1>0, <2>2, <3>1, <3>2, <3>3 DEF FlowOK, Places, Method, Params
  <2>3. QED  BY <1>7, <2>1, <2>2, Zenon DEF Lookup
<1>8. CASE GroupList(c)
  <2> DEFINE list == vg_list_init(db, Params(c))
             names == {pos.name : pos \in list.answer}
  <2>1. CASE \E id : Refuse(c, id)
    BY <1>2, <2>1
  <2>2. CASE /\ list.fault = "none" /\ db' = db
             /\ proc' = [proc EXCEPT ![c].at = "looping", ![c].todo = list.answer,
                                     ![c].members = names]
    <3>1. names \subseteq Names
      BY <1>0, <2>2, ListIs DEF DbOK, RegistryOK
    <3>2. /\ proc'[c].at = "looping" /\ proc'[c].call = proc[c].call
          /\ proc'[c].xid = proc[c].xid /\ proc'[c].members = names
      <4> HIDE DEF list, names
      <4> QED  BY <2>2 DEF Shape, ProcFields, Idle
    <3>3. proc[c].at = "begun" /\ Method(c) \in DOMAIN Inner
      BY <1>8 DEF GroupList
    <3>4. QED  BY <1>0, <2>2, <3>1, <3>2, <3>3 DEF FlowOK, Places, Method, Params
  <2>3. QED  BY <1>8, <2>1, <2>2, Zenon DEF GroupList
<1>9. CASE GroupMember(c)
  <2>1. CASE \E r : Answer(c, r)
    BY <1>1, <2>1
  <2>2. CASE \E pos : proc' = [proc EXCEPT ![c].todo = @ \ {pos}]
    <3>1. /\ proc'[c].at = proc[c].at /\ proc'[c].call = proc[c].call
          /\ proc'[c].xid = proc[c].xid /\ proc'[c].members = proc[c].members
      BY <2>2 DEF Shape, ProcFields, Idle
    <3>2. proc[c].at = "looping"
      BY <1>9 DEF GroupMember
    <3>3. QED  BY <1>0, <3>1, <3>2 DEF FlowOK
  <2>3. QED  BY <1>9, <2>1, <2>2, Zenon DEF GroupMember
<1>10. QED
  BY <1>3, <1>4, <1>5, <1>6, <1>7, <1>8, <1>9, Zenon DEF Daemon

(* Only the lock of a process changes in its step, and only one process    *)
(* has the lock of a name.                                                 *)
LEMMA LocksStep ==
    ASSUME Shape, LockInv, NEW c \in Clients, Program(c) \/ Daemon(c) \/ Lost(c)
    PROVE  LocksOK' /\ \A p \in Clients \ {c} : held'[p] = held[p]
<1>0. LocksOK /\ FlowOK(proc[c], held[c], db)
  BY DEF LockInv
<1>1. CASE held' = held /\ late' = late
  BY <1>0, <1>1 DEF LocksOK
<1>2. CASE Exit(c)
  BY <1>0, <1>2 DEF LocksOK, Exit
<1>3. CASE Receive(c)
  <2>1. /\ late' = [late EXCEPT ![c] = @ \cup ({held[c]} \ {""})]
        /\ held' = [held EXCEPT ![c] = ""]
    BY <1>3 DEF Receive
  <2>2. QED  BY <1>0, <2>1 DEF LocksOK
<1>4. CASE Lost(c)
  <2>1. held' = [held EXCEPT ![c] = ""] /\ late' = late
    BY <1>4 DEF Lost
  <2>2. QED  BY <1>0, <2>1 DEF LocksOK
<1>5. CASE method_lock(c)
  <2> DEFINE n == Params(c).name[2]
  <2>1. /\ late' = late
        /\ \/ held' = held
           \/ held' = [held EXCEPT ![c] = n] /\ \A p \in Clients : held[p] # n
    <3> DEFINE free == \A p \in Clients : held[p] # n /\ n \notin late[p]
    <3>1. late' = late /\ IF free THEN held' = [held EXCEPT ![c] = n] ELSE held' = held
      BY <1>5 DEF method_lock
    <3>2. free => \A p \in Clients : held[p] # n
      OBVIOUS
    <3> HIDE DEF free
    <3>3. QED  BY <3>1, <3>2
  <2>2. n \in Names
    BY <1>0, <1>5 DEF method_lock, FlowOK, Params
  <2> HIDE DEF n
  <2>3. CASE held' = [held EXCEPT ![c] = n] /\ \A p \in Clients : held[p] # n
    BY <1>0, <2>1, <2>2, <2>3 DEF LocksOK
  <2>4. QED  BY <1>1, <2>1, <2>3
<1>6. CASE \/ getopt(c) \/ main(c) \/ vxpasswd(c) \/ AskVdir(c)
           \/ method_default(c) \/ method_init(c) \/ Lookup(c) \/ Execute(c) \/ Body(c)
           \/ GroupList(c) \/ GroupMember(c) \/ GroupEnd(c)
  <2>1. held' = held /\ late' = late
    BY <1>6 DEF getopt, main, vxpasswd, AskVdir, method_default, method_init, Lookup,
       Execute,
                Body, GroupList, GroupMember, GroupEnd
  <2>2. QED  BY <1>1, <2>1
<1>7. QED  BY <1>2, <1>3, <1>4, <1>5, <1>6, Zenon DEF Program, Daemon

LEMMA LockInit == Init => LockInv
<1> SUFFICES ASSUME Init PROVE LockInv
  OBVIOUS
<1>1. /\ db = InitialDb /\ proc = [c \in Clients |-> Idle] /\ held = [c \in Clients |-> ""]
      /\ late = [c \in Clients |-> {}] /\ touched = [c \in Clients |-> {}]
  BY DEF Init
<1>2. Idle.at = "idle" /\ Idle.xid = 0 /\ Idle.members = {}
  BY DEF Idle
<1>3. FlowOK(Idle, "", db)
  BY <1>2 DEF FlowOK, Places
<1>4. LocksOK /\ TouchOK
  BY <1>1 DEF LocksOK, TouchOK
<1>5. QED  BY <1>1, <1>3, <1>4, InitialDbAssumption DEF LockInv

LEMMA LockNext == Shape /\ LockInv /\ [Next]_vars => LockInv'
<1> SUFFICES ASSUME Shape, LockInv, [Next]_vars PROVE LockInv'
  OBVIOUS
<1>0. DbOK(db) /\ TouchOK /\ LocksOK /\ \A c \in Clients : FlowOK(proc[c], held[c], db)
  BY DEF LockInv
<1>1. ASSUME NEW c \in Clients, Program(c) \/ Daemon(c) \/ Lost(c),
             \A p \in Clients \ {c} : proc'[p] = proc[p],
             FlowOK(proc'[c], held'[c], db')
      PROVE  LockInv'
  <2>1. DbOK(db') /\ (SameRows \/ UnderLock(c))
    BY <1>1, DbStep
  <2>2. LocksOK' /\ \A p \in Clients \ {c} : held'[p] = held[p]
    BY <1>1, LocksStep
  <2>3. TouchOK'
    BY <1>0, <1>1, StepTells
  <2>4. ASSUME NEW p \in Clients PROVE FlowOK(proc'[p], held'[p], db')
    <3>1. CASE p = c
      BY <1>1, <3>1
    <3>2. CASE p # c
      BY <1>1, <2>1, <2>2, <3>2, OthersFlow
    <3>3. QED  BY <3>1, <3>2
  <2>5. QED  BY <2>1, <2>2, <2>3, <2>4 DEF LockInv
<1>2. ASSUME NEW c \in Clients, Daemon(c) \/ Lost(c), ~Exit(c) PROVE LockInv'
  <2>1. \A p \in Clients \ {c} : proc'[p] = proc[p]
    BY <1>2, DaemonStep DEF Step
  <2>2. FlowOK(proc'[c], held'[c], db')
    BY <1>2, OwnFlow
  <2>3. QED  BY <1>1, <1>2, <2>1, <2>2
<1>3. ASSUME NEW c \in Clients, Exit(c) \/ getopt(c) PROVE LockInv'
  <2>1. proc' = proc /\ held' = held /\ db' = db
    BY <1>3 DEF Exit, getopt
  <2>2. QED  BY <1>0, <1>1, <1>3, <2>1 DEF Program, Daemon
<1>4. ASSUME NEW c \in Clients, vxpasswd(c) PROVE LockInv'
  <2>1. proc' = proc /\ held' = held /\ proc[c].at = "idle"
    BY <1>4 DEF vxpasswd
  <2>2. FlowOK(proc'[c], held'[c], db')
    BY <1>0, <2>1 DEF FlowOK
  <2>3. QED  BY <1>1, <1>4, <2>1, <2>2 DEF Program
<1>5. ASSUME NEW c \in Clients, main(c) PROVE LockInv'
  <2>1. /\ proc'[c].at \in {"idle", "calling", "answered"}
        /\ proc'[c].xid = 0 /\ proc'[c].members = {}
    <3>1. Idle.at = "idle" /\ Idle.xid = 0 /\ Idle.members = {}
      BY DEF Idle
    <3>2. QED  BY <1>5, <3>1, MainStep
  <2>2. FlowOK(proc'[c], held'[c], db')
    BY <2>1 DEF FlowOK, Places
  <2>3. \A p \in Clients \ {c} : proc'[p] = proc[p]
    BY <1>5, MainStep DEF Step
  <2>4. QED  BY <1>1, <1>5, <2>2, <2>3 DEF Program
<1>6. ASSUME NEW c \in Clients, AskVdir(c) PROVE LockInv'
  <2>1. Step(c, {"at", "got", "call"}) /\ proc'[c].at = "calling"
    BY <1>6, AskStep
  <2>2. {"xid", "members"} \subseteq ProcFields \ {"at", "got", "call"}
    BY DEF ProcFields, Idle
  <2>3. /\ proc'[c].xid = proc[c].xid /\ proc'[c].members = proc[c].members
        /\ \A p \in Clients \ {c} : proc'[p] = proc[p]
    BY <2>1, <2>2 DEF Step
  <2>4. FlowOK(proc'[c], held'[c], db')
    BY <1>0, <2>1, <2>3 DEF FlowOK, Places
  <2>5. QED  BY <1>1, <1>6, <2>3, <2>4 DEF Program
<1>7. ASSUME NEW c \in Clients, Receive(c) PROVE LockInv'
  <2>1. proc'[c] = Idle /\ \A p \in Clients \ {c} : proc'[p] = proc[p]
    BY <1>7, ReceiveStep DEF Step
  <2>2. Idle.at = "idle" /\ Idle.xid = 0 /\ Idle.members = {}
    BY DEF Idle
  <2>3. FlowOK(proc'[c], held'[c], db')
    BY <2>1, <2>2 DEF FlowOK, Places
  <2>4. QED  BY <1>1, <1>7, <2>1, <2>3 DEF Program
<1>8. CASE Guest
  <2>1. PICK x \in db.up \cap Mortal : db' = [db EXCEPT !.up = @ \ {x}]
    BY <1>8 DEF Guest
  <2>2. KeepsTables(db, db') /\ db'.up \subseteq Xids
    BY <1>0, <2>1 DEF DbOK, DbFields, KeepsTables
  <2>3. DbOK(db') /\ db'.xid = db.xid
    BY <1>0, <2>2, QuietChanges DEF Quiet
  <2>4. proc' = proc /\ held' = held /\ late' = late
    BY <1>8 DEF Guest
  <2>5. LocksOK' /\ TouchOK'
    BY <1>0, <1>8, <2>4, GuestTells DEF LocksOK
  <2>6. \A c \in Clients : FlowOK(proc'[c], held'[c], db')
    BY <1>0, <2>3, <2>4 DEF FlowOK, vxdb_getxid
  <2>7. QED  BY <2>3, <2>5, <2>6 DEF LockInv
<1>9. CASE Terminated \/ UNCHANGED vars
  BY <1>0, <1>9 DEF Terminated, vars, LockInv, TouchOK, LocksOK
<1>10. QED
  BY <1>2, <1>3, <1>4, <1>5, <1>6, <1>7, <1>8, <1>9, Zenon DEF Next, Program

LEMMA LockInvariant == Spec => [](PassInv /\ LockInv)
<1>1. PassInv => Shape
  BY DEF PassInv
<1>2. QED  BY PassInit, PassNext, LockInit, LockNext, <1>1, PTL DEF Spec

(* The state keeps its types, and the registry its shape, however the      *)
(* steps of the clients and the daemon's processes fall: no two names come *)
(* to share an xid, none is left without a directory.                      *)
THEOREM TypeCorrect == Spec => []TypeOK
<1>1. LockInv => TypeOK
  BY DEF LockInv, LocksOK, TouchOK, FlowOK, Places, TypeOK
<1>2. QED  BY LockInvariant, <1>1, PTL

(* Rows change only for the vserver that carries the name of the command   *)
(* at that moment: the lock bridges look-up and statement.                 *)
THEOREM ChangesNamedHolds == Spec => ChangesNamed
<1> DEFINE Changer(x) ==
      \E c \in Clients : /\ proc[c] # proc'[c]
                         /\ LET n == Params(c).name[2] IN
                            x \in {vxdb_getxid(db, n), vxdb_getxid(db', n)}
           Allowed == \A x \in Xids : db.conf[x] # db'.conf[x] => Changer(x)
<1>1. ASSUME Shape, LockInv, Next PROVE Allowed
  <2>1. CASE \A x \in Xids : db'.conf[x] = db.conf[x]
    BY <2>1
  <2>2. ASSUME NEW c \in Clients, Program(c) \/ Daemon(c) \/ Lost(c) PROVE Allowed
    <3>1. CASE SameRows
      BY <2>1, <3>1 DEF SameRows
    <3>2. CASE UnderLock(c)
      <4>1. proc[c] # proc'[c]
        BY <3>2 DEF UnderLock
      <4>2. \A x \in Xids : db.conf[x] # db'.conf[x] =>
               x \in {vxdb_getxid(db, Params(c).name[2]), vxdb_getxid(db', Params(c).name[2])}
        BY <3>2 DEF UnderLock, ChangesOnly
      <4>3. QED  BY <4>1, <4>2
    <3>3. QED  BY <1>1, <2>2, <3>1, <3>2, DbStep
  <2>3. CASE Guest
    <3>1. PICK x \in db.up \cap Mortal : db' = [db EXCEPT !.up = @ \ {x}]
      BY <2>3 DEF Guest
    <3>2. DOMAIN db = DbFields
      BY <1>1 DEF LockInv, DbOK
    <3>3. db'.conf = db.conf
      BY <3>1, <3>2 DEF DbFields
    <3>4. QED  BY <2>1, <3>3
  <2>4. CASE Terminated
    BY <2>1, <2>4 DEF Terminated, vars
  <2>5. QED  BY <1>1, <2>2, <2>3, <2>4 DEF Next
<1>2. PassInv /\ LockInv /\ [Next]_vars => [Allowed]_vars
  BY <1>1 DEF PassInv
<1>3. QED  BY LockInvariant, <1>2, PTL DEF Spec, ChangesNamed

-----------------------------------------------------------------------------
(* What a client knows of names that nobody else has touched *)

(* The xid and the directory that cmd_login was told. *)
LoginOK(p, t, d) ==
    LET m == p.call.method
        n == p.call.params.name[2]
        done == p.at = "answered" /\ p.fault = "none"
    IN /\ p.at = "idle" => p.got = 0
       /\ p.got # 0 =>
             m = "vxdb.vdir.get" /\ n \in Names /\ (n \in t \/ vxdb_getxid(d, n) = p.got)
       /\ done /\ m = "vxdb.xid.get" =>
             /\ n \in Names /\ p.answer[2] # 0
             /\ n \in t \/ vxdb_getxid(d, n) = p.answer[2]
       /\ done /\ m = "vxdb.vdir.get" =>
             n \in Names /\ (n \in t \/ vxdb_getvdir(d, n) = p.answer[2])

(* A member that is still to be stopped has the xid of the list; one that  *)
(* is not does not run.                                                    *)
Stopped(n, t, d) == n \in t \/ vxdb_getxid(d, n) \notin d.up
GroupOK(p, t, d) ==
    p.call.method = "vg.vx.stop" =>
       /\ p.at = "looping" =>
             /\ \A pos \in p.todo :
                   pos.name \in Names /\ (pos.name \in t \/ vxdb_getxid(d, pos.name) = pos.xid)
             /\ \A n \in p.members : Stopped(n, t, d) \/ \E pos \in p.todo : pos.name = n
       /\ p.at = "answered" /\ p.fault = "none" => \A n \in p.members : Stopped(n, t, d)

MeantInv ==
    \A c \in Clients : LoginOK(proc[c], touched[c], db) /\ GroupOK(proc[c], touched[c], db)

LEMMA OthersMeant ==
    ASSUME NEW p \in Clients, Told(p), proc[p].members \subseteq Names,
           LoginOK(proc[p], touched[p], db), GroupOK(proc[p], touched[p], db)
    PROVE  LoginOK(proc[p], touched'[p], db') /\ GroupOK(proc[p], touched'[p], db')
<1>1. touched[p] \subseteq touched'[p]
  BY DEF Told
<1>2. ASSUME NEW n \in Names
      PROVE  \/ n \in touched'[p]
             \/ /\ vxdb_getxid(db', n) = vxdb_getxid(db, n)
                /\ vxdb_getvdir(db', n) = vxdb_getvdir(db, n)
                /\ (vxdb_getxid(db', n) \in db'.up) = (vxdb_getxid(db, n) \in db.up)
  BY <1>2 DEF Told, About
<1>3. LoginOK(proc[p], touched'[p], db')
  BY <1>1, <1>2 DEF LoginOK
<1>4. \A n \in Names : Stopped(n, touched[p], db) => Stopped(n, touched'[p], db')
  BY <1>1, <1>2 DEF Stopped
<1>5. \A n \in Names : n \in touched[p] \/ vxdb_getxid(db, n) = vxdb_getxid(db', n)
                        \/ n \in touched'[p]
  BY <1>2
<1>6. GroupOK(proc[p], touched'[p], db')
  BY <1>1, <1>4, <1>5 DEF GroupOK
<1>7. QED  BY <1>3, <1>6

(* Asking for an xid or a directory changes nothing and tells the truth. *)
LEMMA AskerStep ==
    ASSUME Shape, LockInv, NEW c \in Clients, Daemon(c) \/ Lost(c), ~Exit(c),
           Method(c) \in {"vxdb.xid.get", "vxdb.vdir.get"}
    PROVE  /\ \A n : vxdb_getxid(db', n) = vxdb_getxid(db, n)
           /\ \A n : vxdb_getvdir(db', n) = vxdb_getvdir(db, n)
           /\ proc'[c].at = "answered" /\ proc'[c].fault = "none" =>
                 LET n == Params(c).name[2] IN
                 /\ n \in Names
                 /\ Method(c) = "vxdb.xid.get" =>
                       proc'[c].answer[2] = vxdb_getxid(db, n) /\ vxdb_getxid(db, n) # 0
                 /\ Method(c) = "vxdb.vdir.get" => proc'[c].answer[2] = vxdb_getvdir(db, n)
<1> DEFINE Told2 == LET n == Params(c).name[2] IN
                    /\ n \in Names
                    /\ Method(c) = "vxdb.xid.get" =>
                          proc'[c].answer[2] = vxdb_getxid(db, n) /\ vxdb_getxid(db, n) # 0
                    /\ Method(c) = "vxdb.vdir.get" => proc'[c].answer[2] = vxdb_getvdir(db, n)
           Truth == db' = db /\ (proc'[c].at = "answered" /\ proc'[c].fault = "none" => Told2)
<1> SUFFICES Truth
  OBVIOUS
<1>0. /\ ~IsConf(Method(c)) /\ Method(c) \notin DOMAIN Inner
      /\ FlowOK(proc[c], held[c], db) /\ DbOK(db)
  BY InnerIs DEF IsConf, ConfMethods, LockInv
<1>1. ASSUME NEW id, id # "none", Refuse(c, id) PROVE Truth
  BY <1>1, RefuseStep
<1>2. CASE method_default(c) \/ Lost(c)
  BY <1>1, <1>2 DEF method_default, Lost
<1>3. CASE method_init(c)
  <2>1. \/ \E checks : LET r == FirstOf(db, checks, Changed(db)) IN r.fault # "none" /\ Answer(c, r)
        \/ db' = db /\ proc' = [proc EXCEPT ![c].at = IF Method(c) \in M_LOCK THEN "checked"
                                                     ELSE "begun"]
    BY <1>3, Zenon DEF method_init
  <2>2. ASSUME NEW checks, LET r == FirstOf(db, checks, Changed(db)) IN
                           r.fault # "none" /\ Answer(c, r)
        PROVE  Truth
    <3>1. FirstOf(db, checks, Changed(db)).next = db
      BY DEF FirstOf, Refused, Changed
    <3>2. QED  BY <2>2, <3>1, AnswerStep DEF Answer
  <2>3. CASE db' = db /\ proc' = [proc EXCEPT ![c].at = IF Method(c) \in M_LOCK THEN "checked"
                                                     ELSE "begun"]
    <3>1. proc'[c].at # "answered"
      BY <2>3 DEF Shape, ProcFields, Idle
    <3>2. QED  BY <2>3, <3>1
  <2>4. QED  BY <2>1, <2>2, <2>3
<1>4. CASE method_lock(c)
  <2>1. CASE Refuse(c, "MEBUSY")
    BY <1>1, <2>1
  <2>2. CASE db' = db /\ proc' = [proc EXCEPT ![c].at = "begun"]
    <3>1. proc'[c].at # "answered"
      BY <2>2 DEF Shape, ProcFields, Idle
    <3>2. QED  BY <2>2, <3>1
  <2>3. QED  BY <1>4, <2>1, <2>2, Zenon DEF method_lock
<1>5. CASE Body(c)
  <2>1. CASE Refuse(c, "MEVXDB")
    BY <1>1, <2>1
  <2>2. ASSUME NEW r \in Outcomes, NEW k \in Counters,
               Answer(c, VcdMethod(Method(c), db, Params(c), proc[c].user, r, k))
        PROVE  Truth
    <3> DEFINE n == Params(c).name[2]
    <3>1. CASE Method(c) = "vxdb.xid.get"
      <4> DEFINE res == m_vxdb_xid_get(db, Params(c))
      <4>1. Answer(c, res)
        BY <2>2, <3>1 DEF VcdMethod
      <4>2. /\ res.next = db
            /\ res.fault = "none" => res.answer[2] = db.xid[n] /\ vxdb_getxid(db, n) # 0
        BY DEF m_vxdb_xid_get, Named, Checked, Refused, Answered, I
      <4>3. /\ db' = res.next /\ proc'[c].fault = res.fault /\ proc'[c].answer = res.answer
        BY <4>1, AnswerStep DEF Answer
      <4> HIDE DEF res
      <4>4. vxdb_getxid(db, n) # 0 => n \in Names /\ db.xid[n] = vxdb_getxid(db, n)
        BY <1>0 DEF vxdb_getxid, DbOK, RegistryOK
      <4>5. QED  BY <3>1, <4>2, <4>3, <4>4
    <3>2. CASE Method(c) = "vxdb.vdir.get"
      <4> DEFINE res == m_vxdb_vdir_get(db, Params(c))
      <4>1. Answer(c, res)
        BY <2>2, <3>2 DEF VcdMethod
      <4>2. /\ res.next = db
            /\ res.fault = "none" => res.answer[2] = vxdb_getvdir(db, n) /\ vxdb_getxid(db, n) # 0
        BY DEF m_vxdb_vdir_get, Named, Checked, Refused, Answered, S
      <4>3. /\ db' = res.next /\ proc'[c].fault = res.fault /\ proc'[c].answer = res.answer
        BY <4>1, AnswerStep DEF Answer
      <4> HIDE DEF res
      <4>4. vxdb_getxid(db, n) # 0 => n \in Names
        BY <1>0 DEF vxdb_getxid, DbOK, RegistryOK
      <4>5. QED  BY <3>2, <4>2, <4>3, <4>4
    <3>3. QED  BY <3>1, <3>2
  <2>3. QED  BY <1>5, <2>1, <2>2, Zenon DEF Body
<1>6. ~Lookup(c) /\ ~GroupList(c) /\ ~Execute(c) /\ ~GroupMember(c) /\ ~GroupEnd(c)
  <2>1. Lookup(c) => IsConf(Method(c))
    BY DEF Lookup
  <2>2. GroupList(c) => Method(c) \in DOMAIN Inner
    BY DEF GroupList
  <2>3. Execute(c) => proc[c].at = "looked"
    BY DEF Execute
  <2>4. GroupMember(c) \/ GroupEnd(c) => proc[c].at = "looping"
    BY DEF GroupMember, GroupEnd
  <2>5. /\ proc[c].at = "looked" => IsConf(Method(c))
        /\ proc[c].at = "looping" => Method(c) \in DOMAIN Inner
    BY <1>0 DEF FlowOK, Method
  <2>6. QED  BY <1>0, <2>1, <2>2, <2>3, <2>4, <2>5
<1>7. method_default(c) \/ Lost(c) \/ method_init(c) \/ method_lock(c) \/ Body(c)
  BY <1>6, Zenon DEF Daemon
<1>8. QED  BY <1>2, <1>3, <1>4, <1>5, <1>7, Zenon

(* A process that has got no answer yet, or a fault, knows nothing. *)
LEMMA FreshMeant ==
    ASSUME NEW p, NEW t, NEW d, p.got = 0,
           p.at \in {"idle", "calling"} \/ (p.at = "answered" /\ p.fault # "none")
    PROVE  LoginOK(p, t, d) /\ GroupOK(p, t, d)
  BY DEF LoginOK, GroupOK

LEMMA LoginStep ==
    ASSUME Shape, LockInv, NEW c \in Clients, Daemon(c) \/ Lost(c), ~Exit(c),
           touched'[c] = touched[c], LoginOK(proc[c], touched[c], db)
    PROVE  LoginOK(proc'[c], touched'[c], db')
<1>1. /\ proc'[c].call = proc[c].call /\ proc'[c].got = proc[c].got
      /\ proc[c].at # "idle" /\ proc'[c].at # "idle"
  <2>1. {"call", "got"} \subseteq ProcFields \ Work
    BY DEF ProcFields, Idle, Work
  <2>2. QED  BY <2>1, DaemonStep DEF Step
<1>2. CASE Method(c) \notin {"vxdb.xid.get", "vxdb.vdir.get"}
  BY <1>1, <1>2 DEF LoginOK, Method
<1>3. CASE Method(c) \in {"vxdb.xid.get", "vxdb.vdir.get"}
  <2>1. /\ \A n : vxdb_getxid(db', n) = vxdb_getxid(db, n)
        /\ \A n : vxdb_getvdir(db', n) = vxdb_getvdir(db, n)
        /\ proc'[c].at = "answered" /\ proc'[c].fault = "none" =>
              LET n == Params(c).name[2] IN
              /\ n \in Names
              /\ Method(c) = "vxdb.xid.get" =>
                    proc'[c].answer[2] = vxdb_getxid(db, n) /\ vxdb_getxid(db, n) # 0
              /\ Method(c) = "vxdb.vdir.get" => proc'[c].answer[2] = vxdb_getvdir(db, n)
    BY <1>3, AskerStep
  <2>2. QED  BY <1>1, <2>1 DEF LoginOK, Method, Params
<1>4. QED  BY <1>2, <1>3

(* vx.stop without a fault has ended the vserver it was called for. *)
LEMMA StopStops ==
    ASSUME NEW d, DbOK(d), NEW n, NEW r,
           m_vx_stop(d, [name |-> S(n)], r).fault = "none"
    PROVE  LET e == m_vx_stop(d, [name |-> S(n)], r).next IN
           /\ e.xid = d.xid /\ e.up \subseteq d.up
           /\ vxdb_getxid(d, n) \notin e.up
<1> DEFINE q == [name |-> S(n)]
           s == m_vx_stop(d, q, r)
<1>1. q.name[2] = n
  BY DEF S
<1>2. s.next = [d EXCEPT !.up = @ \ {d.xid[n]}] /\ n \in DOMAIN d.xid
  <2>1. vxdb_getxid(d, n) # 0
    BY <1>1 DEF m_vx_stop, Running, Named, Checked, Refused
  <2>2. s.next = [d EXCEPT !.up = @ \ {d.xid[n]}]
    BY <1>1, <2>1 DEF m_vx_stop, Running, Named, Checked, Refused, Changed
  <2>3. QED  BY <2>1, <2>2 DEF vxdb_getxid
<1>3. KeepsTables(d, s.next) /\ s.next.up \subseteq d.up
  BY StopKeeps
<1> HIDE DEF s
<1>4. s.next.up = d.up \ {d.xid[n]}
  BY <1>2 DEF DbOK, DbFields
<1>5. s.next.xid = d.xid
  BY <1>3 DEF KeepsTables, DbFields
<1>6. QED  BY <1>2, <1>3, <1>4, <1>5 DEF s, vxdb_getxid

(* The members of a group are listed with their xids ... *)
LEMMA ListStep ==
    ASSUME Shape, LockInv, NEW c \in Clients, GroupList(c)
    PROVE  \/ \E id : id # "none" /\ Refuse(c, id)
           \/ /\ db' = db /\ proc'[c].at = "looping"
              /\ proc'[c].members = {pos.name : pos \in proc'[c].todo}
              /\ \A pos \in proc'[c].todo :
                    pos.name \in Names /\ vxdb_getxid(db, pos.name) = pos.xid
<1> DEFINE list == vg_list_init(db, Params(c))
<1>1. CASE list.fault # "none"
  <2>1. Refuse(c, list.fault)
    BY <1>1 DEF GroupList
  <2>2. QED  BY <1>1, <2>1
<1>2. CASE list.fault = "none"
  <2>1. \A pos \in list.answer : pos.name \in DOMAIN db.xid /\ pos.xid = db.xid[pos.name]
    BY <1>2, ListIs
  <2>2. /\ proc' = [proc EXCEPT ![c].at = "looping", ![c].todo = list.answer,
                                ![c].members = {pos.name : pos \in list.answer}]
        /\ db' = db
    BY <1>2 DEF GroupList
  <2>3. DOMAIN db.xid \subseteq Names
    BY DEF LockInv, DbOK, RegistryOK
  <2> HIDE DEF list
  <2> DEFINE names == {pos.name : pos \in list.answer}
  <2>4. \A w : proc' = [proc EXCEPT ![c].at = "looping", ![c].todo = list.answer, ![c].members = w]
           => /\ proc'[c].at = "looping" /\ proc'[c].todo = list.answer
              /\ proc'[c].members = w
    BY DEF Shape, ProcFields, Idle
  <2>5. /\ proc'[c].at = "looping" /\ proc'[c].todo = list.answer
        /\ proc'[c].members = names
    BY <2>2, <2>4
  <2>6. QED  BY <2>1, <2>2, <2>3, <2>5 DEF vxdb_getxid
<1>3. QED  BY <1>1, <1>2

(* ... and stopped by name, which ends what the list has unless somebody   *)
(* else has touched it.                                                    *)
LEMMA StopMember ==
    ASSUME Shape, LockInv, NEW c \in Clients, GroupMember(c), Method(c) = "vg.vx.stop"
    PROVE  \E pos \in proc[c].todo, r \in Outcomes :
              LET result == Dealt(pos, Method(c), db, r) IN
              \/ result.fault # "none" /\ Answer(c, result)
              \/ /\ proc'[c] = [proc[c] EXCEPT !.todo = @ \ {pos}]
                 /\ db'.xid = db.xid /\ db'.up \subseteq db.up
                 /\ pos.xid \in db.up => vxdb_getxid(db, pos.name) \notin db'.up
<1>1. PICK pos \in proc[c].todo, r \in Outcomes :
              LET result == Dealt(pos, Method(c), db, r) IN
              /\ db' = result.next
              /\ IF result.fault # "none" THEN Answer(c, result)
                 ELSE proc' = [proc EXCEPT ![c].todo = @ \ {pos}]
  BY MemberStep
<1> DEFINE result == Dealt(pos, Method(c), db, r)
           stop == m_vx_stop(db, [name |-> S(pos.name)], r)
<1>2. CASE result.fault # "none"
  <2>1. Answer(c, result)
    BY <1>1, <1>2
  <2>2. QED  BY <1>2, <2>1
<1>3. CASE result.fault = "none"
  <2>1. proc' = [proc EXCEPT ![c].todo = @ \ {pos}] /\ db' = result.next
    BY <1>1, <1>3
  <2>2. proc'[c] = [proc[c] EXCEPT !.todo = @ \ {pos}]
    BY <2>1 DEF Shape
  <2>3. CASE pos.xid \in db.up
    <3>0. Inner[Method(c)] = "vx.stop" /\ Due(pos, Method(c), db)
      BY <2>3, InnerIs DEF Due
    <3>1. result = stop
      <4>1. result = VcdMethod("vx.stop", db, [name |-> S(pos.name)], "", r, 0)
        BY <3>0, Zenon DEF Dealt
      <4> DEFINE q == [name |-> S(pos.name)]
      <4> HIDE DEF q
      <4>2. VcdMethod("vx.stop", db, q, "", r, 0) = m_vx_stop(db, q, r)
        BY DEF VcdMethod
      <4>3. QED  BY <4>1, <4>2 DEF q
    <3>2. stop.fault = "none" /\ db' = stop.next /\ DbOK(db)
      BY <1>3, <2>1, <3>1 DEF LockInv
    <3>3. db'.xid = db.xid /\ db'.up \subseteq db.up /\ vxdb_getxid(db, pos.name) \notin db'.up
      BY <3>2, StopStops
    <3>4. QED  BY <2>2, <3>3
  <2>4. CASE pos.xid \notin db.up
    <3>0. ~Due(pos, Method(c), db)
      BY <2>4, InnerIs DEF Due
    <3>1. result = Changed(db)
      BY <3>0, Zenon DEF Dealt
    <3>2. db' = db
      BY <2>1, <3>1 DEF Changed
    <3>3. QED  BY <2>2, <2>4, <3>2
  <2>5. QED  BY <2>3, <2>4
<1>4. QED  BY <1>2, <1>3

LEMMA GroupStep ==
    ASSUME Shape, LockInv, NEW c \in Clients, Daemon(c) \/ Lost(c), ~Exit(c),
           touched'[c] = touched[c], GroupOK(proc[c], touched[c], db)
    PROVE  GroupOK(proc'[c], touched'[c], db')
<1> DEFINE Goal == GroupOK(proc'[c], touched[c], db')
<1>0. proc'[c].call = proc[c].call
  <2>1. "call" \in ProcFields \ Work
    BY DEF ProcFields, Idle, Work
  <2>2. QED  BY <2>1, DaemonStep DEF Step
<1>1. SUFFICES ASSUME Method(c) = "vg.vx.stop" PROVE Goal
  BY <1>0 DEF GroupOK, Method
<1>2. /\ ~IsConf(Method(c)) /\ Method(c) \in DOMAIN Inner
      /\ FlowOK(proc[c], held[c], db) /\ DbOK(db)
  BY <1>1, InnerIs DEF IsConf, ConfMethods, LockInv
<1>3. ASSUME NEW r, r.fault # "none", Answer(c, r) PROVE Goal
  BY <1>3, AnswerStep DEF GroupOK
<1>4. ASSUME NEW id, id # "none", Refuse(c, id) PROVE Goal
  BY <1>4, RefuseStep DEF GroupOK
<1>5. ASSUME proc'[c].at \notin {"looping", "answered"} PROVE Goal
  BY <1>5 DEF GroupOK
<1>6. CASE method_default(c) \/ Lost(c)
  <2> HIDE DEF Goal
  <2>1. QED  BY <1>4, <1>6 DEF method_default, Lost
<1>7. CASE method_init(c)
  <2> HIDE DEF Goal
  <2>1. \/ \E r : r.fault # "none" /\ Answer(c, r)
        \/ proc' = [proc EXCEPT ![c].at = IF Method(c) \in M_LOCK THEN "checked" ELSE "begun"]
    BY <1>7, Zenon DEF method_init
  <2>2. CASE proc' = [proc EXCEPT ![c].at = IF Method(c) \in M_LOCK THEN "checked" ELSE "begun"]
    <3>1. proc'[c].at \notin {"looping", "answered"}
      BY <2>2 DEF Shape, ProcFields, Idle
    <3>2. QED  BY <1>5, <3>1
  <2>3. QED  BY <1>3, <2>1, <2>2
<1>8. CASE method_lock(c)
  <2> HIDE DEF Goal
  <2>1. CASE Refuse(c, "MEBUSY")
    BY <1>4, <2>1
  <2>2. CASE proc' = [proc EXCEPT ![c].at = "begun"]
    <3>1. proc'[c].at \notin {"looping", "answered"}
      BY <2>2 DEF Shape, ProcFields, Idle
    <3>2. QED  BY <1>5, <3>1
  <2>3. QED  BY <1>8, <2>1, <2>2, Zenon DEF method_lock
<1>9. CASE GroupList(c)
  <2>1. CASE \E id : id # "none" /\ Refuse(c, id)
    BY <1>4, <2>1
  <2>2. CASE /\ db' = db /\ proc'[c].at = "looping"
             /\ proc'[c].members = {pos.name : pos \in proc'[c].todo}
             /\ \A pos \in proc'[c].todo :
                   pos.name \in Names /\ vxdb_getxid(db, pos.name) = pos.xid
    <3>1. \A n \in proc'[c].members : \E pos \in proc'[c].todo : pos.name = n
      BY <2>2
    <3>2. QED  BY <2>2, <3>1 DEF GroupOK
  <2>3. QED  BY <1>9, <2>1, <2>2, ListStep
<1>10. CASE GroupMember(c)
  <2>1. PICK pos \in proc[c].todo, r \in Outcomes :
              LET result == Dealt(pos, Method(c), db, r) IN
              \/ result.fault # "none" /\ Answer(c, result)
              \/ /\ proc'[c] = [proc[c] EXCEPT !.todo = @ \ {pos}]
                 /\ db'.xid = db.xid /\ db'.up \subseteq db.up
                 /\ pos.xid \in db.up => vxdb_getxid(db, pos.name) \notin db'.up
    BY <1>1, <1>10, StopMember
  <2>2. CASE \E result : result.fault # "none" /\ Answer(c, result)
    BY <1>3, <2>2
  <2>3. CASE /\ proc'[c] = [proc[c] EXCEPT !.todo = @ \ {pos}]
             /\ db'.xid = db.xid /\ db'.up \subseteq db.up
             /\ pos.xid \in db.up => vxdb_getxid(db, pos.name) \notin db'.up
    <3>1. /\ proc'[c].todo = proc[c].todo \ {pos} /\ proc'[c].members = proc[c].members
          /\ proc'[c].at = "looping" /\ proc[c].at = "looping"
      BY <1>10, <2>3 DEF GroupMember, Shape, ProcFields, Idle
    <3>2. \A n : vxdb_getxid(db', n) = vxdb_getxid(db, n)
      BY <2>3 DEF vxdb_getxid
    <3>3. /\ \A k \in proc[c].todo :
                k.name \in Names /\ (k.name \in touched[c] \/ vxdb_getxid(db, k.name) = k.xid)
          /\ \A n \in proc[c].members :
                Stopped(n, touched[c], db) \/ \E k \in proc[c].todo : k.name = n
      BY <1>1, <3>1 DEF GroupOK, Method
    <3>4. Stopped(pos.name, touched[c], db')
      BY <2>3, <3>2, <3>3 DEF Stopped
    <3>5. \A n : Stopped(n, touched[c], db) => Stopped(n, touched[c], db')
      BY <2>3, <3>2 DEF Stopped
    <3>6. \A n \in proc'[c].members :
             Stopped(n, touched[c], db') \/ \E k \in proc'[c].todo : k.name = n
      BY <3>1, <3>3, <3>4, <3>5
    <3>7. QED  BY <3>1, <3>2, <3>3, <3>6 DEF GroupOK
  <2>4. QED  BY <2>1, <2>2, <2>3, Zenon
<1>11. CASE GroupEnd(c)
  <2>1. Answer(c, Changed(db)) /\ proc[c].at = "looping" /\ proc[c].todo = {}
    BY <1>11 DEF GroupEnd
  <2>2. Step(c, Work \ {"members"}) /\ proc'[c].at = "answered" /\ db' = db
    BY <2>1, AnswerStep DEF Answer, Changed
  <2>3. "members" \in ProcFields \ (Work \ {"members"})
    BY DEF ProcFields, Idle, Work
  <2>4. proc'[c].members = proc[c].members
    BY <2>2, <2>3 DEF Step
  <2>5. QED  BY <1>1, <2>1, <2>2, <2>4 DEF GroupOK, Method
<1>12. ~Lookup(c) /\ ~Execute(c) /\ ~Body(c)
  <2>1. /\ Lookup(c) => IsConf(Method(c))
        /\ Execute(c) => proc[c].at = "looked"
        /\ Body(c) => Method(c) \notin DOMAIN Inner
    BY DEF Lookup, Execute, Body
  <2>2. proc[c].at = "looked" => IsConf(Method(c))
    BY <1>2 DEF FlowOK, Method
  <2>3. QED  BY <1>2, <2>1, <2>2
<1>13. QED
  BY <1>6, <1>7, <1>8, <1>9, <1>10, <1>11, <1>12, Zenon DEF Daemon

(* The steps of the program itself. *)
LEMMA ProgramMeant ==
    ASSUME Shape, LockInv, NEW c \in Clients, Program(c) \/ Exit(c),
           LoginOK(proc[c], touched[c], db), GroupOK(proc[c], touched[c], db)
    PROVE  /\ LoginOK(proc'[c], touched'[c], db') /\ GroupOK(proc'[c], touched'[c], db')
           /\ \A p \in Clients \ {c} : proc'[p] = proc[p]
<1>0. Idle.at = "idle" /\ Idle.got = 0
  BY DEF Idle
<1>1. CASE getopt(c) \/ Exit(c)
  BY <1>1 DEF getopt, Exit
<1>2. CASE vxpasswd(c)
  <2>1. proc' = proc /\ proc[c].at = "idle"
    BY <1>2 DEF vxpasswd
  <2>2. proc[c].got = 0
    BY <2>1 DEF LoginOK
  <2>3. QED  BY <2>1, <2>2, FreshMeant
<1>3. CASE main(c)
  <2>1. /\ proc'[c].got = 0
        /\ proc'[c].at \in {"idle", "calling"} \/ (proc'[c].at = "answered" /\ proc'[c].fault # "none")
    BY <1>0, <1>3, MainStep
  <2>2. \A p \in Clients \ {c} : proc'[p] = proc[p]
    BY <1>3, MainStep DEF Step
  <2>3. QED  BY <2>1, <2>2, FreshMeant
<1>4. CASE Receive(c)
  <2>1. proc'[c] = Idle /\ \A p \in Clients \ {c} : proc'[p] = proc[p]
    BY <1>4, ReceiveStep DEF Step
  <2>2. QED  BY <1>0, <2>1, FreshMeant
<1>5. CASE AskVdir(c)
  <2>1. /\ proc'[c].at = "calling" /\ proc'[c].got = proc[c].answer[2]
        /\ proc'[c].call = [method |-> "vxdb.vdir.get", params |-> Params(c), reply |-> Text]
        /\ \A p \in Clients \ {c} : proc'[p] = proc[p]
    BY <1>5, AskStep DEF Step
  <2>2. /\ proc[c].at = "answered" /\ proc[c].fault = "none" /\ Method(c) = "vxdb.xid.get"
        /\ db' = db /\ touched' = touched
    BY <1>5 DEF AskVdir, Good
  <2>3. proc'[c].call.method = "vxdb.vdir.get" /\ proc'[c].call.params = proc[c].call.params
    BY <2>1 DEF Params
  <2>4. LoginOK(proc'[c], touched'[c], db')
    BY <2>1, <2>2, <2>3 DEF LoginOK, Method
  <2>5. GroupOK(proc'[c], touched'[c], db')
    BY <2>3 DEF GroupOK
  <2>6. QED  BY <2>1, <2>4, <2>5
<1>6. QED  BY <1>1, <1>2, <1>3, <1>4, <1>5, Zenon DEF Program

LEMMA MeantInit == Init => MeantInv
<1> SUFFICES ASSUME Init, NEW c \in Clients
             PROVE  LoginOK(proc[c], touched[c], db) /\ GroupOK(proc[c], touched[c], db)
  BY DEF MeantInv
<1>1. proc[c] = Idle
  BY DEF Init
<1>2. Idle.at = "idle" /\ Idle.got = 0
  BY DEF Idle
<1>3. QED  BY <1>1, <1>2, FreshMeant

LEMMA MeantNext == Shape /\ LockInv /\ MeantInv /\ [Next]_vars => MeantInv'
<1> SUFFICES ASSUME Shape, LockInv, MeantInv, [Next]_vars PROVE MeantInv'
  OBVIOUS
<1>0. /\ TouchOK /\ DbOK(db)
      /\ \A p \in Clients : /\ LoginOK(proc[p], touched[p], db) /\ GroupOK(proc[p], touched[p], db)
                            /\ proc[p].members \subseteq Names
  BY DEF LockInv, MeantInv, FlowOK
<1>1. ASSUME NEW p \in Clients, proc'[p] = proc[p], proc[p].at # "idle" => Told(p)
      PROVE  LoginOK(proc'[p], touched'[p], db') /\ GroupOK(proc'[p], touched'[p], db')
  <2>1. CASE proc[p].at = "idle"
    <3>1. proc[p].got = 0
      BY <1>0, <2>1 DEF LoginOK
    <3>2. QED  BY <1>1, <2>1, <3>1, FreshMeant
  <2>2. CASE proc[p].at # "idle"
    BY <1>0, <1>1, <2>2, OthersMeant
  <2>3. QED  BY <2>1, <2>2
<1>2. ASSUME NEW c \in Clients, Program(c) \/ Daemon(c) \/ Lost(c) PROVE MeantInv'
  <2>1. \A p \in Clients \ {c} : proc[p].at # "idle" => Told(p)
    BY <1>0, <1>2, StepTells
  <2>2. /\ LoginOK(proc'[c], touched'[c], db') /\ GroupOK(proc'[c], touched'[c], db')
        /\ \A p \in Clients \ {c} : proc'[p] = proc[p]
    <3>1. CASE Program(c) \/ Exit(c)
      BY <1>0, <3>1, ProgramMeant
    <3>2. CASE (Daemon(c) \/ Lost(c)) /\ ~Exit(c)
      <4>1. proc[c].at # "idle" /\ proc'[c].at # "idle" /\ Step(c, Work)
        BY <3>2, DaemonStep
      <4>2. ~main(c) /\ ~Receive(c)
        <5>1. Receive(c) => proc'[c] = Idle
          BY ReceiveStep
        <5>2. Idle.at = "idle"
          BY DEF Idle
        <5>3. QED  BY <4>1, <5>1, <5>2 DEF main, Started
      <4>3. touched'[c] = touched[c]
        BY <1>0, <3>2, <4>2, StepTells
      <4>4. QED  BY <1>0, <3>2, <4>1, <4>3, LoginStep, GroupStep DEF Step
    <3>3. QED  BY <1>2, <3>1, <3>2
  <2>3. ASSUME NEW p \in Clients
        PROVE  LoginOK(proc'[p], touched'[p], db') /\ GroupOK(proc'[p], touched'[p], db')
    BY <1>1, <2>1, <2>2
  <2>4. QED  BY <2>3 DEF MeantInv
<1>3. CASE Guest
  <2>1. proc' = proc
    BY <1>3 DEF Guest
  <2>2. \A p \in Clients : proc[p].at # "idle" => Told(p)
    BY <1>0, <1>3, GuestTells
  <2>3. QED  BY <1>1, <2>1, <2>2 DEF MeantInv
<1>4. CASE Terminated \/ UNCHANGED vars
  BY <1>0, <1>4 DEF Terminated, vars, MeantInv
<1>5. QED  BY <1>2, <1>3, <1>4, Zenon DEF Next

LEMMA MeantInvariant == Spec => [](LockInv /\ MeantInv)
<1>1. PassInv => Shape
  BY DEF PassInv
<1>2. QED  BY LockInvariant, MeantInit, MeantNext, <1>1, PTL DEF Spec

(* vcc login enters one vserver: the xid of the first answer and the       *)
(* directory of the second are those of the name it was given, unless      *)
(* another client has changed what the name means, or the guest has ended, *)
(* since the command began (cmd_login).                                    *)
THEOREM LoginIntoOneHolds == Spec => []LoginIntoOne
<1>1. ASSUME LockInv, MeantInv PROVE LoginIntoOne
  <2> SUFFICES ASSUME NEW c \in Clients, proc[c].at = "answered", Good(c), proc[c].got # 0,
                      Params(c).name[2] \notin touched[c]
               PROVE  LET n == Params(c).name[2] IN
                      db.xid[n] = proc[c].got /\ db.vdir[proc[c].got] = proc[c].answer[2]
    BY DEF LoginIntoOne
  <2> DEFINE n == Params(c).name[2]
  <2>1. LoginOK(proc[c], touched[c], db) /\ proc[c].fault = "none" /\ DbOK(db)
    BY <1>1 DEF MeantInv, LockInv, Good
  <2>2. vxdb_getxid(db, n) = proc[c].got /\ vxdb_getvdir(db, n) = proc[c].answer[2]
    BY <2>1 DEF LoginOK, Params
  <2> HIDE DEF n
  <2>3. n \in DOMAIN db.xid /\ db.xid[n] = proc[c].got
    BY <2>2 DEF vxdb_getxid
  <2>4. db.vdir[db.xid[n]] = proc[c].answer[2]
    BY <2>1, <2>2, <2>3 DEF vxdb_getvdir, vxdb_getxid, DbOK, RegistryOK
  <2>5. QED  BY <2>3, <2>4 DEF n
<1>2. QED  BY MeantInvariant, <1>1, PTL

(* When vg.vx.stop has answered without a fault, every vserver of the list *)
(* it made has ended, but for those that somebody else has touched since   *)
(* the command began.                                                      *)
THEOREM GroupStoppedHolds == Spec => []GroupStopped
<1>1. ASSUME MeantInv PROVE GroupStopped
  BY <1>1 DEF MeantInv, GroupOK, Stopped, GroupStopped, Method
<1>2. QED  BY MeantInvariant, <1>1, PTL

-----------------------------------------------------------------------------
(* What an answer must be for the call *)

Suits(r, reply) == r.fault # "TYPE" /\ (r.fault = "none" => Decodes(reply, r.answer))

LEMMA RefusedSuits ==
    ASSUME NEW d, NEW id, NEW reply, id \notin {"TYPE", "none"}
    PROVE  Suits(Refused(d, id), reply)
  BY DEF Suits, Refused

LEMMA CheckedSuits ==
    ASSUME NEW d, NEW q, NEW format, NEW valid, NEW r, NEW reply,
           Decomposes(q, format), Suits(r, reply)
    PROVE  Suits(Checked(d, q, format, valid, r), reply)
  BY RefusedSuits DEF Checked

LEMMA ChangedSuits ==
    ASSUME NEW d PROVE Suits(Changed(d), Ignored)
  BY DEF Suits, Changed, Decodes, Ignored

LEMMA AnsweredSuits ==
    ASSUME NEW d, NEW v, NEW reply, Decodes(reply, v)
    PROVE Suits(Answered(d, v), reply)
  BY DEF Suits, Answered

(* What the get methods answer. *)
LEMMA GettersSuit ==
    ASSUME NEW c, NEW q
    PROVE  /\ Decomposes(q, [name |-> "s"]) =>
              /\ Suits(m_vxdb_dx_limit_get(c, q),
                       Record([space |-> "s", inodes |-> "s", reserved |-> "i"], "space"))
              /\ Suits(m_vxdb_init_get(c, q),
                       Record([init |-> "s", halt |-> "s", reboot |-> "s", timeout |-> "i"],
                              Blank))
              /\ Suits(m_vxdb_vx_cpuset_get(c, q),
                       Record([cpus |-> "s", mems |-> "s", virtualize |-> "i"], "cpus"))
              /\ Suits(m_vxdb_nx_broadcast_get(c, q), Text)
              /\ Suits(m_vxdb_vx_bcaps_get(c, q), TextArray)
              /\ Suits(m_vxdb_vx_ccaps_get(c, q), TextArray)
              /\ Suits(m_vxdb_vx_flags_get(c, q), TextArray)
           /\ Decomposes(q, [name |-> "s", dst |-> "s"]) =>
                 Suits(m_vxdb_mount_get(c, q), Records(Strings({"src", "dst", "type", "opts"})))
           /\ Decomposes(q, [name |-> "s", addr |-> "s"]) =>
                 Suits(m_vxdb_nx_addr_get(c, q), Records(Strings({"addr", "netmask"})))
           /\ Decomposes(q, [name |-> "s", type |-> "s"]) =>
              /\ Suits(m_vxdb_vx_limit_get(c, q), Records(Strings({"type", "soft", "max"})))
              /\ Suits(m_vxdb_vx_uname_get(c, q), Records(Strings({"type", "value"})))
           /\ Decomposes(q, [name |-> "s", cpuid |-> "i"]) =>
                 Suits(m_vxdb_vx_sched_get(c, q),
                       Records(Ints({"cpuid", "interval", "fillrate", "interval2", "fillrate2",
                                     "tokensmin", "tokensmax"})))
<1>1. ASSUME Decomposes(q, [name |-> "s"])
      PROVE  Suits(m_vxdb_dx_limit_get(c, q),
                   Record([space |-> "s", inodes |-> "s", reserved |-> "i"], "space"))
  <2> DEFINE reply == Record([space |-> "s", inodes |-> "s", reserved |-> "i"], "space")
  <2>1. \A x, y, n : Decodes(reply, Struct([space |-> S(x), inodes |-> S(y), reserved |-> I(n)]))
    BY DEF Decodes, Record, Struct, Decomposes, S, I
  <2> HIDE DEF reply
  <2>2. Suits(m_vxdb_dx_limit_get(c, q), reply)
    BY <1>1, <2>1, CheckedSuits, AnsweredSuits DEF m_vxdb_dx_limit_get
  <2>3. QED  BY <2>2 DEF reply
<1>2. ASSUME Decomposes(q, [name |-> "s"])
      PROVE  Suits(m_vxdb_init_get(c, q),
                   Record([init |-> "s", halt |-> "s", reboot |-> "s", timeout |-> "i"], Blank))
  <2> DEFINE reply == Record([init |-> "s", halt |-> "s", reboot |-> "s", timeout |-> "i"], Blank)
  <2>1. \A r : Decodes(reply, Struct([init |-> S(r.init), halt |-> S(r.halt),
                                     reboot |-> S(r.reboot), timeout |-> I(r.timeout)]))
    BY DEF Decodes, Record, Struct, Decomposes, S, I
  <2> HIDE DEF reply
  <2>2. Suits(m_vxdb_init_get(c, q), reply)
    BY <1>2, <2>1, CheckedSuits, AnsweredSuits DEF m_vxdb_init_get
  <2>3. QED  BY <2>2 DEF reply
<1>3. ASSUME Decomposes(q, [name |-> "s"])
      PROVE  Suits(m_vxdb_vx_cpuset_get(c, q),
                   Record([cpus |-> "s", mems |-> "s", virtualize |-> "i"], "cpus"))
  <2> DEFINE reply == Record([cpus |-> "s", mems |-> "s", virtualize |-> "i"], "cpus")
  <2>1. \A r : Decodes(reply, Struct([cpus |-> S(r.cpus), mems |-> S(r.mems),
                                     virtualize |-> I(r.virtualize)]))
    BY DEF Decodes, Record, Struct, Decomposes, S, I
  <2> HIDE DEF reply
  <2>2. Suits(m_vxdb_vx_cpuset_get(c, q), reply)
    BY <1>3, <2>1, CheckedSuits, AnsweredSuits DEF m_vxdb_vx_cpuset_get
  <2>3. QED  BY <2>2 DEF reply
<1>4. ASSUME Decomposes(q, [name |-> "s"])
      PROVE  /\ Suits(m_vxdb_nx_broadcast_get(c, q), Text)
             /\ Suits(m_vxdb_vx_bcaps_get(c, q), TextArray)
             /\ Suits(m_vxdb_vx_ccaps_get(c, q), TextArray)
             /\ Suits(m_vxdb_vx_flags_get(c, q), TextArray)
  <2>1. \A x : Decodes(Text, S(x))
    BY DEF Decodes, Text, S
  <2>2. \A T : Decodes(TextArray, Array({S(t) : t \in T}))
    BY DEF Decodes, TextArray, Array, S
  <2>3. Suits(m_vxdb_nx_broadcast_get(c, q), Text)
    BY <1>4, <2>1, CheckedSuits, AnsweredSuits DEF m_vxdb_nx_broadcast_get
  <2>4. QED
    BY <1>4, <2>2, <2>3, CheckedSuits, AnsweredSuits
    DEF m_vxdb_vx_bcaps_get, m_vxdb_vx_ccaps_get, m_vxdb_vx_flags_get
<1>5. ASSUME Decomposes(q, [name |-> "s", dst |-> "s"])
      PROVE  Suits(m_vxdb_mount_get(c, q), Records(Strings({"src", "dst", "type", "opts"})))
  <2> DEFINE reply == Records(Strings({"src", "dst", "type", "opts"}))
             Item(d) == [src  |-> S(c.mount[d].src),  dst  |-> S(d),
                         type |-> S(c.mount[d].type), opts |-> S(c.mount[d].opts)]
  <2>1. \A K : Decodes(reply, Array({Struct(Item(d)) : d \in K}))
    BY DEF Decodes, Records, Strings, Array, Struct, Decomposes, S
  <2> HIDE DEF reply
  <2>2. Suits(m_vxdb_mount_get(c, q), reply)
    BY <1>5, <2>1, CheckedSuits, AnsweredSuits DEF m_vxdb_mount_get
  <2>3. QED  BY <2>2 DEF reply
<1>6. ASSUME Decomposes(q, [name |-> "s", addr |-> "s"])
      PROVE  Suits(m_vxdb_nx_addr_get(c, q), Records(Strings({"addr", "netmask"})))
  <2> DEFINE reply == Records(Strings({"addr", "netmask"}))
  <2>1. \A K : Decodes(reply, Array({Struct([addr |-> S(a), netmask |-> S(c.nx_addr[a])]) :
                                       a \in K}))
    BY DEF Decodes, Records, Strings, Array, Struct, Decomposes, S
  <2> HIDE DEF reply
  <2>2. Suits(m_vxdb_nx_addr_get(c, q), reply)
    BY <1>6, <2>1, CheckedSuits, AnsweredSuits DEF m_vxdb_nx_addr_get
  <2>3. QED  BY <2>2 DEF reply
<1>7. ASSUME Decomposes(q, [name |-> "s", type |-> "s"])
      PROVE  Suits(m_vxdb_vx_limit_get(c, q), Records(Strings({"type", "soft", "max"})))
  <2> DEFINE reply == Records(Strings({"type", "soft", "max"}))
             Item(type) == [type |-> S(type), soft |-> S(ToString(ShownLimit(c, type).soft)),
                            max  |-> S(ToString(ShownLimit(c, type).max))]
  <2>1. \A K : Decodes(reply, Array({Struct(Item(type)) : type \in K}))
    BY DEF Decodes, Records, Strings, Array, Struct, Decomposes, S
  <2> HIDE DEF reply
  <2>2. Suits(m_vxdb_vx_limit_get(c, q), reply)
    BY <1>7, <2>1, CheckedSuits, AnsweredSuits DEF m_vxdb_vx_limit_get
  <2>3. QED  BY <2>2 DEF reply
<1>8. ASSUME Decomposes(q, [name |-> "s", type |-> "s"])
      PROVE  Suits(m_vxdb_vx_uname_get(c, q), Records(Strings({"type", "value"})))
  <2> DEFINE reply == Records(Strings({"type", "value"}))
  <2>1. \A K : Decodes(reply, Array({Struct([type |-> S(u), value |-> S(c.vx_uname[u])]) :
                                       u \in K}))
    BY DEF Decodes, Records, Strings, Array, Struct, Decomposes, S
  <2> HIDE DEF reply
  <2>2. Suits(m_vxdb_vx_uname_get(c, q), reply)
    BY <1>8, <2>1, CheckedSuits, AnsweredSuits DEF m_vxdb_vx_uname_get
  <2>3. QED  BY <2>2 DEF reply
<1>9. ASSUME Decomposes(q, [name |-> "s", cpuid |-> "i"])
      PROVE  Suits(m_vxdb_vx_sched_get(c, q),
                   Records(Ints({"cpuid", "interval", "fillrate", "interval2", "fillrate2",
                                 "tokensmin", "tokensmax"})))
  <2> DEFINE reply == Records(Ints({"cpuid", "interval", "fillrate", "interval2", "fillrate2",
                                    "tokensmin", "tokensmax"}))
             Item(cpuid) == [f \in Bucket \cup {"cpuid"} |->
                                I(IF f = "cpuid" THEN cpuid ELSE c.vx_sched[cpuid][f])]
  <2>1. \A K : Decodes(reply, Array({Struct(Item(cpuid)) : cpuid \in K}))
    BY DEF Decodes, Records, Ints, Array, Struct, Decomposes, I, Bucket
  <2> HIDE DEF reply
  <2>2. Suits(m_vxdb_vx_sched_get(c, q), reply)
    BY <1>9, <2>1, CheckedSuits, AnsweredSuits DEF m_vxdb_vx_sched_get
  <2>3. QED  BY <2>2 DEF reply
<1>10. QED  BY <1>1, <1>2, <1>3, <1>4, <1>5, <1>6, <1>7, <1>8, <1>9
(* Every command of vce but list calls a configuration method, with what   *)
(* that can decompose, and can decompose its answer.                       *)
ConfFits(k) ==
    /\ IsConf(k.method) /\ Decomposes(k.params, [name |-> "s"])
    /\ \A c : Suits(ConfMethod(k.method, c, k.params), k.reply)

LEMMA VceFits ==
    ASSUME NEW cmd, NEW argv, NEW g, cmd # "list",
           Vce(cmd, argv, g).method \notin {"invalid", "usage"}
    PROVE  ConfFits(Vce(cmd, argv, g))
<1> DEFINE k == Vce(cmd, argv, g)
<1>1. CASE cmd = "dx.limit.get"
  <2>1. /\ k.method = "vxdb.dx.limit.get" /\ k.reply = Record([space |-> "s", inodes |-> "s", reserved |-> "i"], "space")
        /\ Decomposes(k.params, [name |-> "s"])
    BY <1>1 DEF Vce, cmd_dx_limit_get, ByName, Call, Usage, Decomposes, S
  <2>2. \A c : Suits(m_vxdb_dx_limit_get(c, k.params), k.reply)
    BY <2>1, GettersSuit
  <2>3. QED  BY <2>1, <2>2 DEF ConfFits, ConfMethod, IsConf, ConfMethods, Decomposes
<1>2. CASE cmd = "dx.limit.remove"
  <2>1. /\ k.method = "vxdb.dx.limit.remove" /\ k.reply = Ignored
        /\ Decomposes(k.params, [name |-> "s"])
    BY <1>2 DEF Vce, cmd_dx_limit_remove, ByName, Call, Usage, Decomposes, S
  <2>2. \A c : Suits(m_vxdb_dx_limit_remove(c, k.params), k.reply)
    BY <2>1, CheckedSuits, ChangedSuits DEF m_vxdb_dx_limit_remove
  <2>3. QED  BY <2>1, <2>2 DEF ConfFits, ConfMethod, IsConf, ConfMethods, Decomposes
<1>3. CASE cmd = "dx.limit.set"
  <2>1. /\ k.method = "vxdb.dx.limit.set" /\ k.reply = Ignored
        /\ Decomposes(k.params, [name |-> "s", space |-> "s", inodes |-> "s", reserved |-> "i"])
    BY <1>3 DEF Vce, cmd_dx_limit_set, Call, Usage, Decomposes, S, I
  <2>2. \A c : Suits(m_vxdb_dx_limit_set(c, k.params), k.reply)
    BY <2>1, CheckedSuits, ChangedSuits DEF m_vxdb_dx_limit_set
  <2>3. QED  BY <2>1, <2>2 DEF ConfFits, ConfMethod, IsConf, ConfMethods, Decomposes
<1>4. CASE cmd = "init.get"
  <2>1. /\ k.method = "vxdb.init.get" /\ k.reply = Record([init |-> "s", halt |-> "s", reboot |-> "s", timeout |-> "i"], Blank)
        /\ Decomposes(k.params, [name |-> "s"])
    BY <1>4 DEF Vce, cmd_init_get, ByName, Call, Usage, Decomposes, S
  <2>2. \A c : Suits(m_vxdb_init_get(c, k.params), k.reply)
    BY <2>1, GettersSuit
  <2>3. QED  BY <2>1, <2>2 DEF ConfFits, ConfMethod, IsConf, ConfMethods, Decomposes
<1>5. CASE cmd = "init.set"
  <2>1. /\ k.method = "vxdb.init.set" /\ k.reply = Ignored
        /\ Decomposes(k.params, [name |-> "s", init |-> "s", halt |-> "s", reboot |-> "s",
                       timeout |-> "i"])
    BY <1>5 DEF Vce, cmd_init_set, Call, Usage, Decomposes, S, I
  <2>2. \A c : Suits(m_vxdb_init_set(c, k.params), k.reply)
    BY <2>1, CheckedSuits, ChangedSuits DEF m_vxdb_init_set
  <2>3. QED  BY <2>1, <2>2 DEF ConfFits, ConfMethod, IsConf, ConfMethods, Decomposes
<1>6. CASE cmd = "mount.get"
  <2>1. /\ k.method = "vxdb.mount.get" /\ k.reply = Records(Strings({"src", "dst", "type", "opts"}))
        /\ Decomposes(k.params, [name |-> "s", dst |-> "s"])
    BY <1>6 DEF Vce, cmd_mount_get, ByNameAnd, Call, Usage, Decomposes, S
  <2>2. \A c : Suits(m_vxdb_mount_get(c, k.params), k.reply)
    BY <2>1, GettersSuit
  <2>3. QED  BY <2>1, <2>2 DEF ConfFits, ConfMethod, IsConf, ConfMethods, Decomposes
<1>7. CASE cmd = "mount.remove"
  <2>1. /\ k.method = "vxdb.mount.remove" /\ k.reply = Ignored
        /\ Decomposes(k.params, [name |-> "s", dst |-> "s"])
    BY <1>7 DEF Vce, cmd_mount_remove, ByNameAnd, Call, Usage, Decomposes, S
  <2>2. \A c : Suits(m_vxdb_mount_remove(c, k.params), k.reply)
    BY <2>1, CheckedSuits, ChangedSuits DEF m_vxdb_mount_remove
  <2>3. QED  BY <2>1, <2>2 DEF ConfFits, ConfMethod, IsConf, ConfMethods, Decomposes
<1>8. CASE cmd = "mount.set"
  <2>1. /\ k.method = "vxdb.mount.set" /\ k.reply = Ignored
        /\ Decomposes(k.params, [name |-> "s", src |-> "s", dst |-> "s", type |-> "s", opts |-> "s"])
    BY <1>8 DEF Vce, cmd_mount_set, Call, Usage, Decomposes, S
  <2>2. \A c : Suits(m_vxdb_mount_set(c, k.params), k.reply)
    BY <2>1, CheckedSuits, ChangedSuits DEF m_vxdb_mount_set
  <2>3. QED  BY <2>1, <2>2 DEF ConfFits, ConfMethod, IsConf, ConfMethods, Decomposes
<1>9. CASE cmd = "nx.addr.get"
  <2>1. /\ k.method = "vxdb.nx.addr.get" /\ k.reply = Records(Strings({"addr", "netmask"}))
        /\ Decomposes(k.params, [name |-> "s", addr |-> "s"])
    BY <1>9 DEF Vce, cmd_nx_addr_get, ByNameAnd, Call, Usage, Decomposes, S
  <2>2. \A c : Suits(m_vxdb_nx_addr_get(c, k.params), k.reply)
    BY <2>1, GettersSuit
  <2>3. QED  BY <2>1, <2>2 DEF ConfFits, ConfMethod, IsConf, ConfMethods, Decomposes
<1>10. CASE cmd = "nx.addr.remove"
  <2>1. /\ k.method = "vxdb.nx.addr.remove" /\ k.reply = Ignored
        /\ Decomposes(k.params, [name |-> "s", addr |-> "s"])
    BY <1>10 DEF Vce, cmd_nx_addr_remove, ByNameAnd, Call, Usage, Decomposes, S
  <2>2. \A c : Suits(m_vxdb_nx_addr_remove(c, k.params), k.reply)
    BY <2>1, CheckedSuits, ChangedSuits DEF m_vxdb_nx_addr_remove
  <2>3. QED  BY <2>1, <2>2 DEF ConfFits, ConfMethod, IsConf, ConfMethods, Decomposes
<1>11. CASE cmd = "nx.addr.set"
  <2>1. /\ k.method = "vxdb.nx.addr.set" /\ k.reply = Ignored
        /\ Decomposes(k.params, [name |-> "s", addr |-> "s", netmask |-> "s"])
    BY <1>11 DEF Vce, cmd_nx_addr_set, Call, Usage, Decomposes, S
  <2>2. \A c : Suits(m_vxdb_nx_addr_set(c, k.params), k.reply)
    BY <2>1, CheckedSuits, ChangedSuits DEF m_vxdb_nx_addr_set
  <2>3. QED  BY <2>1, <2>2 DEF ConfFits, ConfMethod, IsConf, ConfMethods, Decomposes
<1>12. CASE cmd = "nx.broadcast.get"
  <2>1. /\ k.method = "vxdb.nx.broadcast.get" /\ k.reply = Text
        /\ Decomposes(k.params, [name |-> "s"])
    BY <1>12 DEF Vce, cmd_nx_broadcast_get, ByName, Call, Usage, Decomposes, S
  <2>2. \A c : Suits(m_vxdb_nx_broadcast_get(c, k.params), k.reply)
    BY <2>1, GettersSuit
  <2>3. QED  BY <2>1, <2>2 DEF ConfFits, ConfMethod, IsConf, ConfMethods, Decomposes
<1>13. CASE cmd = "nx.broadcast.remove"
  <2>1. /\ k.method = "vxdb.nx.broadcast.remove" /\ k.reply = Ignored
        /\ Decomposes(k.params, [name |-> "s"])
    BY <1>13 DEF Vce, cmd_nx_broadcast_remove, ByName, Call, Usage, Decomposes, S
  <2>2. \A c : Suits(m_vxdb_nx_broadcast_remove(c, k.params), k.reply)
    BY <2>1, CheckedSuits, ChangedSuits DEF m_vxdb_nx_broadcast_remove
  <2>3. QED  BY <2>1, <2>2 DEF ConfFits, ConfMethod, IsConf, ConfMethods, Decomposes
<1>14. CASE cmd = "nx.broadcast.set"
  <2>1. /\ k.method = "vxdb.nx.broadcast.set" /\ k.reply = Ignored
        /\ Decomposes(k.params, [name |-> "s", broadcast |-> "s"])
    BY <1>14 DEF Vce, cmd_nx_broadcast_set, Call, Usage, Decomposes, S
  <2>2. \A c : Suits(m_vxdb_nx_broadcast_set(c, k.params), k.reply)
    BY <2>1, CheckedSuits, ChangedSuits DEF m_vxdb_nx_broadcast_set
  <2>3. QED  BY <2>1, <2>2 DEF ConfFits, ConfMethod, IsConf, ConfMethods, Decomposes
<1>15. CASE cmd = "vx.bcaps.add"
  <2>1. /\ k.method = "vxdb.vx.bcaps.add" /\ k.reply = Ignored
        /\ Decomposes(k.params, [name |-> "s", bcap |-> "s"])
    BY <1>15 DEF Vce, cmd_vx_bcaps_add, Call, Usage, Decomposes, S
  <2>2. \A c : Suits(m_vxdb_vx_bcaps_add(c, k.params), k.reply)
    BY <2>1, CheckedSuits, ChangedSuits DEF m_vxdb_vx_bcaps_add
  <2>3. QED  BY <2>1, <2>2 DEF ConfFits, ConfMethod, IsConf, ConfMethods, Decomposes
<1>16. CASE cmd = "vx.bcaps.get"
  <2>1. /\ k.method = "vxdb.vx.bcaps.get" /\ k.reply = TextArray
        /\ Decomposes(k.params, [name |-> "s"])
    BY <1>16 DEF Vce, cmd_vx_bcaps_get, ByName, Call, Usage, Decomposes, S
  <2>2. \A c : Suits(m_vxdb_vx_bcaps_get(c, k.params), k.reply)
    BY <2>1, GettersSuit
  <2>3. QED  BY <2>1, <2>2 DEF ConfFits, ConfMethod, IsConf, ConfMethods, Decomposes
<1>17. CASE cmd = "vx.bcaps.remove"
  <2>1. /\ k.method = "vxdb.vx.bcaps.remove" /\ k.reply = Ignored
        /\ Decomposes(k.params, [name |-> "s", bcap |-> "s"])
    BY <1>17 DEF Vce, cmd_vx_bcaps_remove, ByNameAnd, Call, Usage, Decomposes, S
  <2>2. \A c : Suits(m_vxdb_vx_bcaps_remove(c, k.params), k.reply)
    BY <2>1, CheckedSuits, ChangedSuits DEF m_vxdb_vx_bcaps_remove
  <2>3. QED  BY <2>1, <2>2 DEF ConfFits, ConfMethod, IsConf, ConfMethods, Decomposes
<1>18. CASE cmd = "vx.ccaps.add"
  <2>1. /\ k.method = "vxdb.vx.ccaps.add" /\ k.reply = Ignored
        /\ Decomposes(k.params, [name |-> "s", ccap |-> "s"])
    BY <1>18 DEF Vce, cmd_vx_ccaps_add, Call, Usage, Decomposes, S
  <2>2. \A c : Suits(m_vxdb_vx_ccaps_add(c, k.params), k.reply)
    BY <2>1, CheckedSuits, ChangedSuits DEF m_vxdb_vx_ccaps_add
  <2>3. QED  BY <2>1, <2>2 DEF ConfFits, ConfMethod, IsConf, ConfMethods, Decomposes
<1>19. CASE cmd = "vx.ccaps.get"
  <2>1. /\ k.method = "vxdb.vx.ccaps.get" /\ k.reply = TextArray
        /\ Decomposes(k.params, [name |-> "s"])
    BY <1>19 DEF Vce, cmd_vx_ccaps_get, ByName, Call, Usage, Decomposes, S
  <2>2. \A c : Suits(m_vxdb_vx_ccaps_get(c, k.params), k.reply)
    BY <2>1, GettersSuit
  <2>3. QED  BY <2>1, <2>2 DEF ConfFits, ConfMethod, IsConf, ConfMethods, Decomposes
<1>20. CASE cmd = "vx.ccaps.remove"
  <2>1. /\ k.method = "vxdb.vx.ccaps.remove" /\ k.reply = Ignored
        /\ Decomposes(k.params, [name |-> "s", ccap |-> "s"])
    BY <1>20 DEF Vce, cmd_vx_ccaps_remove, ByNameAnd, Call, Usage, Decomposes, S
  <2>2. \A c : Suits(m_vxdb_vx_ccaps_remove(c, k.params), k.reply)
    BY <2>1, CheckedSuits, ChangedSuits DEF m_vxdb_vx_ccaps_remove
  <2>3. QED  BY <2>1, <2>2 DEF ConfFits, ConfMethod, IsConf, ConfMethods, Decomposes
<1>21. CASE cmd = "vx.cpuset.get"
  <2>1. /\ k.method = "vxdb.vx.cpuset.get" /\ k.reply = Record([cpus |-> "s", mems |-> "s", virtualize |-> "i"], "cpus")
        /\ Decomposes(k.params, [name |-> "s"])
    BY <1>21 DEF Vce, cmd_vx_cpuset_get, ByName, Call, Usage, Decomposes, S
  <2>2. \A c : Suits(m_vxdb_vx_cpuset_get(c, k.params), k.reply)
    BY <2>1, GettersSuit
  <2>3. QED  BY <2>1, <2>2 DEF ConfFits, ConfMethod, IsConf, ConfMethods, Decomposes
<1>22. CASE cmd = "vx.cpuset.remove"
  <2>1. /\ k.method = "vxdb.vx.cpuset.remove" /\ k.reply = Ignored
        /\ Decomposes(k.params, [name |-> "s"])
    BY <1>22 DEF Vce, cmd_vx_cpuset_remove, ByName, Call, Usage, Decomposes, S
  <2>2. \A c : Suits(m_vxdb_vx_cpuset_remove(c, k.params), k.reply)
    BY <2>1, CheckedSuits, ChangedSuits DEF m_vxdb_vx_cpuset_remove
  <2>3. QED  BY <2>1, <2>2 DEF ConfFits, ConfMethod, IsConf, ConfMethods, Decomposes
<1>23. CASE cmd = "vx.cpuset.set"
  <2>1. /\ k.method = "vxdb.vx.cpuset.set" /\ k.reply = Ignored
        /\ Decomposes(k.params, [name |-> "s", cpus |-> "s", mems |-> "s", virtualize |-> "b"])
    BY <1>23 DEF Vce, cmd_vx_cpuset_set, Call, Usage, Decomposes, S, B
  <2>2. \A c : Suits(m_vxdb_vx_cpuset_set(c, k.params), k.reply)
    BY <2>1, CheckedSuits, ChangedSuits DEF m_vxdb_vx_cpuset_set
  <2>3. QED  BY <2>1, <2>2 DEF ConfFits, ConfMethod, IsConf, ConfMethods, Decomposes
<1>24. CASE cmd = "vx.flags.add"
  <2>1. /\ k.method = "vxdb.vx.flags.add" /\ k.reply = Ignored
        /\ Decomposes(k.params, [name |-> "s", flag |-> "s"])
    BY <1>24 DEF Vce, cmd_vx_flags_add, Call, Usage, Decomposes, S
  <2>2. \A c : Suits(m_vxdb_vx_flags_add(c, k.params), k.reply)
    BY <2>1, CheckedSuits, ChangedSuits DEF m_vxdb_vx_flags_add
  <2>3. QED  BY <2>1, <2>2 DEF ConfFits, ConfMethod, IsConf, ConfMethods, Decomposes
<1>25. CASE cmd = "vx.flags.get"
  <2>1. /\ k.method = "vxdb.vx.flags.get" /\ k.reply = TextArray
        /\ Decomposes(k.params, [name |-> "s"])
    BY <1>25 DEF Vce, cmd_vx_flags_get, ByName, Call, Usage, Decomposes, S
  <2>2. \A c : Suits(m_vxdb_vx_flags_get(c, k.params), k.reply)
    BY <2>1, GettersSuit
  <2>3. QED  BY <2>1, <2>2 DEF ConfFits, ConfMethod, IsConf, ConfMethods, Decomposes
<1>26. CASE cmd = "vx.flags.remove"
  <2>1. /\ k.method = "vxdb.vx.flags.remove" /\ k.reply = Ignored
        /\ Decomposes(k.params, [name |-> "s", flag |-> "s"])
    BY <1>26 DEF Vce, cmd_vx_flags_remove, ByNameAnd, Call, Usage, Decomposes, S
  <2>2. \A c : Suits(m_vxdb_vx_flags_remove(c, k.params), k.reply)
    BY <2>1, CheckedSuits, ChangedSuits DEF m_vxdb_vx_flags_remove
  <2>3. QED  BY <2>1, <2>2 DEF ConfFits, ConfMethod, IsConf, ConfMethods, Decomposes
<1>27. CASE cmd = "vx.limit.get"
  <2>1. /\ k.method = "vxdb.vx.limit.get" /\ k.reply = Records(Strings({"type", "soft", "max"}))
        /\ Decomposes(k.params, [name |-> "s", type |-> "s"])
    BY <1>27 DEF Vce, cmd_vx_limit_get, ByNameAnd, Call, Usage, Decomposes, S
  <2>2. \A c : Suits(m_vxdb_vx_limit_get(c, k.params), k.reply)
    BY <2>1, GettersSuit
  <2>3. QED  BY <2>1, <2>2 DEF ConfFits, ConfMethod, IsConf, ConfMethods, Decomposes
<1>28. CASE cmd = "vx.limit.remove"
  <2>1. /\ k.method = "vxdb.vx.limit.remove" /\ k.reply = Ignored
        /\ Decomposes(k.params, [name |-> "s", type |-> "s"])
    BY <1>28 DEF Vce, cmd_vx_limit_remove, ByNameAnd, Call, Usage, Decomposes, S
  <2>2. \A c : Suits(m_vxdb_vx_limit_remove(c, k.params), k.reply)
    BY <2>1, CheckedSuits, ChangedSuits DEF m_vxdb_vx_limit_remove
  <2>3. QED  BY <2>1, <2>2 DEF ConfFits, ConfMethod, IsConf, ConfMethods, Decomposes
<1>29. CASE cmd = "vx.limit.set"
  <2>1. /\ k.method = "vxdb.vx.limit.set" /\ k.reply = Ignored
        /\ Decomposes(k.params, [name |-> "s", type |-> "s", soft |-> "s", max |-> "s"])
    BY <1>29 DEF Vce, cmd_vx_limit_set, Call, Usage, Decomposes, S
  <2>2. \A c : Suits(m_vxdb_vx_limit_set(c, k.params), k.reply)
    BY <2>1, CheckedSuits, ChangedSuits DEF m_vxdb_vx_limit_set
  <2>3. QED  BY <2>1, <2>2 DEF ConfFits, ConfMethod, IsConf, ConfMethods, Decomposes
<1>30. CASE cmd = "vx.sched.get"
  <2>1. /\ k.method = "vxdb.vx.sched.get" /\ k.reply = Records(Ints({"cpuid", "interval", "fillrate", "interval2", "fillrate2",
                                     "tokensmin", "tokensmax"}))
        /\ Decomposes(k.params, [name |-> "s", cpuid |-> "i"])
    BY <1>30 DEF Vce, cmd_vx_sched_get, Call, Usage, Decomposes, S, I
  <2>2. \A c : Suits(m_vxdb_vx_sched_get(c, k.params), k.reply)
    BY <2>1, GettersSuit
  <2>3. QED  BY <2>1, <2>2 DEF ConfFits, ConfMethod, IsConf, ConfMethods, Decomposes
<1>31. CASE cmd = "vx.sched.remove"
  <2>1. /\ k.method = "vxdb.vx.sched.remove" /\ k.reply = Ignored
        /\ Decomposes(k.params, [name |-> "s", cpuid |-> "i"])
    BY <1>31 DEF Vce, cmd_vx_sched_remove, Call, Usage, Decomposes, S, I
  <2>2. \A c : Suits(m_vxdb_vx_sched_remove(c, k.params), k.reply)
    BY <2>1, CheckedSuits, ChangedSuits DEF m_vxdb_vx_sched_remove
  <2>3. QED  BY <2>1, <2>2 DEF ConfFits, ConfMethod, IsConf, ConfMethods, Decomposes
<1>32. CASE cmd = "vx.sched.set"
  <2>1. /\ k.method = "vxdb.vx.sched.set" /\ k.reply = Ignored
        /\ Decomposes(k.params, [f \in Bucket \cup {"name", "cpuid"} |->
                         IF f = "name" THEN "s" ELSE "i"])
    BY <1>32 DEF Vce, cmd_vx_sched_set, Call, Usage, Decomposes, S, I, Bucket
  <2>2. \A c : Suits(m_vxdb_vx_sched_set(c, k.params), k.reply)
    BY <2>1, CheckedSuits, ChangedSuits DEF m_vxdb_vx_sched_set
  <2>3. Decomposes(k.params, [name |-> "s"])
    BY <1>32 DEF Vce, cmd_vx_sched_set, Call, Usage, Decomposes, S
  <2> HIDE DEF k
  <2>4. ConfFits(k)
    BY <2>1, <2>2, <2>3 DEF ConfFits, ConfMethod, IsConf, ConfMethods
  <2>5. QED  BY <2>4 DEF k
<1>33. CASE cmd = "vx.uname.get"
  <2>1. /\ k.method = "vxdb.vx.uname.get" /\ k.reply = Records(Strings({"type", "value"}))
        /\ Decomposes(k.params, [name |-> "s", type |-> "s"])
    BY <1>33 DEF Vce, cmd_vx_uname_get, ByNameAnd, Call, Usage, Decomposes, S
  <2>2. \A c : Suits(m_vxdb_vx_uname_get(c, k.params), k.reply)
    BY <2>1, GettersSuit
  <2>3. QED  BY <2>1, <2>2 DEF ConfFits, ConfMethod, IsConf, ConfMethods, Decomposes
<1>34. CASE cmd = "vx.uname.remove"
  <2>1. /\ k.method = "vxdb.vx.uname.remove" /\ k.reply = Ignored
        /\ Decomposes(k.params, [name |-> "s", type |-> "s"])
    BY <1>34 DEF Vce, cmd_vx_uname_remove, ByNameAnd, Call, Usage, Decomposes, S
  <2>2. \A c : Suits(m_vxdb_vx_uname_remove(c, k.params), k.reply)
    BY <2>1, CheckedSuits, ChangedSuits DEF m_vxdb_vx_uname_remove
  <2>3. QED  BY <2>1, <2>2 DEF ConfFits, ConfMethod, IsConf, ConfMethods, Decomposes
<1>35. CASE cmd = "vx.uname.set"
  <2>1. /\ k.method = "vxdb.vx.uname.set" /\ k.reply = Ignored
        /\ Decomposes(k.params, [name |-> "s", type |-> "s", value |-> "s"])
    BY <1>35 DEF Vce, cmd_vx_uname_set, Call, Usage, Decomposes, S
  <2>2. \A c : Suits(m_vxdb_vx_uname_set(c, k.params), k.reply)
    BY <2>1, CheckedSuits, ChangedSuits DEF m_vxdb_vx_uname_set
  <2>3. QED  BY <2>1, <2>2 DEF ConfFits, ConfMethod, IsConf, ConfMethods, Decomposes
<1>36. QED
  BY <1>1, <1>2, <1>3, <1>4, <1>5, <1>6, <1>7, <1>8, <1>9, <1>10, <1>11, <1>12, <1>13, <1>14, <1>15, <1>16, <1>17, <1>18, <1>19, <1>20, <1>21, <1>22, <1>23, <1>24, <1>25, <1>26, <1>27, <1>28, <1>29, <1>30, <1>31, <1>32, <1>33, <1>34, <1>35 DEF Vce, Invalid

-----------------------------------------------------------------------------
(* The other methods *)

LEMMA IgnoredSuits ==
    ASSUME NEW r, r.fault # "TYPE" PROVE Suits(r, Ignored)
  BY DEF Suits, Decodes, Ignored

LEMMA NamedSuits ==
    ASSUME NEW d, NEW q, NEW format, NEW r, NEW reply, Decomposes(q, format), Suits(r, reply)
    PROVE  Suits(Named(d, q, format, r), reply) /\ Suits(Running(d, q, format, r), reply)
<1>1. \A x : Suits(x, reply) => Suits(Named(d, q, format, x), reply)
  <2> TAKE x
  <2> HAVE Suits(x, reply)
  <2> DEFINE none == vxdb_getxid(d, q.name[2]) = 0
             y == IF none THEN Refused(d, "MENOVPS") ELSE x
  <2>1. Suits(y, reply)
    BY RefusedSuits
  <2> HIDE DEF y
  <2>2. Suits(Checked(d, q, format, TRUE, y), reply)
    BY <2>1, CheckedSuits
  <2>3. QED  BY <2>2 DEF Named, y
<1>2. QED  BY <1>1, RefusedSuits DEF Running

LEMMA OfUserSuits ==
    ASSUME NEW d, NEW q, NEW format, NEW valid, NEW r, NEW reply,
           Decomposes(q, format), Suits(r, reply)
    PROVE  Suits(OfUser(d, q, format, valid, r), reply)
  BY CheckedSuits, RefusedSuits DEF OfUser

LEMMA FirstOfSuits ==
    ASSUME NEW d, NEW checks, NEW r, NEW reply, NEW top \in Nat, DOMAIN checks = 1 .. top,
           \A i \in DOMAIN checks : checks[i][2] \notin {"TYPE", "none"}, Suits(r, reply)
    PROVE  Suits(FirstOf(d, checks, r), reply)
<1> DEFINE bad == {i \in DOMAIN checks : checks[i][1]}
<1>1. CASE bad = {}
  BY <1>1 DEF FirstOf
<1>2. CASE bad # {}
  <2>1. Min(bad) \in bad
    BY <1>2, LeastNat
  <2>2. FirstOf(d, checks, r) = Refused(d, checks[Min(bad)][2])
    BY <1>2 DEF FirstOf
  <2>3. QED  BY <2>1, <2>2, RefusedSuits
<1>3. QED  BY <1>1, <1>2

LEMMA TextsSuit ==
    ASSUME NEW d, NEW T
    PROVE  Suits(Answered(d, Texts(T)), TextArray)
<1>1. Decodes(TextArray, Texts(T))
  BY DEF Decodes, TextArray, Texts, Array, S
<1>2. QED  BY <1>1, AnsweredSuits

LEMMA ScalarsSuit ==
    ASSUME NEW d, NEW x
    PROVE  Suits(Answered(d, S(x)), Text) /\ Suits(Answered(d, I(x)), Integer)
<1>1. Decodes(Text, S(x)) /\ Decodes(Integer, I(x))
  BY DEF Decodes, Text, Integer, S, I
<1>2. QED  BY <1>1, AnsweredSuits

(* Names, directories, owners and groups *)
LEMMA RegistrySuits ==
    ASSUME NEW d, NEW q, NEW user
    PROVE  /\ Decomposes(q, [name |-> "s"]) =>
              /\ Suits(m_vxdb_xid_get(d, q), Integer)
              /\ Suits(m_vxdb_vdir_get(d, q), Text)
              /\ Suits(m_vxdb_owner_get(d, q), TextArray)
              /\ Suits(m_vx_remove(d, q), Ignored)
           /\ Decomposes(q, [xid |-> "i"]) => Suits(m_vxdb_name_get(d, q), Text)
           /\ Decomposes(q, [name |-> "s", username |-> "s"]) =>
              /\ Suits(m_vxdb_owner_add(d, q), Ignored)
              /\ Suits(m_vxdb_owner_remove(d, q), Ignored)
           /\ Decomposes(q, [username |-> "s"]) => Suits(m_vxdb_list(d, q, user), TextArray)
           /\ Decomposes(q, [group |-> "s"]) =>
                 Suits(m_vg_list(d, q), TextArray) /\ vg_list_init(d, q).fault # "TYPE"
           /\ Decomposes(q, [group |-> "s", name |-> "s"]) =>
                 Suits(m_vg_add(d, q), Ignored) /\ Suits(m_vg_remove(d, q), Ignored)
           /\ Decomposes(q, [name |-> "s", newname |-> "s"]) => Suits(m_vx_rename(d, q), Ignored)
           /\ Decomposes(q, [name |-> "s", template |-> "s", force |-> "b", copy |-> "b",
                             vdir |-> "s"]) => Suits(m_vx_create(d, q, user), Ignored)
<1>1. ASSUME Decomposes(q, [name |-> "s"])
      PROVE  /\ Suits(m_vxdb_xid_get(d, q), Integer)
             /\ Suits(m_vxdb_vdir_get(d, q), Text)
             /\ Suits(m_vxdb_owner_get(d, q), TextArray)
             /\ Suits(m_vx_remove(d, q), Ignored)
  <2>1. Suits(m_vxdb_xid_get(d, q), Integer)
    BY <1>1, NamedSuits, ScalarsSuit DEF m_vxdb_xid_get
  <2>2. Suits(m_vxdb_vdir_get(d, q), Text)
    BY <1>1, NamedSuits, ScalarsSuit DEF m_vxdb_vdir_get
  <2>3. Suits(m_vxdb_owner_get(d, q), TextArray)
    BY <1>1, NamedSuits, TextsSuit DEF m_vxdb_owner_get
  <2>4. Suits(m_vx_remove(d, q), Ignored)
    BY <1>1, NamedSuits, ChangedSuits, RefusedSuits DEF m_vx_remove
  <2>5. QED  BY <2>1, <2>2, <2>3, <2>4
<1>2. ASSUME Decomposes(q, [xid |-> "i"]) PROVE Suits(m_vxdb_name_get(d, q), Text)
  <2>1. \A x, y : Suits(IF y THEN Refused(d, "MENOVPS") ELSE Answered(d, S(x)), Text)
    BY ScalarsSuit, RefusedSuits
  <2>2. QED  BY <1>2, <2>1, CheckedSuits DEF m_vxdb_name_get
<1>3. ASSUME Decomposes(q, [name |-> "s", username |-> "s"])
      PROVE  Suits(m_vxdb_owner_add(d, q), Ignored) /\ Suits(m_vxdb_owner_remove(d, q), Ignored)
  <2>1. Decomposes(q, [name |-> "s"])
    BY <1>3 DEF Decomposes
  <2>2. Suits(m_vxdb_owner_add(d, q), Ignored)
    <3>1. \A x, e : Suits(IF x THEN Refused(d, "MENOUSER")
                         ELSE Named(d, q, [name |-> "s"], Changed(e)), Ignored)
      BY <2>1, NamedSuits, ChangedSuits, RefusedSuits
    <3>2. QED  BY <1>3, <3>1, CheckedSuits DEF m_vxdb_owner_add
  <2>3. Suits(m_vxdb_owner_remove(d, q), Ignored)
    BY <1>3, NamedSuits, ChangedSuits, RefusedSuits DEF m_vxdb_owner_remove
  <2>4. QED  BY <2>2, <2>3
<1>4. ASSUME Decomposes(q, [username |-> "s"]) PROVE Suits(m_vxdb_list(d, q, user), TextArray)
  <2>1. \A T, x, y : Suits(IF x THEN Refused(d, "MEPERM") ELSE IF y THEN Refused(d, "MENOVPS")
                          ELSE Answered(d, Texts(T)), TextArray)
    BY TextsSuit, RefusedSuits
  <2>2. QED  BY <1>4, <2>1, CheckedSuits DEF m_vxdb_list
<1>5. ASSUME Decomposes(q, [group |-> "s"])
      PROVE  Suits(m_vg_list(d, q), TextArray) /\ vg_list_init(d, q).fault # "TYPE"
  <2>1. Suits(m_vg_list(d, q), TextArray)
    <3>1. \A T, U, x, y : Suits(IF x THEN Answered(d, Texts(T)) ELSE IF y THEN Refused(d, "MENOVG")
                               ELSE Answered(d, Texts(U)), TextArray)
      BY TextsSuit, RefusedSuits
    <3>2. QED  BY <1>5, <3>1, CheckedSuits DEF m_vg_list
  <2>2. vg_list_init(d, q).fault # "TYPE"
    BY <1>5 DEF vg_list_init, Checked, Refused, Answered
  <2>3. QED  BY <2>1, <2>2
<1>6. ASSUME Decomposes(q, [group |-> "s", name |-> "s"])
      PROVE  Suits(m_vg_add(d, q), Ignored) /\ Suits(m_vg_remove(d, q), Ignored)
  <2>1. Suits(m_vg_add(d, q), Ignored)
    BY <1>6, CheckedSuits, ChangedSuits, RefusedSuits DEF m_vg_add
  <2>2. Suits(m_vg_remove(d, q), Ignored)
    BY <1>6, CheckedSuits, ChangedSuits, RefusedSuits DEF m_vg_remove
  <2>3. QED  BY <2>1, <2>2
<1>7. ASSUME Decomposes(q, [name |-> "s", newname |-> "s"])
      PROVE  Suits(m_vx_rename(d, q), Ignored)
  <2>1. Decomposes(q, [name |-> "s"])
    BY <1>7 DEF Decomposes
  <2>2. QED  BY <1>7, <2>1, CheckedSuits, NamedSuits, ChangedSuits, RefusedSuits DEF m_vx_rename
<1>8. ASSUME Decomposes(q, [name |-> "s", template |-> "s", force |-> "b", copy |-> "b",
                            vdir |-> "s"])
      PROVE  Suits(m_vx_create(d, q, user), Ignored)
  <2>1. \A c1, c2, c3, c4, c5, c6, c7, c8, e :
           Suits(FirstOf(d, << <<c1, "MENOVPS">>, <<c2, "MEEXIST">>, <<c3, "MERUNNING">>,
                               <<c4, "MEPERM">>, <<c5, "MEINVAL">>, <<c6, "MEEXIST">>,
                               <<c7, "MEVXDB">>, <<c8, "MECONF">> >>, Changed(e)), Ignored)
    <3> TAKE c1, c2, c3, c4, c5, c6, c7, c8, e
    <3> DEFINE checks == << <<c1, "MENOVPS">>, <<c2, "MEEXIST">>, <<c3, "MERUNNING">>,
                            <<c4, "MEPERM">>, <<c5, "MEINVAL">>, <<c6, "MEEXIST">>,
                            <<c7, "MEVXDB">>, <<c8, "MECONF">> >>
    <3>1. /\ DOMAIN checks = 1 .. 8
          /\ \A i \in DOMAIN checks : checks[i][2] \notin {"TYPE", "none"}
      OBVIOUS
    <3> HIDE DEF checks
    <3>2. Suits(FirstOf(d, checks, Changed(e)), Ignored)
      BY <3>1, FirstOfSuits, ChangedSuits
    <3>3. QED  BY <3>2 DEF checks
  <2>2. QED  BY <1>8, <2>1, CheckedSuits DEF m_vx_create
<1>9. QED  BY <1>1, <1>2, <1>3, <1>4, <1>5, <1>6, <1>7, <1>8

(* The daemon, its users, and what the kernel does and says *)
LEMMA SystemSuits ==
    ASSUME NEW d, NEW q, NEW n
    PROVE  /\ Suits(m_vcd_login(d), Ignored)
           /\ Suits(m_vcd_hostinfo(d),
                    Record([vbasedir |-> "s", cpus |-> "i", memnodes |-> "i"], Blank))
           /\ Suits(m_vcd_status(d, n),
                    Record(Ints({"uptime", "requests", "nomethod", "flogins"}), Blank))
           /\ Decomposes(q, [username |-> "s"]) =>
              /\ Suits(m_vcd_user_get(d, q), Records([username |-> "s", uid |-> "i", admin |-> "i"]))
              /\ Suits(m_vcd_user_remove(d, q), Ignored)
              /\ Suits(m_vcd_user_caps_get(d, q), TextArray)
           /\ Decomposes(q, [username |-> "s", cap |-> "s"]) =>
              /\ Suits(m_vcd_user_caps_add(d, q), Ignored)
              /\ Suits(m_vcd_user_caps_remove(d, q), Ignored)
           /\ Decomposes(q, [username |-> "s", password |-> "s", admin |-> "b"]) =>
                 Suits(m_vcd_user_set(d, q), Ignored)
<1>1. Suits(m_vcd_login(d), Ignored)
  BY IgnoredSuits DEF m_vcd_login, Answered
<1>2. Suits(m_vcd_hostinfo(d), Record([vbasedir |-> "s", cpus |-> "i", memnodes |-> "i"], Blank))
  <2>1. Decodes(Record([vbasedir |-> "s", cpus |-> "i", memnodes |-> "i"], Blank),
                Struct([vbasedir |-> S("vbasedir"), cpus |-> I(NumCpus), memnodes |-> I(NumMems)]))
    BY DEF Decodes, Record, Struct, Decomposes, S, I
  <2>2. QED  BY <2>1, AnsweredSuits DEF m_vcd_hostinfo
<1>3. Suits(m_vcd_status(d, n), Record(Ints({"uptime", "requests", "nomethod", "flogins"}), Blank))
  <2>1. Decodes(Record(Ints({"uptime", "requests", "nomethod", "flogins"}), Blank),
                Struct([uptime |-> I(n), requests |-> I(n), flogins |-> I(n), nomethod |-> I(n)]))
    BY DEF Decodes, Record, Ints, Struct, Decomposes, I
  <2>2. QED  BY <2>1, AnsweredSuits DEF m_vcd_status
<1>4. ASSUME Decomposes(q, [username |-> "s"])
      PROVE  /\ Suits(m_vcd_user_get(d, q), Records([username |-> "s", uid |-> "i", admin |-> "i"]))
             /\ Suits(m_vcd_user_remove(d, q), Ignored)
             /\ Suits(m_vcd_user_caps_get(d, q), TextArray)
  <2> DEFINE reply == Records([username |-> "s", uid |-> "i", admin |-> "i"])
             Item(u) == [username |-> S(u), uid |-> I(d.uid[u]),
                         admin |-> I(IF u \in d.admin THEN 1 ELSE 0)]
  <2>1. \A U : Decodes(reply, Array({Struct(Item(u)) : u \in U}))
    BY DEF Decodes, Records, Array, Struct, Decomposes, S, I
  <2> HIDE DEF reply
  <2>2. Suits(m_vcd_user_get(d, q), reply)
    BY <1>4, <2>1, CheckedSuits, AnsweredSuits DEF m_vcd_user_get
  <2>3. Suits(m_vcd_user_remove(d, q), Ignored)
    BY <1>4, OfUserSuits, ChangedSuits DEF m_vcd_user_remove
  <2>4. Suits(m_vcd_user_caps_get(d, q), TextArray)
    BY <1>4, OfUserSuits, TextsSuit DEF m_vcd_user_caps_get
  <2>5. QED  BY <2>2, <2>3, <2>4 DEF reply
<1>5. ASSUME Decomposes(q, [username |-> "s", cap |-> "s"])
      PROVE  Suits(m_vcd_user_caps_add(d, q), Ignored) /\ Suits(m_vcd_user_caps_remove(d, q), Ignored)
  <2>1. Suits(m_vcd_user_caps_add(d, q), Ignored)
    BY <1>5, OfUserSuits, ChangedSuits DEF m_vcd_user_caps_add
  <2>2. Suits(m_vcd_user_caps_remove(d, q), Ignored)
    BY <1>5, OfUserSuits, ChangedSuits DEF m_vcd_user_caps_remove
  <2>3. QED  BY <2>1, <2>2
<1>6. ASSUME Decomposes(q, [username |-> "s", password |-> "s", admin |-> "b"])
      PROVE  Suits(m_vcd_user_set(d, q), Ignored)
  BY <1>6, CheckedSuits, ChangedSuits, RefusedSuits DEF m_vcd_user_set
<1>7. QED  BY <1>1, <1>2, <1>3, <1>4, <1>5, <1>6

LEMMA StatusSuits ==
    ASSUME NEW d, NEW q, NEW n, Decomposes(q, [name |-> "s"])
    PROVE  /\ \A statted : Suits(m_vx_status(d, q, statted, n),
                 Record([running |-> "i", thr_total |-> "i", thr_running |-> "i",
                         thr_unintr |-> "i", thr_onhold |-> "i", forks_total |-> "i",
                         uptime |-> "i", load1m |-> "s", load5m |-> "s", load15m |-> "s"], Blank))
           /\ Suits(m_vx_limstatus(d, q, n), Records(Strings({"type", "min", "cur", "max"})))
           /\ Suits(m_vx_netstatus(d, q, n),
                    Records(Strings({"type", "recvp", "recvb", "sendp", "sendb", "failp", "failb"})))
           /\ Suits(m_vx_templates(d, q), Records(Strings({"name", "description"})))
<1>1. ASSUME NEW statted
      PROVE  Suits(m_vx_status(d, q, statted, n),
                Record([running |-> "i", thr_total |-> "i", thr_running |-> "i",
                        thr_unintr |-> "i", thr_onhold |-> "i", forks_total |-> "i",
                        uptime |-> "i", load1m |-> "s", load5m |-> "s", load15m |-> "s"], Blank))
  <2> DEFINE reply == Record([running |-> "i", thr_total |-> "i", thr_running |-> "i",
                        thr_unintr |-> "i", thr_onhold |-> "i", forks_total |-> "i",
                        uptime |-> "i", load1m |-> "s", load5m |-> "s", load15m |-> "s"], Blank)
             Status(running, m, load) ==
                [running |-> I(running), thr_total |-> I(m), thr_running |-> I(m),
                 thr_unintr |-> I(m), thr_onhold |-> I(m), forks_total |-> I(m), uptime |-> I(m),
                 load1m |-> S(load), load5m |-> S(load), load15m |-> S(load)]
  <2>1. \A x, m, l : Decodes(reply, Struct(Status(x, m, l)))
    BY DEF Decodes, Record, Struct, Decomposes, S, I
  <2> HIDE DEF reply
  <2>2. Suits(m_vx_status(d, q, statted, n), reply)
    BY <2>1, NamedSuits, AnsweredSuits, RefusedSuits DEF m_vx_status
  <2>3. QED  BY <2>2 DEF reply
<1>2. Suits(m_vx_limstatus(d, q, n), Records(Strings({"type", "min", "cur", "max"})))
  <2> DEFINE reply == Records(Strings({"type", "min", "cur", "max"}))
             Value(type) == S(ToString(IF type \in LIMTYPE THEN pagestobytes(n) ELSE n))
             Item(type) == Struct([type |-> S(type), min |-> Value(type), cur |-> Value(type),
                                   max |-> Value(type)])
  <2>1. Decodes(reply, Array({Item(type) : type \in LimitTypes}))
    BY DEF Decodes, Records, Strings, Array, Struct, Decomposes, S
  <2> HIDE DEF reply
  <2>2. Suits(m_vx_limstatus(d, q, n), reply)
    BY <2>1, NamedSuits, AnsweredSuits DEF m_vx_limstatus
  <2>3. QED  BY <2>2 DEF reply
<1>3. Suits(m_vx_netstatus(d, q, n),
                   Records(Strings({"type", "recvp", "recvb", "sendp", "sendb", "failp", "failb"})))
  <2> DEFINE reply == Records(Strings({"type", "recvp", "recvb", "sendp", "sendb", "failp", "failb"}))
             Item(type) == Struct([type |-> S(type),
                  recvp |-> S(ToString(n)), recvb |-> S(ToString(n)),
                  sendp |-> S(ToString(n)), sendb |-> S(ToString(n)),
                  failp |-> S(ToString(n)), failb |-> S(ToString(n))])
  <2>1. Decodes(reply, Array({Item(type) : type \in NET}))
    BY DEF Decodes, Records, Strings, Array, Struct, Decomposes, S
  <2> HIDE DEF reply
  <2>2. Suits(m_vx_netstatus(d, q, n), reply)
    BY <2>1, NamedSuits, AnsweredSuits DEF m_vx_netstatus
  <2>3. QED  BY <2>2 DEF reply
<1>4. Suits(m_vx_templates(d, q), Records(Strings({"name", "description"})))
  <2> DEFINE reply == Records(Strings({"name", "description"}))
             Item(t) == Struct([name |-> S(t), description |-> S(template_description(t))])
  <2>1. \A T : Decodes(reply, Array({Item(t) : t \in T}))
    BY DEF Decodes, Records, Strings, Array, Struct, Decomposes, S
  <2> HIDE DEF reply
  <2>2. Suits(m_vx_templates(d, q), reply)
    BY <2>1, CheckedSuits, AnsweredSuits DEF m_vx_templates
  <2>3. QED  BY <2>2 DEF reply
<1>5. QED  BY <1>1, <1>2, <1>3, <1>4

LEMMA ContextSuits ==
    ASSUME NEW d, NEW q, NEW r
    PROVE  /\ Decomposes(q, [name |-> "s"]) =>
              /\ Suits(m_vx_start(d, q, r), Ignored) /\ Suits(m_vx_stop(d, q, r), Ignored)
              /\ Suits(m_vx_restart(d, q, r), Ignored) /\ Suits(m_vx_reboot(d, q, r), Ignored)
           /\ Decomposes(q, [name |-> "s", command |-> "s"]) => Suits(m_vx_exec(d, q, r), Text)
           /\ Decomposes(q, [name |-> "s", pid |-> "i", sig |-> "i"]) =>
                 Suits(m_vx_kill(d, q, r), Ignored)
<1>1. ASSUME Decomposes(q, [name |-> "s", command |-> "s"]) PROVE Suits(m_vx_exec(d, q, r), Text)
  BY <1>1, NamedSuits, ScalarsSuit, RefusedSuits DEF m_vx_exec
<1>2. ASSUME Decomposes(q, [name |-> "s"]), NEW e
      PROVE  Suits(m_vx_start(e, q, r), Ignored) /\ Suits(m_vx_stop(e, q, r), Ignored)
             /\ Suits(m_vx_reboot(e, q, r), Ignored)
  <2>1. \A x : Suits(m_vx_exec(e, [name |-> q.name, command |-> S(x)], r), Ignored)
    <3> TAKE x
    <3>1. Decomposes([name |-> q.name, command |-> S(x)], [name |-> "s", command |-> "s"])
      BY <1>2 DEF Decomposes, S
    <3>2. Suits(Answered(e, S("output")), Ignored)
      BY IgnoredSuits DEF Answered
    <3>3. QED  BY <3>1, <3>2, NamedSuits, RefusedSuits DEF m_vx_exec
  <2>2. Suits(m_vx_start(e, q, r), Ignored)
    BY <1>2, NamedSuits, ChangedSuits, RefusedSuits DEF m_vx_start
  <2>3. Suits(m_vx_stop(e, q, r), Ignored)
    BY <1>2, <2>1, NamedSuits, ChangedSuits, RefusedSuits DEF m_vx_stop
  <2>4. Suits(m_vx_reboot(e, q, r), Ignored)
    BY <1>2, <2>1, NamedSuits DEF m_vx_reboot
  <2>5. QED  BY <2>2, <2>3, <2>4
<1>3. ASSUME Decomposes(q, [name |-> "s"]) PROVE Suits(m_vx_restart(d, q, r), Ignored)
  BY <1>2, <1>3 DEF m_vx_restart
<1>4. ASSUME Decomposes(q, [name |-> "s", pid |-> "i", sig |-> "i"])
      PROVE  Suits(m_vx_kill(d, q, r), Ignored)
  BY <1>4, NamedSuits, ChangedSuits, RefusedSuits DEF m_vx_kill
<1>5. QED  BY <1>1, <1>2, <1>3, <1>4

-----------------------------------------------------------------------------
(* Calls *)

(* The methods of one step, and those among them that ask for the name. *)
Others ==
    {"vcd.login", "vcd.hostinfo", "vcd.status", "vcd.user.caps.add", "vcd.user.caps.get",
     "vcd.user.caps.remove", "vcd.user.get", "vcd.user.remove", "vcd.user.set", "vg.add",
     "vg.list", "vg.remove", "vxdb.owner.add", "vxdb.owner.get", "vxdb.owner.remove",
     "vxdb.list", "vxdb.name.get", "vxdb.vdir.get", "vxdb.xid.get", "vx.status",
     "vx.limstatus", "vx.netstatus", "vx.kill", "vx.reboot", "vx.restart", "vx.start",
     "vx.stop", "vx.create", "vx.remove", "vx.rename", "vx.templates", "vx.exec"}
Flagged ==
    {"vx.status", "vx.limstatus", "vx.netstatus", "vx.kill", "vx.reboot", "vx.restart",
     "vx.start", "vx.stop", "vx.create", "vx.remove", "vx.rename", "vx.exec"}

LEMMA Kinds ==
    /\ \A m \in Others : ~IsConf(m) /\ m \notin DOMAIN Inner
    /\ \A m \in DOMAIN Inner : ~IsConf(m)
    /\ \A m \in M_OWNER \cup M_LOCK : IsConf(m) \/ m \in Flagged
<1>1. \A m \in Others : ~IsConf(m)
  BY DEF Others, IsConf, ConfMethods
<1>2. \A m \in Others : m \notin DOMAIN Inner
  BY InnerIs DEF Others
<1>3. \A m \in DOMAIN Inner : ~IsConf(m)
  BY InnerIs DEF IsConf, ConfMethods
<1>4. \A m \in M_OWNER : IsConf(m) \/ m \in Flagged
  BY Zenon DEF M_OWNER, IsConf, Flagged
<1>5. \A m \in M_LOCK : m \in M_OWNER \/ m = "vx.create"
  BY Zenon DEF M_LOCK
<1>6. QED  BY <1>1, <1>2, <1>3, <1>4, <1>5 DEF Flagged

(* A call that its method can decompose, with the form of every answer. *)
CallFits(k) ==
    /\ k.method \in M_OWNER \cup M_LOCK => Decomposes(k.params, [name |-> "s"])
    /\ IsConf(k.method) => \A c : Suits(ConfMethod(k.method, c, k.params), k.reply)
    /\ k.method \in DOMAIN Inner => k.reply = Ignored /\ Decomposes(k.params, [group |-> "s"])
    /\ k.method \in OneStep =>
          \A d, user, r, n : Suits(VcdMethod(k.method, d, k.params, user, r, n), k.reply)

LEMMA ConfCallFits ==
    ASSUME NEW k, ConfFits(k) PROVE CallFits(k)
  BY Kinds DEF ConfFits, CallFits, OneStep

(* A call of another method. *)
PlainFits(k) == CallFits(k) /\ ~IsConf(k.method)

LEMMA OtherCallFits ==
    ASSUME NEW k, k.method \in Others,
           k.method \in Flagged => Decomposes(k.params, [name |-> "s"]),
           \A d, user, r, n : Suits(VcdMethod(k.method, d, k.params, user, r, n), k.reply)
    PROVE  PlainFits(k)
  BY Kinds DEF CallFits, PlainFits

LEMMA GroupCallFits ==
    ASSUME NEW k, k.method \in DOMAIN Inner, k.reply = Ignored,
           Decomposes(k.params, [group |-> "s"])
    PROVE  PlainFits(k)
<1>1. k.method \notin Flagged /\ ~IsConf(k.method)
  BY Kinds, InnerIs DEF Flagged
<1>2. QED  BY <1>1, Kinds DEF CallFits, PlainFits, OneStep

(* The commands of vcc *)
LEMMA VccFits ==
    ASSUME NEW cmd, NEW argv, Vcc(cmd, argv).method \notin {"invalid", "usage"}
    PROVE  PlainFits(Vcc(cmd, argv))
<1> DEFINE k == Vcc(cmd, argv)
<1>1. CASE cmd = "create"
  <2>1. /\ k.method = "vx.create" /\ k.reply = Ignored
        /\ Decomposes(k.params, [name |-> "s", template |-> "s", force |-> "b", copy |-> "b",
                                  vdir |-> "s"])
    BY <1>1 DEF Vcc, cmd_create, Call, Usage, Decomposes, S, B
  <2>2. \A d, user, r, n : Suits(VcdMethod(k.method, d, k.params, user, r, n), k.reply)
    BY <2>1, RegistrySuits DEF VcdMethod
  <2>3. Decomposes(k.params, [name |-> "s"])
    BY <2>1 DEF Decomposes
  <2>4. QED  BY <2>1, <2>2, <2>3, OtherCallFits DEF Others
<1>2. CASE cmd = "exec"
  <2>1. /\ k.method = "vx.exec" /\ k.reply = Text
        /\ Decomposes(k.params, [name |-> "s", command |-> "s"])
    BY <1>2 DEF Vcc, cmd_exec, Call, Usage, Decomposes, S
  <2>2. \A d, user, r, n : Suits(VcdMethod(k.method, d, k.params, user, r, n), k.reply)
    BY <2>1, ContextSuits DEF VcdMethod
  <2>3. Decomposes(k.params, [name |-> "s"])
    BY <2>1 DEF Decomposes
  <2>4. QED  BY <2>1, <2>2, <2>3, OtherCallFits DEF Others
<1>3. CASE cmd = "kill"
  <2>1. /\ k.method = "vx.kill" /\ k.reply = Ignored
        /\ Decomposes(k.params, [name |-> "s", pid |-> "i", sig |-> "i"])
    BY <1>3 DEF Vcc, cmd_kill, Call, Usage, Decomposes, S, I
  <2>2. \A d, user, r, n : Suits(VcdMethod(k.method, d, k.params, user, r, n), k.reply)
    BY <2>1, ContextSuits DEF VcdMethod
  <2>3. Decomposes(k.params, [name |-> "s"])
    BY <2>1 DEF Decomposes
  <2>4. QED  BY <2>1, <2>2, <2>3, OtherCallFits DEF Others
<1>4. CASE cmd = "limstatus"
  <2>1. /\ k.method = "vx.limstatus" /\ k.reply = Records(Strings({"type", "min", "cur", "max"}))
        /\ Decomposes(k.params, [name |-> "s"])
    BY <1>4 DEF Vcc, cmd_limstatus, ByName, Call, Usage, Decomposes, S
  <2>2. \A d, user, r, n : Suits(VcdMethod(k.method, d, k.params, user, r, n), k.reply)
    BY <2>1, StatusSuits DEF VcdMethod
  <2>3. QED  BY <2>1, <2>2, OtherCallFits DEF Others
<1>5. CASE cmd = "list"
  <2>1. /\ k.method = "vxdb.list" /\ k.reply = TextArray
        /\ Decomposes(k.params, [username |-> "s"])
    BY <1>5 DEF Vcc, cmd_list, Call, Usage, Decomposes, S
  <2>2. \A d, user, r, n : Suits(VcdMethod(k.method, d, k.params, user, r, n), k.reply)
    BY <2>1, RegistrySuits DEF VcdMethod
  <2>3. QED  BY <2>1, <2>2, OtherCallFits DEF Others, Flagged
<1>6. CASE cmd = "login"
  <2>1. /\ k.method = "vxdb.xid.get" /\ k.reply = Integer
        /\ Decomposes(k.params, [name |-> "s"])
    BY <1>6 DEF Vcc, cmd_login, ByName, Call, Usage, Decomposes, S
  <2>2. \A d, user, r, n : Suits(VcdMethod(k.method, d, k.params, user, r, n), k.reply)
    BY <2>1, RegistrySuits DEF VcdMethod
  <2>3. QED  BY <2>1, <2>2, OtherCallFits DEF Others, Flagged
<1>7. CASE cmd = "netstatus"
  <2>1. /\ k.method = "vx.netstatus" /\ k.reply = Records(Strings({"type", "recvp", "recvb", "sendp", "sendb", "failp",
                                      "failb"}))
        /\ Decomposes(k.params, [name |-> "s"])
    BY <1>7 DEF Vcc, cmd_netstatus, ByName, Call, Usage, Decomposes, S
  <2>2. \A d, user, r, n : Suits(VcdMethod(k.method, d, k.params, user, r, n), k.reply)
    BY <2>1, StatusSuits DEF VcdMethod
  <2>3. QED  BY <2>1, <2>2, OtherCallFits DEF Others
<1>8. CASE cmd = "reboot"
  <2>1. /\ k.method = "vx.reboot" /\ k.reply = Ignored
        /\ Decomposes(k.params, [name |-> "s"])
    BY <1>8 DEF Vcc, cmd_reboot, ByName, Call, Usage, Decomposes, S
  <2>2. \A d, user, r, n : Suits(VcdMethod(k.method, d, k.params, user, r, n), k.reply)
    BY <2>1, ContextSuits DEF VcdMethod
  <2>3. QED  BY <2>1, <2>2, OtherCallFits DEF Others
<1>9. CASE cmd = "remove"
  <2>1. /\ k.method = "vx.remove" /\ k.reply = Ignored
        /\ Decomposes(k.params, [name |-> "s"])
    BY <1>9 DEF Vcc, cmd_remove, ByName, Call, Usage, Decomposes, S
  <2>2. \A d, user, r, n : Suits(VcdMethod(k.method, d, k.params, user, r, n), k.reply)
    BY <2>1, RegistrySuits DEF VcdMethod
  <2>3. QED  BY <2>1, <2>2, OtherCallFits DEF Others
<1>10. CASE cmd = "rename"
  <2>1. /\ k.method = "vx.rename" /\ k.reply = Ignored
        /\ Decomposes(k.params, [name |-> "s", newname |-> "s"])
    BY <1>10 DEF Vcc, cmd_rename, Call, Usage, Decomposes, S
  <2>2. \A d, user, r, n : Suits(VcdMethod(k.method, d, k.params, user, r, n), k.reply)
    BY <2>1, RegistrySuits DEF VcdMethod
  <2>3. Decomposes(k.params, [name |-> "s"])
    BY <2>1 DEF Decomposes
  <2>4. QED  BY <2>1, <2>2, <2>3, OtherCallFits DEF Others
<1>11. CASE cmd = "restart"
  <2>1. /\ k.method = "vx.restart" /\ k.reply = Ignored
        /\ Decomposes(k.params, [name |-> "s"])
    BY <1>11 DEF Vcc, cmd_restart, ByName, Call, Usage, Decomposes, S
  <2>2. \A d, user, r, n : Suits(VcdMethod(k.method, d, k.params, user, r, n), k.reply)
    BY <2>1, ContextSuits DEF VcdMethod
  <2>3. QED  BY <2>1, <2>2, OtherCallFits DEF Others
<1>12. CASE cmd = "start"
  <2>1. /\ k.method = "vx.start" /\ k.reply = Ignored
        /\ Decomposes(k.params, [name |-> "s"])
    BY <1>12 DEF Vcc, cmd_start, ByName, Call, Usage, Decomposes, S
  <2>2. \A d, user, r, n : Suits(VcdMethod(k.method, d, k.params, user, r, n), k.reply)
    BY <2>1, ContextSuits DEF VcdMethod
  <2>3. QED  BY <2>1, <2>2, OtherCallFits DEF Others
<1>13. CASE cmd = "status"
  <2>1. /\ k.method = "vx.status" /\ k.reply = Record([running |-> "i", thr_total |-> "i", thr_running |-> "i",
                     thr_unintr |-> "i", thr_onhold |-> "i", forks_total |-> "i",
                     uptime |-> "i", load1m |-> "s", load5m |-> "s", load15m |-> "s"], Blank)
        /\ Decomposes(k.params, [name |-> "s"])
    BY <1>13 DEF Vcc, cmd_status, ByName, Call, Usage, Decomposes, S
  <2>2. \A d, user, r, n : Suits(VcdMethod(k.method, d, k.params, user, r, n), k.reply)
    <3> HIDE DEF k
    <3>1. \A d, b, n : Suits(m_vx_status(d, k.params, b, n), k.reply)
      BY <2>1, StatusSuits
    <3>2. ASSUME NEW d, NEW user, NEW r, NEW n
          PROVE  Suits(VcdMethod(k.method, d, k.params, user, r, n), k.reply)
      <4> DEFINE b == r = "ok"
      <4>1. VcdMethod("vx.status", d, k.params, user, r, n) = m_vx_status(d, k.params, b, n)
        BY DEF VcdMethod
      <4> HIDE DEF b
      <4>2. QED  BY <2>1, <3>1, <4>1
    <3>3. QED  BY <3>2 DEF k
  <2>3. QED  BY <2>1, <2>2, OtherCallFits DEF Others
<1>14. CASE cmd = "stop"
  <2>1. /\ k.method = "vx.stop" /\ k.reply = Ignored
        /\ Decomposes(k.params, [name |-> "s"])
    BY <1>14 DEF Vcc, cmd_stop, ByName, Call, Usage, Decomposes, S
  <2>2. \A d, user, r, n : Suits(VcdMethod(k.method, d, k.params, user, r, n), k.reply)
    BY <2>1, ContextSuits DEF VcdMethod
  <2>3. QED  BY <2>1, <2>2, OtherCallFits DEF Others
<1>15. CASE cmd = "templates"
  <2>1. /\ k.method = "vx.templates" /\ k.reply = Records(Strings({"name", "description"}))
        /\ Decomposes(k.params, [name |-> "s"])
    BY <1>15 DEF Vcc, cmd_templates, Call, Usage, Decomposes, S
  <2>2. \A d, user, r, n : Suits(VcdMethod(k.method, d, k.params, user, r, n), k.reply)
    BY <2>1, StatusSuits DEF VcdMethod
  <2>3. QED  BY <2>1, <2>2, OtherCallFits DEF Others, Flagged
<1>16. QED
  BY <1>1, <1>2, <1>3, <1>4, <1>5, <1>6, <1>7, <1>8, <1>9, <1>10, <1>11, <1>12, <1>13, <1>14, <1>15 DEF Vcc, Invalid

(* The commands of vgc *)
LEMMA VgcFits ==
    ASSUME NEW cmd, NEW argv, Vgc(cmd, argv).method \notin {"invalid", "usage"}
    PROVE  PlainFits(Vgc(cmd, argv))
<1> DEFINE k == Vgc(cmd, argv)
<1>1. CASE cmd = "add"
  <2>1. /\ k.method = "vg.add" /\ k.reply = Ignored
        /\ Decomposes(k.params, [group |-> "s", name |-> "s"])
    BY <1>1 DEF Vgc, vgc_cmd_add, Call, Usage, Decomposes, S
  <2>2. \A d, user, r, n : Suits(VcdMethod(k.method, d, k.params, user, r, n), k.reply)
    BY <2>1, RegistrySuits DEF VcdMethod
  <2>3. QED  BY <2>1, <2>2, OtherCallFits DEF Others, Flagged
<1>2. CASE cmd = "list"
  <2>1. /\ k.method = "vg.list" /\ k.reply = TextArray
        /\ Decomposes(k.params, [group |-> "s"])
    BY <1>2 DEF Vgc, vgc_cmd_list, Call, Usage, Decomposes, S
  <2>2. \A d, user, r, n : Suits(VcdMethod(k.method, d, k.params, user, r, n), k.reply)
    BY <2>1, RegistrySuits DEF VcdMethod
  <2>3. QED  BY <2>1, <2>2, OtherCallFits DEF Others, Flagged
<1>3. CASE cmd = "remove"
  <2>1. /\ k.method = "vg.remove" /\ k.reply = Ignored
        /\ Decomposes(k.params, [group |-> "s", name |-> "s"])
    BY <1>3 DEF Vgc, vgc_cmd_remove, Call, Usage, Decomposes, S
  <2>2. \A d, user, r, n : Suits(VcdMethod(k.method, d, k.params, user, r, n), k.reply)
    BY <2>1, RegistrySuits DEF VcdMethod
  <2>3. QED  BY <2>1, <2>2, OtherCallFits DEF Others, Flagged
<1>4. CASE cmd \in {"vx.reboot", "vx.restart", "vx.start", "vx.stop"}
  <2>1. /\ k.method \in {"vg.vx.reboot", "vg.vx.restart", "vg.vx.start", "vg.vx.stop"}
        /\ k.reply = Ignored /\ Decomposes(k.params, [group |-> "s"])
    BY <1>4 DEF Vgc, vgc_cmd_vx_reboot, vgc_cmd_vx_restart, vgc_cmd_vx_start, vgc_cmd_vx_stop,
       ByGroup, Call, Usage, Decomposes, S
  <2>2. QED  BY <2>1, InnerIs, GroupCallFits
<1>5. QED
  BY <1>1, <1>2, <1>3, <1>4 DEF Vgc, Invalid

(* The commands of vcdadm *)
LEMMA VcdadmFits ==
    ASSUME NEW cmd, NEW argv, Vcdadm(cmd, argv).method \notin {"invalid", "usage"}
    PROVE  PlainFits(Vcdadm(cmd, argv))
<1> DEFINE k == Vcdadm(cmd, argv)
<1>1. CASE cmd = "hostinfo"
  <2>1. /\ k.method = "vcd.hostinfo" /\ k.reply = Record([vbasedir |-> "s", cpus |-> "i", memnodes |-> "i"], Blank)
    BY <1>1 DEF Vcdadm, cmd_hostinfo, Call, Usage
  <2>2. \A d, user, r, n : Suits(VcdMethod(k.method, d, k.params, user, r, n), k.reply)
    BY <2>1, SystemSuits DEF VcdMethod
  <2>3. QED  BY <2>1, <2>2, OtherCallFits DEF Others, Flagged
<1>2. CASE cmd = "status"
  <2>1. /\ k.method = "vcd.status" /\ k.reply = Record(Ints({"uptime", "requests", "nomethod", "flogins"}), Blank)
    BY <1>2 DEF Vcdadm, vcdadm_cmd_status, Call, Usage
  <2>2. \A d, user, r, n : Suits(VcdMethod(k.method, d, k.params, user, r, n), k.reply)
    BY <2>1, SystemSuits DEF VcdMethod
  <2>3. QED  BY <2>1, <2>2, OtherCallFits DEF Others, Flagged
<1>3. CASE cmd = "user.set"
  <2>1. /\ k.method = "vcd.user.set" /\ k.reply = Ignored
        /\ Decomposes(k.params, [username |-> "s", password |-> "s", admin |-> "b"])
    BY <1>3 DEF Vcdadm, cmd_user_set, Call, Usage, Decomposes, S, B
  <2>2. \A d, user, r, n : Suits(VcdMethod(k.method, d, k.params, user, r, n), k.reply)
    BY <2>1, SystemSuits DEF VcdMethod
  <2>3. QED  BY <2>1, <2>2, OtherCallFits DEF Others, Flagged
<1>4. CASE cmd = "user.get"
  <2>1. /\ k.method = "vcd.user.get" /\ k.reply = Records([username |-> "s", uid |-> "i", admin |-> "i"])
        /\ Decomposes(k.params, [username |-> "s"])
    BY <1>4 DEF Vcdadm, cmd_user_get, Call, Usage, Decomposes, S
  <2>2. \A d, user, r, n : Suits(VcdMethod(k.method, d, k.params, user, r, n), k.reply)
    BY <2>1, SystemSuits DEF VcdMethod
  <2>3. QED  BY <2>1, <2>2, OtherCallFits DEF Others, Flagged
<1>5. CASE cmd = "user.remove"
  <2>1. /\ k.method = "vcd.user.remove" /\ k.reply = Ignored
        /\ Decomposes(k.params, [username |-> "s"])
    BY <1>5 DEF Vcdadm, cmd_user_remove, Call, Usage, Decomposes, S
  <2>2. \A d, user, r, n : Suits(VcdMethod(k.method, d, k.params, user, r, n), k.reply)
    BY <2>1, SystemSuits DEF VcdMethod
  <2>3. QED  BY <2>1, <2>2, OtherCallFits DEF Others, Flagged
<1>6. CASE cmd = "user.caps.add"
  <2>1. /\ k.method = "vcd.user.caps.add" /\ k.reply = Ignored
        /\ Decomposes(k.params, [username |-> "s", cap |-> "s"])
    BY <1>6 DEF Vcdadm, cmd_user_caps_add, Call, Usage, Decomposes, S
  <2>2. \A d, user, r, n : Suits(VcdMethod(k.method, d, k.params, user, r, n), k.reply)
    BY <2>1, SystemSuits DEF VcdMethod
  <2>3. QED  BY <2>1, <2>2, OtherCallFits DEF Others, Flagged
<1>7. CASE cmd = "user.caps.get"
  <2>1. /\ k.method = "vcd.user.caps.get" /\ k.reply = TextArray
        /\ Decomposes(k.params, [username |-> "s"])
    BY <1>7 DEF Vcdadm, cmd_user_caps_get, Call, Usage, Decomposes, S
  <2>2. \A d, user, r, n : Suits(VcdMethod(k.method, d, k.params, user, r, n), k.reply)
    BY <2>1, SystemSuits DEF VcdMethod
  <2>3. QED  BY <2>1, <2>2, OtherCallFits DEF Others, Flagged
<1>8. CASE cmd = "user.caps.remove"
  <2>1. /\ k.method = "vcd.user.caps.remove" /\ k.reply = Ignored
        /\ Decomposes(k.params, [username |-> "s", cap |-> "s"])
    BY <1>8 DEF Vcdadm, cmd_user_caps_remove, Call, Usage, Decomposes, S
  <2>2. \A d, user, r, n : Suits(VcdMethod(k.method, d, k.params, user, r, n), k.reply)
    BY <2>1, SystemSuits DEF VcdMethod
  <2>3. QED  BY <2>1, <2>2, OtherCallFits DEF Others, Flagged
<1>9. QED
  BY <1>1, <1>2, <1>3, <1>4, <1>5, <1>6, <1>7, <1>8 DEF Vcdadm, Invalid

LEMMA KnownMethods ==
    \A m : m \in M_OWNER \cup M_LOCK \/ IsConf(m) \/ m \in DOMAIN Inner \/ m \in OneStep => m \in Methods
<1>1. \A m : IsConf(m) => m \in Methods
  BY Zenon DEF IsConf, Methods
<1>2. \A m \in Flagged \cup DOMAIN Inner : \E cap \in DOMAIN OtherMethods : m \in OtherMethods[cap]
  BY InnerIs DEF Flagged, OtherMethods
<1>3. \A m \in Flagged \cup DOMAIN Inner : m \in Methods
  BY <1>2, Zenon DEF Methods
<1>4. QED  BY <1>1, <1>3, Kinds DEF OneStep

LEMMA ScriptMethods ==
    {"vcd.login", "vxdb.name.get", "vxdb.owner.add", "vxdb.owner.get", "vxdb.owner.remove"}
       \subseteq Methods
<1>1. \A m \in {"vxdb.name.get", "vxdb.owner.add", "vxdb.owner.get", "vxdb.owner.remove"} :
         \E cap \in DOMAIN OtherMethods : m \in OtherMethods[cap]
  BY DEF OtherMethods
<1>2. QED  BY <1>1, Zenon DEF Methods

(* A script that calls what no command does, or no method at all *)
LEMMA ScriptFits ==
    ASSUME NEW cmd, NEW argv, Script(cmd, argv).method \notin {"invalid", "usage"},
           cmd \in {"vcd.login", "vxdb.name.get", "vxdb.owner.add", "vxdb.owner.get",
                   "vxdb.owner.remove"} \/ cmd \notin Methods
    PROVE  PlainFits(Script(cmd, argv))
<1> DEFINE k == Script(cmd, argv)
<1>1. CASE cmd = "vcd.login"
  <2>1. /\ k.method = "vcd.login" /\ k.reply = Ignored
    BY <1>1 DEF Script, Call, Usage
  <2>2. \A d, user, r, n : Suits(VcdMethod(k.method, d, k.params, user, r, n), k.reply)
    BY <2>1, SystemSuits DEF VcdMethod
  <2>3. QED  BY <2>1, <2>2, OtherCallFits DEF Others, Flagged
<1>2. CASE cmd = "vxdb.name.get"
  <2>1. /\ k.method = "vxdb.name.get" /\ k.reply = Text
        /\ Decomposes(k.params, [xid |-> "i"])
    BY <1>2 DEF Script, Call, Usage, Decomposes, I
  <2>2. \A d, user, r, n : Suits(VcdMethod(k.method, d, k.params, user, r, n), k.reply)
    BY <2>1, RegistrySuits DEF VcdMethod
  <2>3. QED  BY <2>1, <2>2, OtherCallFits DEF Others, Flagged
<1>3. CASE cmd = "vxdb.owner.add"
  <2>1. /\ k.method = "vxdb.owner.add" /\ k.reply = Ignored
        /\ Decomposes(k.params, [name |-> "s", username |-> "s"])
    BY <1>3 DEF Script, ByNameAnd, Call, Usage, Decomposes, S
  <2>2. \A d, user, r, n : Suits(VcdMethod(k.method, d, k.params, user, r, n), k.reply)
    BY <2>1, RegistrySuits DEF VcdMethod
  <2>3. QED  BY <2>1, <2>2, OtherCallFits DEF Others, Flagged
<1>4. CASE cmd = "vxdb.owner.get"
  <2>1. /\ k.method = "vxdb.owner.get" /\ k.reply = TextArray
        /\ Decomposes(k.params, [name |-> "s"])
    BY <1>4 DEF Script, ByName, Call, Usage, Decomposes, S
  <2>2. \A d, user, r, n : Suits(VcdMethod(k.method, d, k.params, user, r, n), k.reply)
    BY <2>1, RegistrySuits DEF VcdMethod
  <2>3. QED  BY <2>1, <2>2, OtherCallFits DEF Others, Flagged
<1>5. CASE cmd = "vxdb.owner.remove"
  <2>1. /\ k.method = "vxdb.owner.remove" /\ k.reply = Ignored
        /\ Decomposes(k.params, [name |-> "s", username |-> "s"])
    BY <1>5 DEF Script, ByNameAnd, Call, Usage, Decomposes, S
  <2>2. \A d, user, r, n : Suits(VcdMethod(k.method, d, k.params, user, r, n), k.reply)
    BY <2>1, RegistrySuits DEF VcdMethod
  <2>3. QED  BY <2>1, <2>2, OtherCallFits DEF Others, Flagged
<1>6. CASE cmd \notin Methods
  <2>1. k.method = cmd
    BY <1>6, ScriptMethods DEF Script, Call, Usage
  <2>2. QED  BY <1>6, <2>1, KnownMethods DEF CallFits, PlainFits
<1>7. QED
  BY <1>1, <1>2, <1>3, <1>4, <1>5, <1>6

-----------------------------------------------------------------------------
(* Calls of a command line *)

(* A line that is for one of the programs that call the daemon. *)
Asked(l) ==
    /\ l.tool \in {"vcc", "vce", "vgc", "vcdadm", "script"} /\ l.argv \in Seq(STRING)
    /\ l.tool = "vce" /\ l.cmd # "list" => [cmd |-> l.cmd, argv |-> l.argv] \in VceLines
    /\ l.tool = "script" => l.cmd \in {"vcd.login", "vxdb.name.get", "vxdb.owner.add",
                                      "vxdb.owner.get", "vxdb.owner.remove"}
                            \/ l.cmd \notin Methods

(* The call of a process: that of its command, or the second of cmd_login. *)
Made(p) ==
    \/ /\ p.line.tool = "vcc" /\ p.call.method = "vxdb.vdir.get" /\ p.call.reply = Text
       /\ Decomposes(p.call.params, [name |-> "s"])
    \/ Asked(p.line) /\ Makes(p.call, p.line)

LEMMA ShortAsked ==
    ASSUME NEW l \in Given, l.tool # "vxpasswd", NEW k, Makes(k, l)
    PROVE  Asked(Short(l)) /\ Makes(k, Short(l))
<1>1. Asked(Short(l))
  BY DEF Given, Asked, Short
<1>2. \A g : CallOf(l, g) = CallOf(Short(l), g)
  BY DEF CallOf, Short
<1>3. QED  BY <1>1, <1>2 DEF Makes

(* The command line of a call on the configuration. *)
ByVce(p) ==
    p.line.tool = "vce" /\ p.line.cmd # "list" /\ Asked(p.line) /\ Makes(p.call, p.line)

LEMMA MadeFits ==
    ASSUME NEW p, Made(p) PROVE CallFits(p.call) /\ (IsConf(p.call.method) => ByVce(p))
<1>1. CASE /\ p.call.method = "vxdb.vdir.get" /\ p.call.reply = Text
           /\ Decomposes(p.call.params, [name |-> "s"])
  <2>1. \A d, user, r, n : Suits(VcdMethod(p.call.method, d, p.call.params, user, r, n), p.call.reply)
    BY <1>1, RegistrySuits DEF VcdMethod
  <2>2. QED  BY <1>1, <2>1, OtherCallFits DEF Others, PlainFits
<1>2. CASE Asked(p.line) /\ Makes(p.call, p.line)
  <2>1. PICK g \in Garbage : p.call = CallOf(p.line, g) /\ p.call.method \notin {"invalid", "usage"}
    BY <1>2 DEF Makes
  <2>2. CASE p.line.tool = "vcc"
    BY <2>1, <2>2, VccFits DEF CallOf, PlainFits
  <2>3. CASE p.line.tool = "vce"
    <3>1. p.call = Vce(p.line.cmd, p.line.argv, g)
      BY <2>1, <2>3 DEF CallOf
    <3>2. CASE p.line.cmd = "list"
      <4>1. p.call = Vcc("list", p.line.argv)
        BY <3>1, <3>2 DEF Vce, Vcc, vce_cmd_list
      <4>2. QED  BY <2>1, <4>1, VccFits DEF PlainFits
    <3>3. CASE p.line.cmd # "list"
      BY <1>2, <2>1, <2>3, <3>1, <3>3, VceFits, ConfCallFits DEF ByVce
    <3>4. QED  BY <3>2, <3>3
  <2>4. CASE p.line.tool = "vgc"
    BY <2>1, <2>4, VgcFits DEF CallOf, PlainFits
  <2>5. CASE p.line.tool = "vcdadm"
    BY <2>1, <2>5, VcdadmFits DEF CallOf, PlainFits
  <2>6. CASE p.line.tool = "script"
    BY <1>2, <2>1, <2>6, ScriptFits DEF CallOf, Asked, PlainFits
  <2>7. QED  BY <1>2, <2>2, <2>3, <2>4, <2>5, <2>6 DEF Asked
<1>3. QED  BY <1>1, <1>2 DEF Made

(* cmd_login asks for the directory with the name it asked for the xid. *)
LEMMA LoginMade ==
    ASSUME NEW p, Made(p), p.line.tool = "vcc", p.line.cmd = "login",
           p.call.method = "vxdb.xid.get"
    PROVE  Decomposes(p.call.params, [name |-> "s"])
<1>1. PICK g \in Garbage : p.call = CallOf(p.line, g)
  BY DEF Made, Makes
<1>2. p.call = cmd_login(p.line.argv)
  BY <1>1 DEF CallOf, Vcc
<1>3. QED  BY <1>2 DEF cmd_login, ByName, Call, Usage, Decomposes, S

-----------------------------------------------------------------------------
(* Formats *)

LinesInv == left = [c \in Clients |-> left[c]] /\ \A c \in Clients : left[c] \in Seq(Given)

Formed(p) ==
    /\ p.at # "idle" => Made(p)
    /\ p.fault # "TYPE"
    /\ p.at = "answered" /\ p.fault = "none" => Decodes(p.call.reply, p.answer)

FormatInv == Shape /\ LinesInv /\ \A c \in Clients : Formed(proc[c])

LEMMA SeqFacts ==
    ASSUME NEW T, NEW q \in Seq(T), q # <<>>
    PROVE  Tail(q) \in Seq(T) /\ \A e \in T : [q EXCEPT ![1] = e] \in Seq(T)
<1>1. Tail(q) \in Seq(T)
  OBVIOUS
<1>2. ASSUME NEW e \in T PROVE [q EXCEPT ![1] = e] \in Seq(T)
  <2>1. Len(q) \in Nat /\ DOMAIN q = 1 .. Len(q) /\ \A i \in 1 .. Len(q) : q[i] \in T
    OBVIOUS
  <2>2. [q EXCEPT ![1] = e] \in [1 .. Len(q) -> T]
    BY <2>1
  <2>3. QED  BY <2>1, <2>2, SMT
<1>3. QED  BY <1>1, <1>2

LEMMA LinesNext == LinesInv /\ [Next]_vars => LinesInv'
<1> SUFFICES ASSUME LinesInv, [Next]_vars PROVE LinesInv'
  OBVIOUS
<1>1. CASE left' = left
  BY <1>1 DEF LinesInv
<1>2. ASSUME NEW c \in Clients, left' = [left EXCEPT ![c] = Tail(@)], left[c] # <<>>
      PROVE  LinesInv'
  <2>1. left[c] \in Seq(Given)
    BY DEF LinesInv
  <2>2. Tail(left[c]) \in Seq(Given)
    BY <1>2, <2>1
  <2>3. left'[c] = Tail(left[c]) /\ \A p \in Clients \ {c} : left'[p] = left[p]
    BY <1>2 DEF LinesInv
  <2>4. left' = [p \in Clients |-> left'[p]]
    BY <1>2 DEF LinesInv
  <2>5. QED  BY <2>2, <2>3, <2>4 DEF LinesInv
<1>3. ASSUME NEW c \in Clients, getopt(c) PROVE LinesInv'
  <2> DEFINE s == left[c]
             o == Tail(s[1].opts)
             new == [s[1] EXCEPT !.opts = o]
  <2>0. s \in Seq(Given) /\ s # <<>> /\ Head(s).opts # <<>>
    BY <1>3 DEF getopt, Started, LinesInv
  <2>2. 1 \in DOMAIN s /\ s[1] \in Given /\ Head(s) = s[1]
    BY <2>0
  <2>1. s[1].opts # <<>> /\ left' = [left EXCEPT ![c][1].opts = Tail(@)]
    BY <1>3, <2>0, <2>2 DEF getopt
  <2>3. s[1].opts \in Seq(Seq(STRING))
    BY <2>2 DEF Given
  <2>4. o \in Seq(Seq(STRING))
    BY <2>1, <2>3, SeqFacts, Zenon
  <2>5. new \in Given
    BY <2>2, <2>4 DEF Given
  <2>6. left'[c] = [s EXCEPT ![1] = new] /\ \A p \in Clients \ {c} : left'[p] = left[p]
    BY <2>1 DEF LinesInv
  <2> HIDE DEF new, s
  <2>7. [s EXCEPT ![1] = new] \in Seq(Given)
    BY <2>0, <2>5, SeqFacts, Zenon
  <2>8. left' = [p \in Clients |-> left'[p]]
    BY <2>1 DEF LinesInv
  <2>9. QED  BY <2>6, <2>7, <2>8 DEF LinesInv, s
<1>4. ASSUME NEW c \in Clients, main(c) \/ vxpasswd(c) PROVE LinesInv'
  BY <1>2, <1>4 DEF main, vxpasswd, Started
<1>5. ASSUME NEW c \in Clients, AskVdir(c) \/ Receive(c) \/ Daemon(c) \/ Lost(c) PROVE left' = left
  BY <1>5 DEF AskVdir, Receive, Daemon, Lost, method_default, method_init, method_lock, Lookup,
     Execute, Body, GroupList, GroupMember, GroupEnd, Exit
<1>6. CASE Guest \/ Terminated \/ UNCHANGED vars
  BY <1>1, <1>6 DEF Guest, Terminated, vars
<1>7. QED
  BY <1>1, <1>3, <1>4, <1>5, <1>6, Zenon DEF Next, Program

(* An answer of a method that suits the call. *)
LEMMA AnswerFormed ==
    ASSUME Shape, NEW c \in Clients, Made(proc[c]), NEW r, Answer(c, r),
           Suits(r, proc[c].call.reply)
    PROVE  Formed(proc'[c])
<1>1. /\ Step(c, Work \ {"members"}) /\ proc'[c].at = "answered"
      /\ proc'[c].fault = r.fault /\ proc'[c].answer = r.answer
  BY AnswerStep
<1>2. {"line", "call"} \subseteq ProcFields \ (Work \ {"members"})
  BY DEF ProcFields, Idle, Work
<1>3. proc'[c].line = proc[c].line /\ proc'[c].call = proc[c].call
  BY <1>1, <1>2 DEF Step
<1>4. QED  BY <1>1, <1>3 DEF Formed, Made, Suits

LEMMA RefuseFormed ==
    ASSUME Shape, NEW c \in Clients, Made(proc[c]), NEW id, id \notin {"TYPE", "none"},
           Refuse(c, id)
    PROVE  Formed(proc'[c])
  BY AnswerFormed, RefusedSuits DEF Refuse

(* A step on the way from the call to the answer. *)
LEMMA WorkFormed ==
    ASSUME Shape, NEW c \in Clients, Formed(proc[c]), proc[c].at # "idle", NEW F,
           F \subseteq {"at", "xid", "todo", "members"}, Step(c, F),
           proc'[c].at # "answered"
    PROVE  Formed(proc'[c])
<1>1. {"line", "call", "fault"} \subseteq ProcFields \ F
  BY DEF ProcFields, Idle
<1>2. /\ proc'[c].line = proc[c].line /\ proc'[c].call = proc[c].call
      /\ proc'[c].fault = proc[c].fault
  BY <1>1 DEF Step
<1>3. QED  BY <1>2 DEF Formed, Made

LEMMA FormatInit == Init => FormatInv
<1> SUFFICES ASSUME Init PROVE FormatInv
  OBVIOUS
<1>1. PassInv
  BY PassInit
<1>2. Shape /\ proc = [c \in Clients |-> Idle]
  BY <1>1 DEF PassInv, Init
<1>3. Idle.at = "idle" /\ Idle.fault = "none"
  BY DEF Idle
<1>4. \A c \in Clients : Formed(proc[c])
  BY <1>2, <1>3 DEF Formed
<1>5. left \in [Clients -> Seq(Given)]
  BY SessionsAssumption DEF Init
<1>6. LinesInv
  BY <1>5 DEF LinesInv
<1>7. QED  BY <1>2, <1>4, <1>6 DEF FormatInv

(* A command makes its call, and cmd_login its second. *)
LEMMA ProgramFormed ==
    ASSUME FormatInv, NEW c \in Clients, main(c) \/ AskVdir(c) \/ Receive(c)
    PROVE  Formed(proc'[c])
<1>0. Shape /\ Formed(proc[c]) /\ left[c] \in Seq(Given)
  BY DEF FormatInv, LinesInv
<1>1. Idle.at = "idle" /\ Idle.fault = "none"
  BY DEF Idle
<1>2. CASE main(c)
  <2>1. CASE proc'[c] = Idle
    BY <1>1, <2>1 DEF Formed
  <2>2. CASE proc'[c] # Idle
    <3>1. /\ proc'[c].fault \in {"none", "TRANSPORT"}
          /\ proc'[c].at = "answered" => proc'[c].fault = "TRANSPORT"
          /\ proc'[c].line = Short(Head(left[c])) /\ Makes(proc'[c].call, Head(left[c]))
      BY <1>0, <1>2, <2>2, MainStep
    <3>2. Head(left[c]) \in Given /\ Head(left[c]).tool # "vxpasswd"
      <4>1. left[c] # <<>> /\ Head(left[c]).tool # "vxpasswd"
        BY <1>2 DEF main, Started
      <4>2. QED  BY <1>0, <4>1
    <3>3. Asked(proc'[c].line) /\ Makes(proc'[c].call, proc'[c].line)
      BY <3>1, <3>2, ShortAsked
    <3>4. QED  BY <3>1, <3>3 DEF Formed, Made
  <2>3. QED  BY <2>1, <2>2
<1>3. CASE AskVdir(c)
  <2>1. /\ Step(c, {"at", "got", "call"}) /\ proc[c].at = "answered" /\ proc'[c].at = "calling"
        /\ proc'[c].call = [method |-> "vxdb.vdir.get", params |-> Params(c), reply |-> Text]
    BY <1>0, <1>3, AskStep
  <2>2. {"line", "fault"} \subseteq ProcFields \ {"at", "got", "call"}
    BY DEF ProcFields, Idle
  <2>3. proc'[c].line = proc[c].line /\ proc'[c].fault = proc[c].fault
    BY <2>1, <2>2 DEF Step
  <2>4. proc[c].line.tool = "vcc" /\ proc[c].line.cmd = "login" /\ proc[c].call.method = "vxdb.xid.get"
    BY <1>3 DEF AskVdir, Login, Method
  <2>5. Decomposes(Params(c), [name |-> "s"])
    BY <1>0, <2>1, <2>4, LoginMade DEF Formed, Params
  <2>6. Made(proc'[c])
    BY <2>1, <2>3, <2>4, <2>5 DEF Made
  <2>7. QED  BY <1>0, <2>1, <2>3, <2>6 DEF Formed
<1>4. CASE Receive(c)
  BY <1>0, <1>1, <1>4, ReceiveStep DEF Formed
<1>5. QED  BY <1>2, <1>3, <1>4

(* What the daemon's process does with a call that fits suits the call. *)
LEMMA DaemonFormed ==
    ASSUME FormatInv, LockInv, NEW c \in Clients, Daemon(c) \/ Lost(c), ~Exit(c)
    PROVE  Formed(proc'[c])
<1>0. /\ Shape /\ Formed(proc[c]) /\ proc[c].at # "idle" /\ Made(proc[c])
      /\ CallFits(proc[c].call) /\ FlowOK(proc[c], held[c], db)
  <2>1. Shape /\ Formed(proc[c]) /\ FlowOK(proc[c], held[c], db)
    BY DEF FormatInv, LockInv
  <2>2. proc[c].at # "idle"
    BY <2>1, DaemonStep
  <2>3. QED  BY <2>1, <2>2, MadeFits DEF Formed
<1>1. ASSUME NEW r, Answer(c, r), Suits(r, proc[c].call.reply) PROVE Formed(proc'[c])
  BY <1>0, <1>1, AnswerFormed
<1>2. ASSUME NEW id, id \notin {"TYPE", "none"}, Refuse(c, id) PROVE Formed(proc'[c])
  BY <1>0, <1>2, RefuseFormed
<1>3. CASE method_default(c) \/ Lost(c)
  <2>1. Refuse(c, "NO_SUCH_METHOD") \/ Refuse(c, "LOST")
    BY <1>3, Zenon DEF method_default, Lost
  <2>2. QED  BY <1>2, <2>1
<1>4. CASE method_init(c)
  <2> DEFINE m == Method(c)
             q == Params(c)
             flags == m \in M_OWNER \cup M_LOCK
             checks == << <<~auth_isvalid(db, proc[c].user, proc[c].pass), "MEAUTH">>,
               <<\E cap \in Caps(m) : ~auth_capable(db, proc[c].user, cap), "MEPERM">>,
               <<flags /\ ~Decomposes(q, [name |-> "s"]), "TYPE">>,
               <<flags /\ ~validate_name(q.name[2]), "MEINVAL">>,
               <<m \in M_OWNER /\ ~auth_isowner(db, proc[c].user, q.name[2]), "MENOVPS">> >>
             result == FirstOf(db, checks, Changed(db))
  <2>1. CASE result.fault # "none" /\ Answer(c, result)
    <3>1. DOMAIN checks = 1 .. 5
      OBVIOUS
    <3>2. checks[3][1] = (flags /\ ~Decomposes(q, [name |-> "s"]))
      OBVIOUS
    <3>3. ~checks[3][1]
      BY <1>0, <3>2, Zenon DEF CallFits, Method, Params
    <3>4. \A i \in DOMAIN checks : checks[i][2] = "TYPE" => i = 3
      OBVIOUS
    <3> DEFINE bad == {i \in DOMAIN checks : checks[i][1]}
    <3>5. \A i \in bad : checks[i][2] # "TYPE"
      BY <3>3, <3>4, Zenon
    <3> HIDE DEF checks
    <3>6. bad # {}
      <4>1. bad = {} => result = Changed(db)
        BY Zenon DEF FirstOf
      <4>2. QED  BY <2>1, <4>1 DEF Changed
    <3>7. Min(bad) \in bad
      BY <3>1, <3>6, LeastNat
    <3>8. result = Refused(db, checks[Min(bad)][2])
      BY <3>6, Zenon DEF FirstOf
    <3>9. result.fault # "TYPE"
      BY <3>5, <3>7, <3>8 DEF Refused
    <3> HIDE DEF result
    <3>10. Suits(result, proc[c].call.reply)
      BY <2>1, <3>9 DEF Suits
    <3>11. QED  BY <1>1, <2>1, <3>10
  <2>2. CASE proc' = [proc EXCEPT ![c].at = IF m \in M_LOCK THEN "checked" ELSE "begun"]
    <3>1. Step(c, {"at"}) /\ proc'[c].at # "answered"
      BY <1>0, <2>2 DEF Step, Shape, ProcFields, Idle
    <3>2. QED  BY <1>0, <3>1, WorkFormed
  <2>3. QED  BY <1>4, <2>1, <2>2, Zenon DEF method_init
<1>5. CASE method_lock(c)
  <2>1. CASE Refuse(c, "MEBUSY")
    BY <1>2, <2>1
  <2>2. CASE proc' = [proc EXCEPT ![c].at = "begun"]
    <3>1. Step(c, {"at"}) /\ proc'[c].at # "answered"
      BY <1>0, <2>2 DEF Step, Shape, ProcFields, Idle
    <3>2. QED  BY <1>0, <3>1, WorkFormed
  <2>3. QED  BY <1>5, <2>1, <2>2, Zenon DEF method_lock
<1>6. CASE Lookup(c)
  <2> DEFINE checked == ConfMethod(Method(c), NoRows, Params(c))
             xid == vxdb_getxid(db, Params(c).name[2])
  <2>1. CASE checked.fault # "none" /\ Refuse(c, checked.fault)
    <3>1. Suits(checked, proc[c].call.reply)
      BY <1>0, <1>6, Zenon DEF CallFits, Lookup, Method, Params
    <3> HIDE DEF checked
    <3>2. checked.fault \notin {"TYPE", "none"}
      BY <2>1, <3>1 DEF Suits
    <3>3. QED  BY <1>2, <2>1, <3>2
  <2>2. CASE Refuse(c, "MENOVPS")
    BY <1>2, <2>2
  <2>3. CASE proc' = [proc EXCEPT ![c].at = "looked", ![c].xid = xid]
    <3> HIDE DEF xid
    <3>1. Step(c, {"at", "xid"}) /\ proc'[c].at # "answered"
      BY <1>0, <2>3 DEF Step, Shape, ProcFields, Idle
    <3>2. QED  BY <1>0, <3>1, WorkFormed
  <2>4. QED  BY <1>6, <2>1, <2>2, <2>3, Zenon DEF Lookup
<1>7. CASE Execute(c)
  <2> DEFINE result == ConfMethod(Method(c), db.conf[proc[c].xid], Params(c))
             r == [fault |-> result.fault, answer |-> result.answer,
                   next |-> [db EXCEPT !.conf[proc[c].xid] = result.next]]
  <2>1. CASE Answer(c, r)
    <3>1. IsConf(proc[c].call.method)
      BY <1>0, <1>7 DEF FlowOK, Execute
    <3>2. Suits(result, proc[c].call.reply)
      BY <1>0, <3>1, Zenon DEF CallFits, Method, Params
    <3> HIDE DEF result
    <3>3. r.fault = result.fault /\ r.answer = result.answer
      OBVIOUS
    <3> HIDE DEF r
    <3>4. Suits(r, proc[c].call.reply)
      BY <3>2, <3>3 DEF Suits
    <3>5. QED  BY <1>1, <2>1, <3>4
  <2>2. CASE Refuse(c, "MEVXDB")
    BY <1>2, <2>2
  <2>3. QED  BY <1>7, <2>1, <2>2, Zenon DEF Execute
<1>8. CASE Body(c)
  <2>1. proc[c].call.method \in OneStep
    BY <1>0, <1>8 DEF Body, FlowOK, OneStep, Method
  <2>2. ASSUME NEW r, NEW n,
               Answer(c, VcdMethod(Method(c), db, Params(c), proc[c].user, r, n))
        PROVE  Formed(proc'[c])
    <3>1. Suits(VcdMethod(Method(c), db, Params(c), proc[c].user, r, n), proc[c].call.reply)
      BY <1>0, <2>1, Zenon DEF CallFits, Method, Params
    <3>2. QED  BY <1>1, <2>2, <3>1
  <2>3. CASE Refuse(c, "MEVXDB")
    BY <1>2, <2>3
  <2>4. QED  BY <1>8, <2>2, <2>3, Zenon DEF Body
<1>9. CASE GroupList(c)
  <2> DEFINE list == vg_list_init(db, Params(c))
             names == {pos.name : pos \in list.answer}
  <2>1. CASE list.fault # "none" /\ Refuse(c, list.fault)
    <3>1. proc[c].call.method \in DOMAIN Inner
      BY <1>9 DEF GroupList, Method
    <3>2. list.fault # "TYPE"
      BY <1>0, <3>1, RegistrySuits DEF CallFits, Params
    <3>3. QED  BY <1>2, <2>1, <3>2
  <2>2. CASE proc' = [proc EXCEPT ![c].at = "looping", ![c].todo = list.answer,
                                  ![c].members = names]
    <3> HIDE DEF list, names
    <3>1. Step(c, {"at", "todo", "members"}) /\ proc'[c].at # "answered"
      BY <1>0, <2>2 DEF Step, Shape, ProcFields, Idle
    <3>2. QED  BY <1>0, <3>1, WorkFormed
  <2>3. QED  BY <1>9, <2>1, <2>2, Zenon DEF GroupList
<1>10. CASE GroupMember(c)
  <2>1. PICK pos \in proc[c].todo, r \in Outcomes :
           LET result == Dealt(pos, Method(c), db, r) IN
           IF result.fault # "none" THEN Answer(c, result)
           ELSE proc' = [proc EXCEPT ![c].todo = @ \ {pos}]
    BY <1>0, <1>10, MemberStep, Zenon
  <2> DEFINE result == Dealt(pos, Method(c), db, r)
  <2>2. proc[c].at = "looping" /\ proc[c].call.method \in DOMAIN Inner /\ proc[c].call.reply = Ignored
    BY <1>0, <1>10 DEF GroupMember, FlowOK, CallFits
  <2>3. CASE result.fault # "none" /\ Answer(c, result)
    <3> DEFINE q == [name |-> S(pos.name)]
    <3>1. Decomposes(q, [name |-> "s"])
      BY DEF Decomposes, S
    <3> HIDE DEF q
    <3>2. Inner[Method(c)] \in {"vx.reboot", "vx.restart", "vx.start", "vx.stop"}
      BY <2>2, InnerIs DEF Method
    <3>3. Suits(VcdMethod(Inner[Method(c)], db, q, "", r, 0), Ignored)
      <4>1. /\ Suits(m_vx_start(db, q, r), Ignored) /\ Suits(m_vx_stop(db, q, r), Ignored)
            /\ Suits(m_vx_restart(db, q, r), Ignored) /\ Suits(m_vx_reboot(db, q, r), Ignored)
        BY <3>1, ContextSuits
      <4>2. \A user : \A m \in {"vx.reboot", "vx.restart", "vx.start", "vx.stop"} :
                Suits(VcdMethod(m, db, q, user, r, 0), Ignored)
        BY <4>1 DEF VcdMethod
      <4>3. QED  BY <3>2, <4>2, Zenon
    <3>4. Suits(result, Ignored)
      BY <3>3, ChangedSuits, Zenon DEF Dealt, q
    <3>5. QED  BY <1>1, <2>2, <2>3, <3>4, Zenon
  <2>4. CASE proc' = [proc EXCEPT ![c].todo = @ \ {pos}]
    <3>1. Step(c, {"todo"}) /\ proc'[c].at = proc[c].at
      BY <1>0, <2>4 DEF Step, Shape, ProcFields, Idle
    <3>2. QED  BY <1>0, <2>2, <3>1, WorkFormed
  <2>5. QED  BY <2>1, <2>3, <2>4, Zenon
<1>11. CASE GroupEnd(c)
  <2>1. Answer(c, Changed(db)) /\ proc[c].call.method \in DOMAIN Inner
    BY <1>0, <1>11 DEF GroupEnd, FlowOK
  <2>2. QED  BY <1>0, <1>1, <2>1, ChangedSuits DEF CallFits
<1>12. QED
  BY <1>3, <1>4, <1>5, <1>6, <1>7, <1>8, <1>9, <1>10, <1>11, Zenon DEF Daemon

LEMMA FormatNext == LockInv /\ PassInv' /\ FormatInv /\ [Next]_vars => FormatInv'
<1> SUFFICES ASSUME LockInv, PassInv', FormatInv, [Next]_vars PROVE FormatInv'
  OBVIOUS
<1>0. Shape /\ Shape' /\ LinesInv' /\ \A c \in Clients : Formed(proc[c])
  BY LinesNext DEF FormatInv, PassInv
<1>1. ASSUME NEW c \in Clients, NEW F, Step(c, F), Formed(proc'[c]) PROVE FormatInv'
  BY <1>0, <1>1 DEF FormatInv, Step
<1>2. CASE proc' = proc
  BY <1>0, <1>2 DEF FormatInv
<1>3. ASSUME NEW c \in Clients, main(c) \/ AskVdir(c) \/ Receive(c) PROVE FormatInv'
  <2>1. \E F : Step(c, F)
    BY <1>0, <1>3, MainStep, AskStep, ReceiveStep
  <2>2. QED  BY <1>1, <1>3, <2>1, ProgramFormed
<1>4. ASSUME NEW c \in Clients, Daemon(c) \/ Lost(c), ~Exit(c) PROVE FormatInv'
  BY <1>0, <1>1, <1>4, DaemonStep, DaemonFormed
<1>5. ASSUME NEW c \in Clients, getopt(c) \/ vxpasswd(c) \/ Exit(c) PROVE FormatInv'
  BY <1>2, <1>5 DEF getopt, vxpasswd, Exit
<1>6. CASE Guest \/ Terminated \/ UNCHANGED vars
  BY <1>2, <1>6 DEF Guest, Terminated, vars
<1>7. QED
  BY <1>3, <1>4, <1>5, <1>6, Zenon DEF Next, Program

LEMMA FormatInvariant == Spec => [](LockInv /\ FormatInv)
<1>1. FormatInv /\ LockInv /\ PassInv' /\ [Next]_vars => FormatInv'
  BY FormatNext
<1>2. QED  BY FormatInit, <1>1, LockInvariant, PTL DEF Spec

(* Every command of vcc, vce, vgc and vcdadm sends parameters that its     *)
(* method decomposes, and decomposes every answer of that method: the      *)
(* formats of the two programs (xmlrpc_decompose_value and client_call)    *)
(* agree for any command line, any database and any outcome in the kernel. *)
THEOREM SameFormatsHolds == Spec => []SameFormats
<1>1. FormatInv => SameFormats
  BY DEF FormatInv, Formed, SameFormats
<1>2. QED  BY <1>1, FormatInvariant, PTL

-----------------------------------------------------------------------------
(* What vce promises: the definitions that VceSpec shares *)

LEMMA BlankSame == Promised!Blank = Blank
  BY Zenon DEF Promised!Blank, Blank

LEMMA ScanSame == \A s, old : Promised!sscanf(s, old) = sscanf(s, old)
  BY Zenon DEF Promised!sscanf, sscanf

(* What is digits is read as a number, and printed as something. *)
LEMMA DigitsRead ==
    ASSUME NEW s, str_isdigit(s)
    PROVE  /\ s \in DOMAIN Numerals /\ s # Blank
           /\ Numerals[s] \in Nat /\ ToString(Numerals[s]) # Blank
           /\ Promised!sscanf(s, 0) = Numerals[s]
<1>1. s \in Digits
  BY DEF str_isdigit
<1>2. s \in DOMAIN Numerals /\ s # Blank /\ ToString(Numerals[s]) # Blank /\ Numerals[s] \in Nat
  BY <1>1, NumeralAssumption
<1>3. Promised!sscanf(s, 0) = Numerals[s]
  BY <1>2, Zenon DEF Promised!sscanf
<1>4. QED  BY <1>2, <1>3

LEMMA MeaningIs ==
    /\ \A cmd \in {"dx.limit.get", "dx.limit.remove", "dx.limit.set"} :
          Promised!Meaning(cmd) = "dx_limit"
    /\ \A cmd \in {"init.get", "init.set"} : Promised!Meaning(cmd) = "init"
    /\ \A cmd \in {"mount.get", "mount.remove", "mount.set"} : Promised!Meaning(cmd) = "mount"
    /\ \A cmd \in {"nx.addr.get", "nx.addr.remove", "nx.addr.set"} :
          Promised!Meaning(cmd) = "nx_addr"
    /\ \A cmd \in {"nx.broadcast.get", "nx.broadcast.remove", "nx.broadcast.set"} :
          Promised!Meaning(cmd) = "nx_broadcast"
    /\ \A cmd \in {"vx.bcaps.get", "vx.bcaps.remove", "vx.bcaps.add"} :
          Promised!Meaning(cmd) = "vx_bcaps"
    /\ \A cmd \in {"vx.ccaps.get", "vx.ccaps.remove", "vx.ccaps.add"} :
          Promised!Meaning(cmd) = "vx_ccaps"
    /\ \A cmd \in {"vx.flags.get", "vx.flags.remove", "vx.flags.add"} :
          Promised!Meaning(cmd) = "vx_flags"
    /\ \A cmd \in {"vx.cpuset.get", "vx.cpuset.remove", "vx.cpuset.set"} :
          Promised!Meaning(cmd) = "vx_cpuset"
    /\ \A cmd \in {"vx.limit.get", "vx.limit.remove", "vx.limit.set"} :
          Promised!Meaning(cmd) = "vx_limit"
    /\ \A cmd \in {"vx.sched.get", "vx.sched.remove", "vx.sched.set"} :
          Promised!Meaning(cmd) = "vx_sched"
    /\ \A cmd \in {"vx.uname.get", "vx.uname.remove", "vx.uname.set"} :
          Promised!Meaning(cmd) = "vx_uname"
<1>1. \A cmd \in {"dx.limit.get", "dx.limit.remove", "dx.limit.set"} :
          Promised!Meaning(cmd) = "dx_limit"
  BY DEF Promised!Meaning, Promised!CommandsOn
<1>2. \A cmd \in {"init.get", "init.set"} : Promised!Meaning(cmd) = "init"
  BY DEF Promised!Meaning, Promised!CommandsOn
<1>3. \A cmd \in {"mount.get", "mount.remove", "mount.set"} : Promised!Meaning(cmd) = "mount"
  BY DEF Promised!Meaning, Promised!CommandsOn
<1>4. \A cmd \in {"nx.addr.get", "nx.addr.remove", "nx.addr.set"} :
          Promised!Meaning(cmd) = "nx_addr"
  BY DEF Promised!Meaning, Promised!CommandsOn
<1>5. \A cmd \in {"nx.broadcast.get", "nx.broadcast.remove", "nx.broadcast.set"} :
          Promised!Meaning(cmd) = "nx_broadcast"
  BY DEF Promised!Meaning, Promised!CommandsOn
<1>6. \A cmd \in {"vx.bcaps.get", "vx.bcaps.remove", "vx.bcaps.add"} :
          Promised!Meaning(cmd) = "vx_bcaps"
  BY DEF Promised!Meaning, Promised!CommandsOn
<1>7. \A cmd \in {"vx.ccaps.get", "vx.ccaps.remove", "vx.ccaps.add"} :
          Promised!Meaning(cmd) = "vx_ccaps"
  BY DEF Promised!Meaning, Promised!CommandsOn
<1>8. \A cmd \in {"vx.flags.get", "vx.flags.remove", "vx.flags.add"} :
          Promised!Meaning(cmd) = "vx_flags"
  BY DEF Promised!Meaning, Promised!CommandsOn
<1>9. \A cmd \in {"vx.cpuset.get", "vx.cpuset.remove", "vx.cpuset.set"} :
          Promised!Meaning(cmd) = "vx_cpuset"
  BY DEF Promised!Meaning, Promised!CommandsOn
<1>10. \A cmd \in {"vx.limit.get", "vx.limit.remove", "vx.limit.set"} :
          Promised!Meaning(cmd) = "vx_limit"
  BY DEF Promised!Meaning, Promised!CommandsOn
<1>11. \A cmd \in {"vx.sched.get", "vx.sched.remove", "vx.sched.set"} :
          Promised!Meaning(cmd) = "vx_sched"
  BY DEF Promised!Meaning, Promised!CommandsOn
<1>12. \A cmd \in {"vx.uname.get", "vx.uname.remove", "vx.uname.set"} :
          Promised!Meaning(cmd) = "vx_uname"
  BY DEF Promised!Meaning, Promised!CommandsOn
<1>13. QED
  BY <1>1, <1>2, <1>3, <1>4, <1>5, <1>6, <1>7, <1>8, <1>9, <1>10, <1>11, <1>12, Zenon

-----------------------------------------------------------------------------
(* What is printed of an answer *)

Plain(m, format) == DOMAIN m = DOMAIN format /\ {"running", "uptime"} \cap DOMAIN m = {}

LEMMA PrintedOne ==
    ASSUME NEW format, NEW unless, NEW m, Plain(m, format)
    PROVE  Printed(Record(format, unless), Struct(m)) =
              IF unless # Blank /\ m[unless] = S(Blank) THEN {} ELSE {Fields(m)}
<1>1. [f \in IF "running" \in DOMAIN m /\ m["running"][2] = 0 THEN {"running"} ELSE DOMAIN format
         |-> IF f = "uptime" THEN pretty_uptime(m[f][2]) ELSE m[f][2]] = Fields(m)
  BY DEF Plain, Fields
<1>2. QED  BY <1>1 DEF Printed, Record, Struct

LEMMA PrintedItems ==
    ASSUME NEW format, NEW T, \A m \in T : Plain(m, format)
    PROVE  Printed(Records(format), Array({Struct(m) : m \in T})) = {Fields(m) : m \in T}
<1> DEFINE Line(m) ==
       [f \in IF "running" \in DOMAIN m /\ m["running"][2] = 0 THEN {"running"} ELSE DOMAIN format
         |-> IF f = "uptime" THEN pretty_uptime(m[f][2]) ELSE m[f][2]]
<1>1. \A m \in T : Line(m) = Fields(m)
  BY DEF Plain, Fields
<1>2. Printed(Records(format), Array({Struct(m) : m \in T}))
         = {Line(i[2]) : i \in {Struct(m) : m \in T}}
  BY DEF Printed, Records, Array
<1> HIDE DEF Line
<1>3. {Line(i[2]) : i \in {Struct(m) : m \in T}} = {Line(m) : m \in T}
  <2>1. \A m : Struct(m)[2] = m
    BY DEF Struct
  <2> HIDE DEF Struct
  <2>2. QED  BY <2>1, Zenon
<1>4. QED  BY <1>1, <1>2, <1>3

LEMMA PrintedTexts ==
    ASSUME NEW T PROVE Printed(TextArray, Array({S(t) : t \in T})) = T
<1>1. Printed(TextArray, Array({S(t) : t \in T})) = {i[2] : i \in {S(t) : t \in T}}
  BY DEF Printed, TextArray, Array
<1>2. \A t : S(t)[2] = t
  BY DEF S
<1> HIDE DEF S
<1>3. {i[2] : i \in {S(t) : t \in T}} = T
  BY <1>2, SMTT(30)
<1>4. QED  BY <1>1, <1>3, Zenon

LEMMA PrintedText ==
    ASSUME NEW v PROVE Printed(Text, S(v)) = IF v = Blank THEN {} ELSE {v}
  BY DEF Printed, Text, S

-----------------------------------------------------------------------------
(* The line of a row, table by table *)

DxLine(r) ==
    [space |-> ToString(r.space), inodes |-> ToString(r.inodes), reserved |-> r.reserved]
InitLine(r) == [init |-> r.init, halt |-> r.halt, reboot |-> r.reboot, timeout |-> r.timeout]
MountLine(k, r) == [src |-> r.src, dst |-> k, type |-> r.type, opts |-> r.opts]
AddrLine(k, r) == [addr |-> k, netmask |-> r]
CpusetLine(r) == [cpus |-> r.cpus, mems |-> r.mems, virtualize |-> r.virtualize]
Unit(k, n) == IF k \in LIMTYPE THEN pagestobytes(n) ELSE n
LimitLine(k, r) ==
    [type |-> k, soft |-> ToString(Unit(k, r.soft)), max |-> ToString(Unit(k, r.max))]
SchedLine(k, r) == [f \in Bucket \cup {"cpuid"} |-> IF f = "cpuid" THEN k ELSE r[f]]
UnameLine(k, r) == [type |-> k, value |-> r]

(* The rows that a get or remove method is about. *)
Chosen(rows, k, all) == IF k = all THEN DOMAIN rows ELSE {k} \cap DOMAIN rows

DxReply == Record([space |-> "s", inodes |-> "s", reserved |-> "i"], "space")
InitReply == Record([init |-> "s", halt |-> "s", reboot |-> "s", timeout |-> "i"], Blank)
MountReply == Records(Strings({"src", "dst", "type", "opts"}))
AddrReply == Records(Strings({"addr", "netmask"}))
CpusetReply == Record([cpus |-> "s", mems |-> "s", virtualize |-> "i"], "cpus")
LimitReply == Records(Strings({"type", "soft", "max"}))
SchedReply == Records(Ints({"cpuid", "interval", "fillrate", "interval2", "fillrate2",
                            "tokensmin", "tokensmax"}))
UnameReply == Records(Strings({"type", "value"}))
DefaultInit == [init |-> "/sbin/init", halt |-> "/sbin/halt", reboot |-> "/sbin/reboot",
                timeout |-> 15]

LEMMA DxPrinted ==
    ASSUME NEW c, NEW q, Decomposes(q, [name |-> "s"]), DOMAIN c.dx_limit \subseteq {"xid"},
           \A k \in DOMAIN c.dx_limit : ToString(c.dx_limit[k].space) # Blank
    PROVE  /\ m_vxdb_dx_limit_get(c, q).fault = "none"
           /\ Printed(DxReply, m_vxdb_dx_limit_get(c, q).answer)
                = {DxLine(c.dx_limit[k]) : k \in DOMAIN c.dx_limit}
<1> DEFINE r == c.dx_limit["xid"]
           none == DOMAIN c.dx_limit = {}
           m == IF none THEN [space |-> S(Blank), inodes |-> S(Blank), reserved |-> I(0)]
                ELSE [space |-> S(ToString(r.space)), inodes |-> S(ToString(r.inodes)),
                      reserved |-> I(r.reserved)]
<1>1. m_vxdb_dx_limit_get(c, q) = Answered(c, Struct(m))
  BY DEF m_vxdb_dx_limit_get, Checked
<1>2. DOMAIN m = {"space", "inodes", "reserved"}
  OBVIOUS
<1>3. "space" # Blank
  BY Zenon DEF Blank
<1>4. Printed(DxReply, Struct(m)) = IF m.space = S(Blank) THEN {} ELSE {Fields(m)}
  <2> HIDE DEF m
  <2>1. Plain(m, [space |-> "s", inodes |-> "s", reserved |-> "i"])
    BY <1>2 DEF Plain
  <2>2. QED  BY <1>3, <2>1, PrintedOne DEF DxReply
<1>5. CASE none
  <2>1. m.space = S(Blank)
    BY <1>5
  <2>2. QED  BY <1>1, <1>4, <1>5, <2>1 DEF Answered
<1>6. CASE ~none
  <2>1. DOMAIN c.dx_limit = {"xid"}
    BY <1>6
  <2>2. m.space = S(ToString(r.space)) /\ ToString(r.space) # Blank
    BY <1>6, <2>1
  <2>3. m.space # S(Blank)
    BY <2>2 DEF S
  <2>4. Fields(m) = DxLine(r)
    BY <1>6 DEF Fields, DxLine, S, I
  <2>5. {DxLine(c.dx_limit[k]) : k \in DOMAIN c.dx_limit} = {DxLine(r)}
    BY <2>1
  <2>6. QED  BY <1>1, <1>4, <2>3, <2>4, <2>5 DEF Answered
<1>7. QED  BY <1>5, <1>6

LEMMA InitPrinted ==
    ASSUME NEW c, NEW q, Decomposes(q, [name |-> "s"]), DOMAIN c.init \subseteq {"xid"}
    PROVE  /\ m_vxdb_init_get(c, q).fault = "none"
           /\ Printed(InitReply, m_vxdb_init_get(c, q).answer)
                = IF DOMAIN c.init = {} THEN {DefaultInit}
                  ELSE {InitLine(c.init[k]) : k \in DOMAIN c.init}
<1> DEFINE r == IF DOMAIN c.init # {} THEN c.init["xid"] ELSE DefaultInit
           m == [init |-> S(r.init), halt |-> S(r.halt), reboot |-> S(r.reboot),
                 timeout |-> I(r.timeout)]
<1>1. m_vxdb_init_get(c, q) = Answered(c, Struct(m))
  BY DEF m_vxdb_init_get, Checked, DefaultInit
<1>2. Plain(m, [init |-> "s", halt |-> "s", reboot |-> "s", timeout |-> "i"])
  BY DEF Plain
<1>3. Printed(InitReply, Struct(m)) = {Fields(m)}
  BY <1>2, PrintedOne DEF InitReply
<1>4. Fields(m) = InitLine(r)
  BY DEF Fields, InitLine, S, I
<1>5. InitLine(DefaultInit) = DefaultInit
  BY DEF InitLine, DefaultInit
<1> HIDE DEF m
<1>6. {InitLine(r)} = IF DOMAIN c.init = {} THEN {DefaultInit}
                      ELSE {InitLine(c.init[k]) : k \in DOMAIN c.init}
  <2>1. CASE DOMAIN c.init = {}
    BY <1>5, <2>1
  <2>2. CASE DOMAIN c.init # {}
    <3>1. DOMAIN c.init = {"xid"}
      BY <2>2
    <3>2. QED  BY <3>1
  <2>3. QED  BY <2>1, <2>2
<1>7. QED  BY <1>1, <1>3, <1>4, <1>6 DEF Answered

LEMMA CpusetPrinted ==
    ASSUME NEW c, NEW q, Decomposes(q, [name |-> "s"]), DOMAIN c.vx_cpuset \subseteq {"xid"},
           \A k \in DOMAIN c.vx_cpuset : c.vx_cpuset[k].cpus # Blank
    PROVE  /\ m_vxdb_vx_cpuset_get(c, q).fault = "none"
           /\ Printed(CpusetReply, m_vxdb_vx_cpuset_get(c, q).answer)
                = {CpusetLine(c.vx_cpuset[k]) : k \in DOMAIN c.vx_cpuset}
<1> DEFINE none == DOMAIN c.vx_cpuset = {}
           r == IF none THEN [cpus |-> Blank, mems |-> Blank, virtualize |-> 0]
                ELSE c.vx_cpuset["xid"]
           m == [cpus |-> S(r.cpus), mems |-> S(r.mems), virtualize |-> I(r.virtualize)]
<1>1. m_vxdb_vx_cpuset_get(c, q) = Answered(c, Struct(m))
  BY DEF m_vxdb_vx_cpuset_get, Checked
<1>2. Plain(m, [cpus |-> "s", mems |-> "s", virtualize |-> "i"])
  BY DEF Plain
<1>3. "cpus" # Blank
  BY Zenon DEF Blank
<1>4. Printed(CpusetReply, Struct(m)) = IF m.cpus = S(Blank) THEN {} ELSE {Fields(m)}
  BY <1>2, <1>3, PrintedOne DEF CpusetReply
<1>5. Fields(m) = CpusetLine(r)
  BY DEF Fields, CpusetLine, S, I
<1>6. m.cpus = S(Blank) <=> r.cpus = Blank
  BY DEF S
<1> HIDE DEF m
<1>7. CASE none
  BY <1>1, <1>4, <1>6, <1>7 DEF Answered
<1>8. CASE ~none
  <2>1. DOMAIN c.vx_cpuset = {"xid"}
    BY <1>8
  <2>2. r = c.vx_cpuset["xid"] /\ r.cpus # Blank
    BY <1>8, <2>1
  <2>3. {CpusetLine(c.vx_cpuset[k]) : k \in DOMAIN c.vx_cpuset} = {CpusetLine(r)}
    BY <2>1, <2>2
  <2> HIDE DEF r
  <2>4. QED  BY <1>1, <1>4, <1>5, <1>6, <2>2, <2>3 DEF Answered
<1>9. QED  BY <1>7, <1>8

LEMMA BroadcastPrinted ==
    ASSUME NEW c, NEW q, Decomposes(q, [name |-> "s"]), DOMAIN c.nx_broadcast \subseteq {"xid"},
           \A k \in DOMAIN c.nx_broadcast : c.nx_broadcast[k] # Blank
    PROVE  /\ m_vxdb_nx_broadcast_get(c, q).fault = "none"
           /\ Printed(Text, m_vxdb_nx_broadcast_get(c, q).answer)
                = {c.nx_broadcast[k] : k \in DOMAIN c.nx_broadcast}
<1> DEFINE none == DOMAIN c.nx_broadcast = {}
           v == IF none THEN Blank ELSE c.nx_broadcast["xid"]
<1>1. m_vxdb_nx_broadcast_get(c, q) = Answered(c, S(v))
  BY DEF m_vxdb_nx_broadcast_get, Checked
<1>2. Printed(Text, S(v)) = IF v = Blank THEN {} ELSE {v}
  BY PrintedText
<1>3. CASE none
  BY <1>1, <1>2, <1>3 DEF Answered
<1>4. CASE ~none
  <2>1. DOMAIN c.nx_broadcast = {"xid"}
    BY <1>4
  <2>2. v = c.nx_broadcast["xid"] /\ v # Blank
    BY <1>4, <2>1
  <2>3. {c.nx_broadcast[k] : k \in DOMAIN c.nx_broadcast} = {v}
    BY <2>1, <2>2
  <2> HIDE DEF v
  <2>4. QED  BY <1>1, <1>2, <2>2, <2>3 DEF Answered
<1>5. QED  BY <1>3, <1>4

LEMMA FlagsPrinted ==
    ASSUME NEW c, NEW q, Decomposes(q, [name |-> "s"])
    PROVE  /\ m_vxdb_vx_bcaps_get(c, q).fault = "none"
           /\ Printed(TextArray, m_vxdb_vx_bcaps_get(c, q).answer) = DOMAIN c.vx_bcaps
           /\ m_vxdb_vx_ccaps_get(c, q).fault = "none"
           /\ Printed(TextArray, m_vxdb_vx_ccaps_get(c, q).answer) = DOMAIN c.vx_ccaps
           /\ m_vxdb_vx_flags_get(c, q).fault = "none"
           /\ Printed(TextArray, m_vxdb_vx_flags_get(c, q).answer) = DOMAIN c.vx_flags
<1>1. m_vxdb_vx_bcaps_get(c, q) = Answered(c, Array({S(f) : f \in DOMAIN c.vx_bcaps}))
  BY DEF m_vxdb_vx_bcaps_get, Checked
<1>2. m_vxdb_vx_ccaps_get(c, q) = Answered(c, Array({S(f) : f \in DOMAIN c.vx_ccaps}))
  BY DEF m_vxdb_vx_ccaps_get, Checked
<1>3. m_vxdb_vx_flags_get(c, q) = Answered(c, Array({S(f) : f \in DOMAIN c.vx_flags}))
  BY DEF m_vxdb_vx_flags_get, Checked
<1>4. QED  BY <1>1, <1>2, <1>3, PrintedTexts DEF Answered

(* An array of structures, one for each key. *)
Items(K, f) == Array({Struct(f[k]) : k \in K})
Values(K, g) == {g[k] : k \in K}

LEMMA PrintedRows ==
    ASSUME NEW format, NEW K, NEW f, NEW g,
           \A k \in K : Plain(f[k], format) /\ Fields(f[k]) = g[k]
    PROVE  Printed(Records(format), Items(K, f)) = Values(K, g)
<1> DEFINE T == {f[k] : k \in K}
<1>1. \A m \in T : Plain(m, format)
  OBVIOUS
<1>2. {Struct(f[k]) : k \in K} = {Struct(m) : m \in T}
  BY Zenon
<1>3. {Fields(m) : m \in T} = {g[k] : k \in K}
  <2>1. {Fields(m) : m \in T} = {Fields(f[k]) : k \in K}
    BY Zenon
  <2>2. QED  BY <2>1
<1>4. Items(K, f) = Array({Struct(m) : m \in T})
  BY <1>2, Zenon DEF Items
<1> HIDE DEF T
<1>5. Printed(Records(format), Array({Struct(m) : m \in T})) = {Fields(m) : m \in T}
  BY <1>1, PrintedItems
<1>6. QED  BY <1>3, <1>4, <1>5 DEF Values

LEMMA MountPrinted ==
    ASSUME NEW c, NEW q, Decomposes(q, [name |-> "s", dst |-> "s"]),
           m_vxdb_mount_get(c, q).fault = "none"
    PROVE  Printed(MountReply, m_vxdb_mount_get(c, q).answer)
             = {MountLine(k, c.mount[k]) : k \in Chosen(c.mount, q.dst[2], Blank)}
<1> DEFINE K == Chosen(c.mount, q.dst[2], Blank)
           f == [d \in K |-> [src  |-> S(c.mount[d].src),  dst  |-> S(d),
                              type |-> S(c.mount[d].type), opts |-> S(c.mount[d].opts)]]
           g == [d \in K |-> MountLine(d, c.mount[d])]
<1>1. Fields(q).dst = q.dst[2]
  BY DEF Fields, Decomposes
<1>2. OneOrAll(c, "mount", q.dst[2], Blank) = K
  BY DEF OneOrAll, Chosen
<1>3. m_vxdb_mount_get(c, q).answer = Array({Struct(f[d]) : d \in K})
  <2>1. \A d \in K : f[d] = [src  |-> S(c.mount[d].src),  dst  |-> S(d),
                             type |-> S(c.mount[d].type), opts |-> S(c.mount[d].opts)]
    BY Zenon
  <2>2. {Struct([src  |-> S(c.mount[d].src),  dst  |-> S(d), type |-> S(c.mount[d].type),
                 opts |-> S(c.mount[d].opts)]) : d \in K} = {Struct(f[d]) : d \in K}
    BY <2>1, Zenon
  <2> HIDE DEF f, K
  <2>3. QED  BY <1>1, <1>2, <2>2 DEF m_vxdb_mount_get, Checked, Refused, Answered
<1>4. \A d \in K : Plain(f[d], Strings({"src", "dst", "type", "opts"})) /\ Fields(f[d]) = g[d]
  <2> SUFFICES ASSUME NEW d \in K
               PROVE  Plain(f[d], Strings({"src", "dst", "type", "opts"})) /\ Fields(f[d]) = g[d]
    OBVIOUS
  <2>1. f[d] = [src  |-> S(c.mount[d].src),  dst  |-> S(d),
                type |-> S(c.mount[d].type), opts |-> S(c.mount[d].opts)]
    BY Zenon
  <2>2. g[d] = MountLine(d, c.mount[d])
    BY Zenon
  <2> HIDE DEF f, g, K
  <2>3. QED  BY <2>1, <2>2 DEF Plain, Strings, Fields, MountLine, S
<1>5. {g[d] : d \in K} = {MountLine(d, c.mount[d]) : d \in K}
  <2>1. \A d \in K : g[d] = MountLine(d, c.mount[d])
    BY Zenon
  <2>2. QED  BY <2>1, Zenon
<1> HIDE DEF f, g, K
<1>6. Printed(MountReply, Items(K, f)) = Values(K, g)
  BY <1>4, PrintedRows DEF MountReply
<1>7. QED  BY <1>3, <1>5, <1>6 DEF K, Items, Values

LEMMA AddrPrinted ==
    ASSUME NEW c, NEW q, Decomposes(q, [name |-> "s", addr |-> "s"]),
           m_vxdb_nx_addr_get(c, q).fault = "none"
    PROVE  Printed(AddrReply, m_vxdb_nx_addr_get(c, q).answer)
             = {AddrLine(k, c.nx_addr[k]) : k \in Chosen(c.nx_addr, q.addr[2], Blank)}
<1> DEFINE K == Chosen(c.nx_addr, q.addr[2], Blank)
           f == [k \in K |-> [addr |-> S(k), netmask |-> S(c.nx_addr[k])]]
           g == [k \in K |-> AddrLine(k, c.nx_addr[k])]
<1>1. Fields(q).addr = q.addr[2]
  BY DEF Fields, Decomposes
<1>2. OneOrAll(c, "nx_addr", q.addr[2], Blank) = K
  BY DEF OneOrAll, Chosen
<1>3. m_vxdb_nx_addr_get(c, q).answer = Array({Struct(f[k]) : k \in K})
  <2>1. \A k \in K : f[k] = [addr |-> S(k), netmask |-> S(c.nx_addr[k])]
    BY Zenon
  <2>2. {Struct([addr |-> S(k), netmask |-> S(c.nx_addr[k])]) : k \in K}
          = {Struct(f[k]) : k \in K}
    BY <2>1, Zenon
  <2> HIDE DEF f, K
  <2>3. QED  BY <1>1, <1>2, <2>2 DEF m_vxdb_nx_addr_get, Checked, Refused, Answered
<1>4. \A k \in K : Plain(f[k], Strings({"addr", "netmask"})) /\ Fields(f[k]) = g[k]
  <2> SUFFICES ASSUME NEW k \in K
               PROVE  Plain(f[k], Strings({"addr", "netmask"})) /\ Fields(f[k]) = g[k]
    OBVIOUS
  <2>1. f[k] = [addr |-> S(k), netmask |-> S(c.nx_addr[k])]
    BY Zenon
  <2>2. g[k] = AddrLine(k, c.nx_addr[k])
    BY Zenon
  <2> HIDE DEF f, g, K
  <2>3. QED  BY <2>1, <2>2 DEF Plain, Strings, Fields, AddrLine, S
<1>5. {g[k] : k \in K} = {AddrLine(k, c.nx_addr[k]) : k \in K}
  <2>1. \A k \in K : g[k] = AddrLine(k, c.nx_addr[k])
    BY Zenon
  <2>2. QED  BY <2>1, Zenon
<1> HIDE DEF f, g, K
<1>6. Printed(AddrReply, Items(K, f)) = Values(K, g)
  BY <1>4, PrintedRows DEF AddrReply
<1>7. QED  BY <1>3, <1>5, <1>6 DEF K, Items, Values

LEMMA LimitPrinted ==
    ASSUME NEW c, NEW q, Decomposes(q, [name |-> "s", type |-> "s"]),
           m_vxdb_vx_limit_get(c, q).fault = "none"
    PROVE  Printed(LimitReply, m_vxdb_vx_limit_get(c, q).answer)
             = {LimitLine(k, c.vx_limit[k]) : k \in Chosen(c.vx_limit, q.type[2], Blank)}
<1> DEFINE K == Chosen(c.vx_limit, q.type[2], Blank)
           f == [k \in K |-> [type |-> S(k), soft |-> S(ToString(ShownLimit(c, k).soft)),
                 max |-> S(ToString(ShownLimit(c, k).max))]]
           g == [k \in K |-> LimitLine(k, c.vx_limit[k])]
<1>1. Fields(q).type = q.type[2]
  BY DEF Fields, Decomposes
<1>2. OneOrAll(c, "vx_limit", q.type[2], Blank) = K
  BY DEF OneOrAll, Chosen
<1>3. m_vxdb_vx_limit_get(c, q).answer = Array({Struct(f[k]) : k \in K})
  <2>1. \A k \in K : f[k] = [type |-> S(k), soft |-> S(ToString(ShownLimit(c, k).soft)),
                 max |-> S(ToString(ShownLimit(c, k).max))]
    BY Zenon
  <2>2. {Struct([type |-> S(k), soft |-> S(ToString(ShownLimit(c, k).soft)),
                 max |-> S(ToString(ShownLimit(c, k).max))]) : k \in K}
          = {Struct(f[k]) : k \in K}
    BY <2>1, Zenon
  <2> HIDE DEF f, K
  <2>3. QED  BY <1>1, <1>2, <2>2 DEF m_vxdb_vx_limit_get, Checked, Refused, Answered
<1>4. \A k \in K : Plain(f[k], Strings({"type", "soft", "max"})) /\ Fields(f[k]) = g[k]
  <2> SUFFICES ASSUME NEW k \in K
               PROVE  Plain(f[k], Strings({"type", "soft", "max"})) /\ Fields(f[k]) = g[k]
    OBVIOUS
  <2>1. f[k] = [type |-> S(k), soft |-> S(ToString(ShownLimit(c, k).soft)),
                 max |-> S(ToString(ShownLimit(c, k).max))]
    BY Zenon
  <2>2. g[k] = LimitLine(k, c.vx_limit[k])
    BY Zenon
  <2> HIDE DEF f, g, K
  <2>3. QED  BY <2>1, <2>2 DEF Plain, Strings, Fields, LimitLine, Unit, ShownLimit, S
<1>5. {g[k] : k \in K} = {LimitLine(k, c.vx_limit[k]) : k \in K}
  <2>1. \A k \in K : g[k] = LimitLine(k, c.vx_limit[k])
    BY Zenon
  <2>2. QED  BY <2>1, Zenon
<1> HIDE DEF f, g, K
<1>6. Printed(LimitReply, Items(K, f)) = Values(K, g)
  BY <1>4, PrintedRows DEF LimitReply
<1>7. QED  BY <1>3, <1>5, <1>6 DEF K, Items, Values

LEMMA SchedPrinted ==
    ASSUME NEW c, NEW q, Decomposes(q, [name |-> "s", cpuid |-> "i"]),
           m_vxdb_vx_sched_get(c, q).fault = "none"
    PROVE  Printed(SchedReply, m_vxdb_vx_sched_get(c, q).answer)
             = {SchedLine(k, c.vx_sched[k]) : k \in Chosen(c.vx_sched, q.cpuid[2], -2)}
<1> DEFINE K == Chosen(c.vx_sched, q.cpuid[2], -2)
           f == [k \in K |-> [x \in Bucket \cup {"cpuid"} |->
                    I(IF x = "cpuid" THEN k ELSE c.vx_sched[k][x])]]
           g == [k \in K |-> SchedLine(k, c.vx_sched[k])]
<1>1. Fields(q).cpuid = q.cpuid[2]
  BY DEF Fields, Decomposes
<1>2. OneOrAll(c, "vx_sched", q.cpuid[2], -2) = K
  BY DEF OneOrAll, Chosen
<1>3. m_vxdb_vx_sched_get(c, q).answer = Array({Struct(f[k]) : k \in K})
  <2>1. \A k \in K : f[k] = [x \in Bucket \cup {"cpuid"} |->
                    I(IF x = "cpuid" THEN k ELSE c.vx_sched[k][x])]
    BY Zenon
  <2>2. {Struct([x \in Bucket \cup {"cpuid"} |->
                    I(IF x = "cpuid" THEN k ELSE c.vx_sched[k][x])]) : k \in K}
          = {Struct(f[k]) : k \in K}
    BY <2>1, Zenon
  <2> HIDE DEF f, K
  <2>3. QED  BY <1>1, <1>2, <2>2 DEF m_vxdb_vx_sched_get, Checked, Refused, Answered
<1>4. \A k \in K : Plain(f[k], Ints({"cpuid", "interval", "fillrate", "interval2", "fillrate2",
                "tokensmin", "tokensmax"})) /\ Fields(f[k]) = g[k]
  <2> SUFFICES ASSUME NEW k \in K
               PROVE  Plain(f[k], Ints({"cpuid", "interval", "fillrate", "interval2", "fillrate2",
                "tokensmin", "tokensmax"})) /\ Fields(f[k]) = g[k]
    OBVIOUS
  <2>1. f[k] = [x \in Bucket \cup {"cpuid"} |->
                    I(IF x = "cpuid" THEN k ELSE c.vx_sched[k][x])]
    BY Zenon
  <2>2. g[k] = SchedLine(k, c.vx_sched[k])
    BY Zenon
  <2> HIDE DEF f, g, K
  <2>3. QED  BY <2>1, <2>2 DEF Plain, Ints, Fields, SchedLine, Bucket, I
<1>5. {g[k] : k \in K} = {SchedLine(k, c.vx_sched[k]) : k \in K}
  <2>1. \A k \in K : g[k] = SchedLine(k, c.vx_sched[k])
    BY Zenon
  <2>2. QED  BY <2>1, Zenon
<1> HIDE DEF f, g, K
<1>6. Printed(SchedReply, Items(K, f)) = Values(K, g)
  BY <1>4, PrintedRows DEF SchedReply
<1>7. QED  BY <1>3, <1>5, <1>6 DEF K, Items, Values

LEMMA UnamePrinted ==
    ASSUME NEW c, NEW q, Decomposes(q, [name |-> "s", type |-> "s"]),
           m_vxdb_vx_uname_get(c, q).fault = "none"
    PROVE  Printed(UnameReply, m_vxdb_vx_uname_get(c, q).answer)
             = {UnameLine(k, c.vx_uname[k]) : k \in Chosen(c.vx_uname, q.type[2], Blank)}
<1> DEFINE K == Chosen(c.vx_uname, q.type[2], Blank)
           f == [k \in K |-> [type |-> S(k), value |-> S(c.vx_uname[k])]]
           g == [k \in K |-> UnameLine(k, c.vx_uname[k])]
<1>1. Fields(q).type = q.type[2]
  BY DEF Fields, Decomposes
<1>2. OneOrAll(c, "vx_uname", q.type[2], Blank) = K
  BY DEF OneOrAll, Chosen
<1>3. m_vxdb_vx_uname_get(c, q).answer = Array({Struct(f[k]) : k \in K})
  <2>1. \A k \in K : f[k] = [type |-> S(k), value |-> S(c.vx_uname[k])]
    BY Zenon
  <2>2. {Struct([type |-> S(k), value |-> S(c.vx_uname[k])]) : k \in K}
          = {Struct(f[k]) : k \in K}
    BY <2>1, Zenon
  <2> HIDE DEF f, K
  <2>3. QED  BY <1>1, <1>2, <2>2 DEF m_vxdb_vx_uname_get, Checked, Refused, Answered
<1>4. \A k \in K : Plain(f[k], Strings({"type", "value"})) /\ Fields(f[k]) = g[k]
  <2> SUFFICES ASSUME NEW k \in K
               PROVE  Plain(f[k], Strings({"type", "value"})) /\ Fields(f[k]) = g[k]
    OBVIOUS
  <2>1. f[k] = [type |-> S(k), value |-> S(c.vx_uname[k])]
    BY Zenon
  <2>2. g[k] = UnameLine(k, c.vx_uname[k])
    BY Zenon
  <2> HIDE DEF f, g, K
  <2>3. QED  BY <2>1, <2>2 DEF Plain, Strings, Fields, UnameLine, S
<1>5. {g[k] : k \in K} = {UnameLine(k, c.vx_uname[k]) : k \in K}
  <2>1. \A k \in K : g[k] = UnameLine(k, c.vx_uname[k])
    BY Zenon
  <2>2. QED  BY <2>1, Zenon
<1> HIDE DEF f, g, K
<1>6. Printed(UnameReply, Items(K, f)) = Values(K, g)
  BY <1>4, PrintedRows DEF UnameReply
<1>7. QED  BY <1>3, <1>5, <1>6 DEF K, Items, Values

-----------------------------------------------------------------------------
(* RowLine is that line *)

LEMMA ChosenOne ==
    ASSUME NEW x, NEW T, T = {x} PROVE (CHOOSE l \in T : TRUE) = x
  OBVIOUS

LEMMA TheNames ==
    ASSUME NEW method, NEW reply
    PROVE  ByName(<<"name">>, method, reply)
                = [method |-> method, params |-> [name |-> S("name")], reply |-> reply]
<1>1. Len(<<"name">>) = 1 /\ <<"name">>[1] = "name"
  OBVIOUS
<1>2. QED  BY <1>1 DEF ByName, Call

(* A call with a name and one other parameter, which is missing. *)
OfAll(call, method, field, reply) ==
    /\ call.method = method /\ call.reply = reply
    /\ DOMAIN call.params = {"name", field}
    /\ call.params["name"] = S("name") /\ call.params[field] = S(Blank)

LEMMA TheNamesAnd ==
    ASSUME NEW method, NEW field, NEW reply, field # "name"
    PROVE  OfAll(ByNameAnd(<<"name">>, method, field, reply), method, field, reply)
<1>1. Len(<<"name">>) = 1 /\ <<"name">>[1] = "name"
  OBVIOUS
<1>2. Arg(<<"name">>, 2, Blank) = Blank
  BY <1>1 DEF Arg
<1>3. QED  BY <1>1, <1>2 DEF ByNameAnd, Call, OfAll

LEMMA DxRowLine ==
    ASSUME NEW k, NEW row, k = "xid", ToString(row.space) # Blank
    PROVE  RowLine("dx_limit", k, row) = DxLine(row)
<1> DEFINE c == [NoRows EXCEPT !["dx_limit"] = [x \in {k} |-> row]]
           q == GetCall["dx_limit"].params
           answer == m_vxdb_dx_limit_get(c, q).answer
<1>1. DOMAIN c.dx_limit = {k} /\ c.dx_limit[k] = row
  <2>1. "dx_limit" \in DOMAIN NoRows
    BY TheTables DEF NoRows
  <2>2. c["dx_limit"] = [x \in {k} |-> row]
    BY <2>1
  <2> HIDE DEF c
  <2>3. QED  BY <2>2
<1>2. GetCall["dx_limit"] = cmd_dx_limit_get(<<"name">>)
  <2>1. GetCall["dx_limit"] = Vce("dx.limit.get", <<"name">>, 0)
    BY TheTables DEF GetCall, GetCommand
  <2>2. \A a, h : Vce("dx.limit.get", a, h) = cmd_dx_limit_get(a)
    BY DEF Vce
  <2>3. QED  BY <2>1, <2>2
<1>3. /\ GetCall["dx_limit"].method = "vxdb.dx.limit.get" /\ GetCall["dx_limit"].reply = DxReply
      /\ Decomposes(q, [name |-> "s"])
  <2>1. cmd_dx_limit_get(<<"name">>) = [method |-> "vxdb.dx.limit.get", params |-> [name |-> S("name")],
                                   reply |-> DxReply]
    BY TheNames, Zenon DEF cmd_dx_limit_get, DxReply
  <2>2. QED  BY <1>2, <2>1 DEF Decomposes, S
<1>4. \A d, p : ConfMethod("vxdb.dx.limit.get", d, p) = m_vxdb_dx_limit_get(d, p)
  BY DEF ConfMethod
<1>5. RowLine("dx_limit", k, row) = CHOOSE l \in Printed(DxReply, answer) : TRUE
  BY <1>3, <1>4, Zenon DEF RowLine
<1> HIDE DEF c, q
<1>6. Printed(DxReply, answer) = {DxLine(row)}
  <2>1. {DxLine(c.dx_limit[x]) : x \in DOMAIN c.dx_limit} = {DxLine(row)}
    BY <1>1
  <2>2. QED  BY <1>1, <1>3, <2>1, DxPrinted
<1>7. QED  BY <1>5, <1>6, ChosenOne

LEMMA InitRowLine ==
    ASSUME NEW k, NEW row, k = "xid"
    PROVE  RowLine("init", k, row) = InitLine(row)
<1> DEFINE c == [NoRows EXCEPT !["init"] = [x \in {k} |-> row]]
           q == GetCall["init"].params
           answer == m_vxdb_init_get(c, q).answer
<1>1. DOMAIN c.init = {k} /\ c.init[k] = row
  <2>1. "init" \in DOMAIN NoRows
    BY TheTables DEF NoRows
  <2>2. c["init"] = [x \in {k} |-> row]
    BY <2>1
  <2> HIDE DEF c
  <2>3. QED  BY <2>2
<1>2. GetCall["init"] = cmd_init_get(<<"name">>)
  <2>1. GetCall["init"] = Vce("init.get", <<"name">>, 0)
    BY TheTables DEF GetCall, GetCommand
  <2>2. \A a, h : Vce("init.get", a, h) = cmd_init_get(a)
    BY DEF Vce
  <2>3. QED  BY <2>1, <2>2
<1>3. /\ GetCall["init"].method = "vxdb.init.get" /\ GetCall["init"].reply = InitReply
      /\ Decomposes(q, [name |-> "s"])
  <2>1. cmd_init_get(<<"name">>) = [method |-> "vxdb.init.get", params |-> [name |-> S("name")],
                                   reply |-> InitReply]
    BY TheNames, Zenon DEF cmd_init_get, InitReply
  <2>2. QED  BY <1>2, <2>1 DEF Decomposes, S
<1>4. \A d, p : ConfMethod("vxdb.init.get", d, p) = m_vxdb_init_get(d, p)
  BY DEF ConfMethod
<1>5. RowLine("init", k, row) = CHOOSE l \in Printed(InitReply, answer) : TRUE
  BY <1>3, <1>4, Zenon DEF RowLine
<1> HIDE DEF c, q
<1>6. Printed(InitReply, answer) = {InitLine(row)}
  <2>1. {InitLine(c.init[x]) : x \in DOMAIN c.init} = {InitLine(row)}
    BY <1>1
  <2>2. QED  BY <1>1, <1>3, <2>1, InitPrinted
<1>7. QED  BY <1>5, <1>6, ChosenOne

LEMMA CpusetRowLine ==
    ASSUME NEW k, NEW row, k = "xid", row.cpus # Blank
    PROVE  RowLine("vx_cpuset", k, row) = CpusetLine(row)
<1> DEFINE c == [NoRows EXCEPT !["vx_cpuset"] = [x \in {k} |-> row]]
           q == GetCall["vx_cpuset"].params
           answer == m_vxdb_vx_cpuset_get(c, q).answer
<1>1. DOMAIN c.vx_cpuset = {k} /\ c.vx_cpuset[k] = row
  <2>1. "vx_cpuset" \in DOMAIN NoRows
    BY TheTables DEF NoRows
  <2>2. c["vx_cpuset"] = [x \in {k} |-> row]
    BY <2>1
  <2> HIDE DEF c
  <2>3. QED  BY <2>2
<1>2. GetCall["vx_cpuset"] = cmd_vx_cpuset_get(<<"name">>)
  <2>1. GetCall["vx_cpuset"] = Vce("vx.cpuset.get", <<"name">>, 0)
    BY TheTables DEF GetCall, GetCommand
  <2>2. \A a, h : Vce("vx.cpuset.get", a, h) = cmd_vx_cpuset_get(a)
    BY DEF Vce
  <2>3. QED  BY <2>1, <2>2
<1>3. /\ GetCall["vx_cpuset"].method = "vxdb.vx.cpuset.get" /\ GetCall["vx_cpuset"].reply = CpusetReply
      /\ Decomposes(q, [name |-> "s"])
  <2>1. cmd_vx_cpuset_get(<<"name">>) = [method |-> "vxdb.vx.cpuset.get", params |-> [name |-> S("name")],
                                   reply |-> CpusetReply]
    BY TheNames, Zenon DEF cmd_vx_cpuset_get, CpusetReply
  <2>2. QED  BY <1>2, <2>1 DEF Decomposes, S
<1>4. \A d, p : ConfMethod("vxdb.vx.cpuset.get", d, p) = m_vxdb_vx_cpuset_get(d, p)
  BY DEF ConfMethod
<1>5. RowLine("vx_cpuset", k, row) = CHOOSE l \in Printed(CpusetReply, answer) : TRUE
  BY <1>3, <1>4, Zenon DEF RowLine
<1> HIDE DEF c, q
<1>6. Printed(CpusetReply, answer) = {CpusetLine(row)}
  <2>1. {CpusetLine(c.vx_cpuset[x]) : x \in DOMAIN c.vx_cpuset} = {CpusetLine(row)}
    BY <1>1
  <2>2. QED  BY <1>1, <1>3, <2>1, CpusetPrinted
<1>7. QED  BY <1>5, <1>6, ChosenOne

LEMMA BroadcastRowLine ==
    ASSUME NEW k, NEW row, k = "xid", row # Blank
    PROVE  RowLine("nx_broadcast", k, row) = row
<1> DEFINE c == [NoRows EXCEPT !["nx_broadcast"] = [x \in {k} |-> row]]
           q == GetCall["nx_broadcast"].params
           answer == m_vxdb_nx_broadcast_get(c, q).answer
<1>1. DOMAIN c.nx_broadcast = {k} /\ c.nx_broadcast[k] = row
  <2>1. "nx_broadcast" \in DOMAIN NoRows
    BY TheTables DEF NoRows
  <2>2. c["nx_broadcast"] = [x \in {k} |-> row]
    BY <2>1
  <2> HIDE DEF c
  <2>3. QED  BY <2>2
<1>2. GetCall["nx_broadcast"] = cmd_nx_broadcast_get(<<"name">>)
  <2>1. GetCall["nx_broadcast"] = Vce("nx.broadcast.get", <<"name">>, 0)
    BY TheTables DEF GetCall, GetCommand
  <2>2. \A a, h : Vce("nx.broadcast.get", a, h) = cmd_nx_broadcast_get(a)
    BY DEF Vce
  <2>3. QED  BY <2>1, <2>2
<1>3. /\ GetCall["nx_broadcast"].method = "vxdb.nx.broadcast.get" /\ GetCall["nx_broadcast"].reply = Text
      /\ Decomposes(q, [name |-> "s"])
  <2>1. cmd_nx_broadcast_get(<<"name">>) = [method |-> "vxdb.nx.broadcast.get", params |-> [name |-> S("name")],
                                   reply |-> Text]
    BY TheNames, Zenon DEF cmd_nx_broadcast_get
  <2>2. QED  BY <1>2, <2>1 DEF Decomposes, S
<1>4. \A d, p : ConfMethod("vxdb.nx.broadcast.get", d, p) = m_vxdb_nx_broadcast_get(d, p)
  BY DEF ConfMethod
<1>5. RowLine("nx_broadcast", k, row) = CHOOSE l \in Printed(Text, answer) : TRUE
  BY <1>3, <1>4, Zenon DEF RowLine
<1> HIDE DEF c, q
<1>6. Printed(Text, answer) = {row}
  <2>1. {c.nx_broadcast[x] : x \in DOMAIN c.nx_broadcast} = {row}
    BY <1>1
  <2>2. QED  BY <1>1, <1>3, <2>1, BroadcastPrinted
<1>7. QED  BY <1>5, <1>6, ChosenOne

LEMMA BcapsRowLine ==
    ASSUME NEW k, NEW row
    PROVE  RowLine("vx_bcaps", k, row) = k
<1> DEFINE c == [NoRows EXCEPT !["vx_bcaps"] = [x \in {k} |-> row]]
           q == GetCall["vx_bcaps"].params
           answer == m_vxdb_vx_bcaps_get(c, q).answer
<1>1. DOMAIN c.vx_bcaps = {k} /\ c.vx_bcaps[k] = row
  <2>1. "vx_bcaps" \in DOMAIN NoRows
    BY TheTables DEF NoRows
  <2>2. c["vx_bcaps"] = [x \in {k} |-> row]
    BY <2>1
  <2> HIDE DEF c
  <2>3. QED  BY <2>2
<1>2. GetCall["vx_bcaps"] = cmd_vx_bcaps_get(<<"name">>)
  <2>1. GetCall["vx_bcaps"] = Vce("vx.bcaps.get", <<"name">>, 0)
    BY TheTables DEF GetCall, GetCommand
  <2>2. \A a, h : Vce("vx.bcaps.get", a, h) = cmd_vx_bcaps_get(a)
    BY DEF Vce
  <2>3. QED  BY <2>1, <2>2
<1>3. /\ GetCall["vx_bcaps"].method = "vxdb.vx.bcaps.get" /\ GetCall["vx_bcaps"].reply = TextArray
      /\ Decomposes(q, [name |-> "s"])
  <2>1. cmd_vx_bcaps_get(<<"name">>) = [method |-> "vxdb.vx.bcaps.get", params |-> [name |-> S("name")],
                                   reply |-> TextArray]
    BY TheNames, Zenon DEF cmd_vx_bcaps_get
  <2>2. QED  BY <1>2, <2>1 DEF Decomposes, S
<1>4. \A d, p : ConfMethod("vxdb.vx.bcaps.get", d, p) = m_vxdb_vx_bcaps_get(d, p)
  BY DEF ConfMethod
<1>5. RowLine("vx_bcaps", k, row) = CHOOSE l \in Printed(TextArray, answer) : TRUE
  BY <1>3, <1>4, Zenon DEF RowLine
<1> HIDE DEF c, q
<1>6. Printed(TextArray, answer) = {k}
  BY <1>1, <1>3, FlagsPrinted
<1>7. QED  BY <1>5, <1>6, ChosenOne

LEMMA CcapsRowLine ==
    ASSUME NEW k, NEW row
    PROVE  RowLine("vx_ccaps", k, row) = k
<1> DEFINE c == [NoRows EXCEPT !["vx_ccaps"] = [x \in {k} |-> row]]
           q == GetCall["vx_ccaps"].params
           answer == m_vxdb_vx_ccaps_get(c, q).answer
<1>1. DOMAIN c.vx_ccaps = {k} /\ c.vx_ccaps[k] = row
  <2>1. "vx_ccaps" \in DOMAIN NoRows
    BY TheTables DEF NoRows
  <2>2. c["vx_ccaps"] = [x \in {k} |-> row]
    BY <2>1
  <2> HIDE DEF c
  <2>3. QED  BY <2>2
<1>2. GetCall["vx_ccaps"] = cmd_vx_ccaps_get(<<"name">>)
  <2>1. GetCall["vx_ccaps"] = Vce("vx.ccaps.get", <<"name">>, 0)
    BY TheTables DEF GetCall, GetCommand
  <2>2. \A a, h : Vce("vx.ccaps.get", a, h) = cmd_vx_ccaps_get(a)
    BY DEF Vce
  <2>3. QED  BY <2>1, <2>2
<1>3. /\ GetCall["vx_ccaps"].method = "vxdb.vx.ccaps.get" /\ GetCall["vx_ccaps"].reply = TextArray
      /\ Decomposes(q, [name |-> "s"])
  <2>1. cmd_vx_ccaps_get(<<"name">>) = [method |-> "vxdb.vx.ccaps.get", params |-> [name |-> S("name")],
                                   reply |-> TextArray]
    BY TheNames, Zenon DEF cmd_vx_ccaps_get
  <2>2. QED  BY <1>2, <2>1 DEF Decomposes, S
<1>4. \A d, p : ConfMethod("vxdb.vx.ccaps.get", d, p) = m_vxdb_vx_ccaps_get(d, p)
  BY DEF ConfMethod
<1>5. RowLine("vx_ccaps", k, row) = CHOOSE l \in Printed(TextArray, answer) : TRUE
  BY <1>3, <1>4, Zenon DEF RowLine
<1> HIDE DEF c, q
<1>6. Printed(TextArray, answer) = {k}
  BY <1>1, <1>3, FlagsPrinted
<1>7. QED  BY <1>5, <1>6, ChosenOne

LEMMA FlagsRowLine ==
    ASSUME NEW k, NEW row
    PROVE  RowLine("vx_flags", k, row) = k
<1> DEFINE c == [NoRows EXCEPT !["vx_flags"] = [x \in {k} |-> row]]
           q == GetCall["vx_flags"].params
           answer == m_vxdb_vx_flags_get(c, q).answer
<1>1. DOMAIN c.vx_flags = {k} /\ c.vx_flags[k] = row
  <2>1. "vx_flags" \in DOMAIN NoRows
    BY TheTables DEF NoRows
  <2>2. c["vx_flags"] = [x \in {k} |-> row]
    BY <2>1
  <2> HIDE DEF c
  <2>3. QED  BY <2>2
<1>2. GetCall["vx_flags"] = cmd_vx_flags_get(<<"name">>)
  <2>1. GetCall["vx_flags"] = Vce("vx.flags.get", <<"name">>, 0)
    BY TheTables DEF GetCall, GetCommand
  <2>2. \A a, h : Vce("vx.flags.get", a, h) = cmd_vx_flags_get(a)
    BY DEF Vce
  <2>3. QED  BY <2>1, <2>2
<1>3. /\ GetCall["vx_flags"].method = "vxdb.vx.flags.get" /\ GetCall["vx_flags"].reply = TextArray
      /\ Decomposes(q, [name |-> "s"])
  <2>1. cmd_vx_flags_get(<<"name">>) = [method |-> "vxdb.vx.flags.get", params |-> [name |-> S("name")],
                                   reply |-> TextArray]
    BY TheNames, Zenon DEF cmd_vx_flags_get
  <2>2. QED  BY <1>2, <2>1 DEF Decomposes, S
<1>4. \A d, p : ConfMethod("vxdb.vx.flags.get", d, p) = m_vxdb_vx_flags_get(d, p)
  BY DEF ConfMethod
<1>5. RowLine("vx_flags", k, row) = CHOOSE l \in Printed(TextArray, answer) : TRUE
  BY <1>3, <1>4, Zenon DEF RowLine
<1> HIDE DEF c, q
<1>6. Printed(TextArray, answer) = {k}
  BY <1>1, <1>3, FlagsPrinted
<1>7. QED  BY <1>5, <1>6, ChosenOne

LEMMA MountRowLine ==
    ASSUME NEW k, NEW row
    PROVE  RowLine("mount", k, row) = MountLine(k, row)
<1> DEFINE c == [NoRows EXCEPT !["mount"] = [x \in {k} |-> row]]
           q == GetCall["mount"].params
           answer == m_vxdb_mount_get(c, q).answer
<1>1. DOMAIN c.mount = {k} /\ c.mount[k] = row
  <2>1. "mount" \in DOMAIN NoRows
    BY TheTables DEF NoRows
  <2>2. c["mount"] = [x \in {k} |-> row]
    BY <2>1
  <2> HIDE DEF c
  <2>3. QED  BY <2>2
<1>2. GetCall["mount"] = cmd_mount_get(<<"name">>)
  <2>1. GetCall["mount"] = Vce("mount.get", <<"name">>, 0)
    BY TheTables DEF GetCall, GetCommand
  <2>2. \A a, h : Vce("mount.get", a, h) = cmd_mount_get(a)
    BY DEF Vce
  <2>3. QED  BY <2>1, <2>2
<1>3. /\ GetCall["mount"].method = "vxdb.mount.get" /\ GetCall["mount"].reply = MountReply
      /\ Decomposes(q, [name |-> "s", dst |-> "s"]) /\ q.dst[2] = Blank
  <2>1. LET call == cmd_mount_get(<<"name">>) IN
        /\ call.method = "vxdb.mount.get" /\ call.reply = MountReply
        /\ DOMAIN call.params = {"name", "dst"}
        /\ call.params["name"] = S("name") /\ call.params["dst"] = S(Blank)
    <3>1. cmd_mount_get(<<"name">>) = ByNameAnd(<<"name">>, "vxdb.mount.get", "dst", MountReply)
      BY Zenon DEF cmd_mount_get, MountReply
    <3>2. "dst" # "name"
      OBVIOUS
    <3>3. OfAll(ByNameAnd(<<"name">>, "vxdb.mount.get", "dst", MountReply), "vxdb.mount.get", "dst", MountReply)
      BY <3>2, TheNamesAnd
    <3>4. OfAll(cmd_mount_get(<<"name">>), "vxdb.mount.get", "dst", MountReply)
      BY <3>1, <3>3, Zenon
    <3>5. QED  BY <3>4 DEF OfAll
  <2>2. QED  BY <1>2, <2>1 DEF Decomposes, S
<1>4. \A d, p : ConfMethod("vxdb.mount.get", d, p) = m_vxdb_mount_get(d, p)
  BY DEF ConfMethod
<1>5. RowLine("mount", k, row) = CHOOSE l \in Printed(MountReply, answer) : TRUE
  BY <1>3, <1>4, Zenon DEF RowLine
<1> HIDE DEF c, q
<1>6. Printed(MountReply, answer) = {MountLine(k, row)}
  <2>1. Chosen(c.mount, q.dst[2], Blank) = {k}
    BY <1>1, <1>3 DEF Chosen
  <2>2. m_vxdb_mount_get(c, q).fault = "none"
    BY <1>3 DEF m_vxdb_mount_get, Checked, Answered, Fields, Decomposes
  <2>3. Printed(MountReply, answer) = {MountLine(x, c.mount[x]) : x \in Chosen(c.mount, q.dst[2], Blank)}
    BY <1>3, <2>2, MountPrinted
  <2>4. QED  BY <1>1, <2>1, <2>3
<1>7. QED  BY <1>5, <1>6, ChosenOne

LEMMA AddrRowLine ==
    ASSUME NEW k, NEW row
    PROVE  RowLine("nx_addr", k, row) = AddrLine(k, row)
<1> DEFINE c == [NoRows EXCEPT !["nx_addr"] = [x \in {k} |-> row]]
           q == GetCall["nx_addr"].params
           answer == m_vxdb_nx_addr_get(c, q).answer
<1>1. DOMAIN c.nx_addr = {k} /\ c.nx_addr[k] = row
  <2>1. "nx_addr" \in DOMAIN NoRows
    BY TheTables DEF NoRows
  <2>2. c["nx_addr"] = [x \in {k} |-> row]
    BY <2>1
  <2> HIDE DEF c
  <2>3. QED  BY <2>2
<1>2. GetCall["nx_addr"] = cmd_nx_addr_get(<<"name">>)
  <2>1. GetCall["nx_addr"] = Vce("nx.addr.get", <<"name">>, 0)
    BY TheTables DEF GetCall, GetCommand
  <2>2. \A a, h : Vce("nx.addr.get", a, h) = cmd_nx_addr_get(a)
    BY DEF Vce
  <2>3. QED  BY <2>1, <2>2
<1>3. /\ GetCall["nx_addr"].method = "vxdb.nx.addr.get" /\ GetCall["nx_addr"].reply = AddrReply
      /\ Decomposes(q, [name |-> "s", addr |-> "s"]) /\ q.addr[2] = Blank
  <2>1. LET call == cmd_nx_addr_get(<<"name">>) IN
        /\ call.method = "vxdb.nx.addr.get" /\ call.reply = AddrReply
        /\ DOMAIN call.params = {"name", "addr"}
        /\ call.params["name"] = S("name") /\ call.params["addr"] = S(Blank)
    <3>1. cmd_nx_addr_get(<<"name">>) = ByNameAnd(<<"name">>, "vxdb.nx.addr.get", "addr", AddrReply)
      BY Zenon DEF cmd_nx_addr_get, AddrReply
    <3>2. "addr" # "name"
      OBVIOUS
    <3>3. OfAll(ByNameAnd(<<"name">>, "vxdb.nx.addr.get", "addr", AddrReply), "vxdb.nx.addr.get", "addr", AddrReply)
      BY <3>2, TheNamesAnd
    <3>4. OfAll(cmd_nx_addr_get(<<"name">>), "vxdb.nx.addr.get", "addr", AddrReply)
      BY <3>1, <3>3, Zenon
    <3>5. QED  BY <3>4 DEF OfAll
  <2>2. QED  BY <1>2, <2>1 DEF Decomposes, S
<1>4. \A d, p : ConfMethod("vxdb.nx.addr.get", d, p) = m_vxdb_nx_addr_get(d, p)
  BY DEF ConfMethod
<1>5. RowLine("nx_addr", k, row) = CHOOSE l \in Printed(AddrReply, answer) : TRUE
  BY <1>3, <1>4, Zenon DEF RowLine
<1> HIDE DEF c, q
<1>6. Printed(AddrReply, answer) = {AddrLine(k, row)}
  <2>1. Chosen(c.nx_addr, q.addr[2], Blank) = {k}
    BY <1>1, <1>3 DEF Chosen
  <2>2. m_vxdb_nx_addr_get(c, q).fault = "none"
    BY <1>3 DEF m_vxdb_nx_addr_get, Checked, Answered, Fields, Decomposes
  <2>3. Printed(AddrReply, answer) = {AddrLine(x, c.nx_addr[x]) : x \in Chosen(c.nx_addr, q.addr[2], Blank)}
    BY <1>3, <2>2, AddrPrinted
  <2>4. QED  BY <1>1, <2>1, <2>3
<1>7. QED  BY <1>5, <1>6, ChosenOne

LEMMA LimitRowLine ==
    ASSUME NEW k, NEW row
    PROVE  RowLine("vx_limit", k, row) = LimitLine(k, row)
<1> DEFINE c == [NoRows EXCEPT !["vx_limit"] = [x \in {k} |-> row]]
           q == GetCall["vx_limit"].params
           answer == m_vxdb_vx_limit_get(c, q).answer
<1>1. DOMAIN c.vx_limit = {k} /\ c.vx_limit[k] = row
  <2>1. "vx_limit" \in DOMAIN NoRows
    BY TheTables DEF NoRows
  <2>2. c["vx_limit"] = [x \in {k} |-> row]
    BY <2>1
  <2> HIDE DEF c
  <2>3. QED  BY <2>2
<1>2. GetCall["vx_limit"] = cmd_vx_limit_get(<<"name">>)
  <2>1. GetCall["vx_limit"] = Vce("vx.limit.get", <<"name">>, 0)
    BY TheTables DEF GetCall, GetCommand
  <2>2. \A a, h : Vce("vx.limit.get", a, h) = cmd_vx_limit_get(a)
    BY DEF Vce
  <2>3. QED  BY <2>1, <2>2
<1>3. /\ GetCall["vx_limit"].method = "vxdb.vx.limit.get" /\ GetCall["vx_limit"].reply = LimitReply
      /\ Decomposes(q, [name |-> "s", type |-> "s"]) /\ q.type[2] = Blank
  <2>1. LET call == cmd_vx_limit_get(<<"name">>) IN
        /\ call.method = "vxdb.vx.limit.get" /\ call.reply = LimitReply
        /\ DOMAIN call.params = {"name", "type"}
        /\ call.params["name"] = S("name") /\ call.params["type"] = S(Blank)
    <3>1. cmd_vx_limit_get(<<"name">>) = ByNameAnd(<<"name">>, "vxdb.vx.limit.get", "type", LimitReply)
      BY Zenon DEF cmd_vx_limit_get, LimitReply
    <3>2. "type" # "name"
      OBVIOUS
    <3>3. OfAll(ByNameAnd(<<"name">>, "vxdb.vx.limit.get", "type", LimitReply), "vxdb.vx.limit.get", "type", LimitReply)
      BY <3>2, TheNamesAnd
    <3>4. OfAll(cmd_vx_limit_get(<<"name">>), "vxdb.vx.limit.get", "type", LimitReply)
      BY <3>1, <3>3, Zenon
    <3>5. QED  BY <3>4 DEF OfAll
  <2>2. QED  BY <1>2, <2>1 DEF Decomposes, S
<1>4. \A d, p : ConfMethod("vxdb.vx.limit.get", d, p) = m_vxdb_vx_limit_get(d, p)
  BY DEF ConfMethod
<1>5. RowLine("vx_limit", k, row) = CHOOSE l \in Printed(LimitReply, answer) : TRUE
  BY <1>3, <1>4, Zenon DEF RowLine
<1> HIDE DEF c, q
<1>6. Printed(LimitReply, answer) = {LimitLine(k, row)}
  <2>1. Chosen(c.vx_limit, q.type[2], Blank) = {k}
    BY <1>1, <1>3 DEF Chosen
  <2>2. m_vxdb_vx_limit_get(c, q).fault = "none"
    BY <1>3 DEF m_vxdb_vx_limit_get, Checked, Answered, Fields, Decomposes
  <2>3. Printed(LimitReply, answer) = {LimitLine(x, c.vx_limit[x]) : x \in Chosen(c.vx_limit, q.type[2], Blank)}
    BY <1>3, <2>2, LimitPrinted
  <2>4. QED  BY <1>1, <2>1, <2>3
<1>7. QED  BY <1>5, <1>6, ChosenOne

LEMMA SchedRowLine ==
    ASSUME NEW k, NEW row
    PROVE  RowLine("vx_sched", k, row) = SchedLine(k, row)
<1> DEFINE c == [NoRows EXCEPT !["vx_sched"] = [x \in {k} |-> row]]
           q == GetCall["vx_sched"].params
           answer == m_vxdb_vx_sched_get(c, q).answer
<1>1. DOMAIN c.vx_sched = {k} /\ c.vx_sched[k] = row
  <2>1. "vx_sched" \in DOMAIN NoRows
    BY TheTables DEF NoRows
  <2>2. c["vx_sched"] = [x \in {k} |-> row]
    BY <2>1
  <2> HIDE DEF c
  <2>3. QED  BY <2>2
<1>2. GetCall["vx_sched"] = cmd_vx_sched_get(<<"name">>, 0)
  <2>1. GetCall["vx_sched"] = Vce("vx.sched.get", <<"name">>, 0)
    BY TheTables DEF GetCall, GetCommand
  <2>2. \A a, h : Vce("vx.sched.get", a, h) = cmd_vx_sched_get(a, h)
    BY DEF Vce
  <2>3. QED  BY <2>1, <2>2
<1>3. /\ GetCall["vx_sched"].method = "vxdb.vx.sched.get" /\ GetCall["vx_sched"].reply = SchedReply
      /\ Decomposes(q, [name |-> "s", cpuid |-> "i"]) /\ q.cpuid[2] = -2
  BY <1>2 DEF cmd_vx_sched_get, Call, SchedReply, Decomposes, S, I
<1>4. \A d, p : ConfMethod("vxdb.vx.sched.get", d, p) = m_vxdb_vx_sched_get(d, p)
  BY DEF ConfMethod
<1>5. RowLine("vx_sched", k, row) = CHOOSE l \in Printed(SchedReply, answer) : TRUE
  BY <1>3, <1>4, Zenon DEF RowLine
<1> HIDE DEF c, q
<1>6. Printed(SchedReply, answer) = {SchedLine(k, row)}
  <2>1. Chosen(c.vx_sched, q.cpuid[2], -2) = {k}
    BY <1>1, <1>3 DEF Chosen
  <2>2. m_vxdb_vx_sched_get(c, q).fault = "none"
    BY <1>3 DEF m_vxdb_vx_sched_get, Checked, Answered, Fields, Decomposes
  <2>3. Printed(SchedReply, answer) = {SchedLine(x, c.vx_sched[x]) : x \in Chosen(c.vx_sched, q.cpuid[2], -2)}
    BY <1>3, <2>2, SchedPrinted
  <2>4. QED  BY <1>1, <2>1, <2>3
<1>7. QED  BY <1>5, <1>6, ChosenOne

LEMMA UnameRowLine ==
    ASSUME NEW k, NEW row
    PROVE  RowLine("vx_uname", k, row) = UnameLine(k, row)
<1> DEFINE c == [NoRows EXCEPT !["vx_uname"] = [x \in {k} |-> row]]
           q == GetCall["vx_uname"].params
           answer == m_vxdb_vx_uname_get(c, q).answer
<1>1. DOMAIN c.vx_uname = {k} /\ c.vx_uname[k] = row
  <2>1. "vx_uname" \in DOMAIN NoRows
    BY TheTables DEF NoRows
  <2>2. c["vx_uname"] = [x \in {k} |-> row]
    BY <2>1
  <2> HIDE DEF c
  <2>3. QED  BY <2>2
<1>2. GetCall["vx_uname"] = cmd_vx_uname_get(<<"name">>)
  <2>1. GetCall["vx_uname"] = Vce("vx.uname.get", <<"name">>, 0)
    BY TheTables DEF GetCall, GetCommand
  <2>2. \A a, h : Vce("vx.uname.get", a, h) = cmd_vx_uname_get(a)
    BY DEF Vce
  <2>3. QED  BY <2>1, <2>2
<1>3. /\ GetCall["vx_uname"].method = "vxdb.vx.uname.get" /\ GetCall["vx_uname"].reply = UnameReply
      /\ Decomposes(q, [name |-> "s", type |-> "s"]) /\ q.type[2] = Blank
  <2>1. LET call == cmd_vx_uname_get(<<"name">>) IN
        /\ call.method = "vxdb.vx.uname.get" /\ call.reply = UnameReply
        /\ DOMAIN call.params = {"name", "type"}
        /\ call.params["name"] = S("name") /\ call.params["type"] = S(Blank)
    <3>1. cmd_vx_uname_get(<<"name">>) = ByNameAnd(<<"name">>, "vxdb.vx.uname.get", "type", UnameReply)
      BY Zenon DEF cmd_vx_uname_get, UnameReply
    <3>2. "type" # "name"
      OBVIOUS
    <3>3. OfAll(ByNameAnd(<<"name">>, "vxdb.vx.uname.get", "type", UnameReply), "vxdb.vx.uname.get", "type", UnameReply)
      BY <3>2, TheNamesAnd
    <3>4. OfAll(cmd_vx_uname_get(<<"name">>), "vxdb.vx.uname.get", "type", UnameReply)
      BY <3>1, <3>3, Zenon
    <3>5. QED  BY <3>4 DEF OfAll
  <2>2. QED  BY <1>2, <2>1 DEF Decomposes, S
<1>4. \A d, p : ConfMethod("vxdb.vx.uname.get", d, p) = m_vxdb_vx_uname_get(d, p)
  BY DEF ConfMethod
<1>5. RowLine("vx_uname", k, row) = CHOOSE l \in Printed(UnameReply, answer) : TRUE
  BY <1>3, <1>4, Zenon DEF RowLine
<1> HIDE DEF c, q
<1>6. Printed(UnameReply, answer) = {UnameLine(k, row)}
  <2>1. Chosen(c.vx_uname, q.type[2], Blank) = {k}
    BY <1>1, <1>3 DEF Chosen
  <2>2. m_vxdb_vx_uname_get(c, q).fault = "none"
    BY <1>3 DEF m_vxdb_vx_uname_get, Checked, Answered, Fields, Decomposes
  <2>3. Printed(UnameReply, answer) = {UnameLine(x, c.vx_uname[x]) : x \in Chosen(c.vx_uname, q.type[2], Blank)}
    BY <1>3, <2>2, UnamePrinted
  <2>4. QED  BY <1>1, <2>1, <2>3
<1>7. QED  BY <1>5, <1>6, ChosenOne

-----------------------------------------------------------------------------
(* The lines of all rows *)

RowLines(c, t, K) == {RowLine(t, k, c[t][k]) : k \in K}
Tagged(cmd, T) == {<<cmd, l>> : l \in T}
LinesIn(t, rows) == [k \in DOMAIN rows |-> RowLine(t, k, rows[k])]
Extended(w, t, k, l) ==
    [w EXCEPT ![t] = [x \in DOMAIN @ \cup {k} |-> IF x = k THEN l ELSE @[x]]]
Shortened(w, t, K) == [w EXCEPT ![t] = [x \in DOMAIN @ \ K |-> @[x]]]

LEMMA LinesOfAt ==
    ASSUME NEW c, NEW t \in Tables
    PROVE  /\ DOMAIN LinesOf(c) = Tables /\ DOMAIN LinesOf(c)[t] = DOMAIN c[t]
           /\ \A k \in DOMAIN c[t] : LinesOf(c)[t][k] = RowLine(t, k, c[t][k])
<1>1. LinesOf(c)[t] = [k \in DOMAIN c[t] |-> RowLine(t, k, c[t][k])] /\ DOMAIN LinesOf(c) = Tables
  BY Zenon DEF LinesOf
<1>2. QED  BY <1>1, Zenon

LEMMA OneTable ==
    ASSUME NEW c, NEW t \in Tables, NEW u \in Tables, NEW rows, RowsOK(c)
    PROVE  LinesOf([c EXCEPT ![t] = rows])[u] =
              IF u = t THEN LinesIn(t, rows) ELSE LinesOf(c)[u]
<1> DEFINE d == [c EXCEPT ![t] = rows]
<1>1. d[t] = rows /\ (u # t => d[u] = c[u])
  BY DEF RowsOK
<1> HIDE DEF d
<1>2. \A e : LinesOf(e)[u] = LinesIn(u, e[u])
  BY Zenon DEF LinesOf, LinesIn
<1>3. CASE u = t
  <2>1. LinesOf(d)[t] = LinesIn(t, rows)
    BY <1>1, <1>2, <1>3, Zenon
  <2>2. QED  BY <1>3, <2>1 DEF d
<1>4. CASE u # t
  <2>1. LinesOf(d)[u] = LinesOf(c)[u]
    BY <1>1, <1>2, <1>4, Zenon
  <2>2. QED  BY <1>4, <2>1, Zenon DEF d
<1>5. QED  BY <1>3, <1>4

LEMMA InsertLines ==
    ASSUME NEW c, NEW t \in Tables, NEW k, NEW row, RowsOK(c)
    PROVE  LinesOf(InsertOrReplace(c, t, k, row)) = Extended(LinesOf(c), t, k, RowLine(t, k, row))
<1> DEFINE rows == With(c[t], k, row)
           w == LinesOf(InsertOrReplace(c, t, k, row))
           new == [x \in DOMAIN LinesOf(c)[t] \cup {k} |->
                      IF x = k THEN RowLine(t, k, row) ELSE LinesOf(c)[t][x]]
           v == [LinesOf(c) EXCEPT ![t] = new]
<1>1. InsertOrReplace(c, t, k, row) = [c EXCEPT ![t] = rows]
  BY DEF InsertOrReplace, RowsOK
<1>2. DOMAIN rows = DOMAIN c[t] \cup {k} /\ \A x \in DOMAIN rows : rows[x] = IF x = k THEN row ELSE c[t][x]
  BY DEF With
<1>3. DOMAIN LinesOf(c)[t] = DOMAIN c[t] /\ \A x \in DOMAIN c[t] : LinesOf(c)[t][x] = RowLine(t, x, c[t][x])
  BY LinesOfAt
<1> HIDE DEF rows
<1>4. LinesIn(t, rows) = new
  <2>1. DOMAIN rows = DOMAIN LinesOf(c)[t] \cup {k}
    BY <1>2, <1>3
  <2>2. \A x \in DOMAIN rows : RowLine(t, x, rows[x]) = IF x = k THEN RowLine(t, k, row) ELSE LinesOf(c)[t][x]
    BY <1>2, <1>3
  <2>3. QED  BY <2>1, <2>2, Zenon DEF LinesIn
<1> HIDE DEF new
<1>5. \A u \in Tables : w[u] = IF u = t THEN new ELSE LinesOf(c)[u]
  <2>1. \A u \in Tables :
           LinesOf([c EXCEPT ![t] = rows])[u] = IF u = t THEN LinesIn(t, rows) ELSE LinesOf(c)[u]
    BY OneTable
  <2>2. QED  BY <1>1, <1>4, <2>1, Zenon
<1>6. w = [u \in Tables |-> w[u]]
  BY Zenon DEF LinesOf
<1>7. v = [u \in Tables |-> IF u = t THEN new ELSE LinesOf(c)[u]]
  <2>1. LinesOf(c) = [u \in Tables |-> LinesOf(c)[u]]
    BY Zenon DEF LinesOf
  <2>2. QED  BY <2>1
<1> HIDE DEF w, v
<1>8. w = v
  BY <1>5, <1>6, <1>7
<1>9. QED  BY <1>8, Zenon DEF w, v, new, Extended

LEMMA DeleteLines ==
    ASSUME NEW c, NEW t \in Tables, NEW K, RowsOK(c)
    PROVE  LinesOf(Delete(c, t, K)) = Shortened(LinesOf(c), t, K)
<1> DEFINE rows == Without(c[t], K)
           w == LinesOf(Delete(c, t, K))
           new == [x \in DOMAIN LinesOf(c)[t] \ K |-> LinesOf(c)[t][x]]
           v == [LinesOf(c) EXCEPT ![t] = new]
<1>1. Delete(c, t, K) = [c EXCEPT ![t] = rows]
  BY DEF Delete, RowsOK
<1>2. DOMAIN rows = DOMAIN c[t] \ K /\ \A x \in DOMAIN rows : rows[x] = c[t][x]
  BY DEF Without
<1>3. DOMAIN LinesOf(c)[t] = DOMAIN c[t] /\ \A x \in DOMAIN c[t] : LinesOf(c)[t][x] = RowLine(t, x, c[t][x])
  BY LinesOfAt
<1> HIDE DEF rows
<1>4. LinesIn(t, rows) = new
  <2>1. DOMAIN rows = DOMAIN LinesOf(c)[t] \ K
    BY <1>2, <1>3
  <2>2. \A x \in DOMAIN rows : RowLine(t, x, rows[x]) = LinesOf(c)[t][x]
    BY <1>2, <1>3
  <2>3. QED  BY <2>1, <2>2, Zenon DEF LinesIn
<1> HIDE DEF new
<1>5. \A u \in Tables : w[u] = IF u = t THEN new ELSE LinesOf(c)[u]
  <2>1. \A u \in Tables :
           LinesOf([c EXCEPT ![t] = rows])[u] = IF u = t THEN LinesIn(t, rows) ELSE LinesOf(c)[u]
    BY OneTable
  <2>2. QED  BY <1>1, <1>4, <2>1, Zenon
<1>6. w = [u \in Tables |-> w[u]]
  BY Zenon DEF LinesOf
<1>7. v = [u \in Tables |-> IF u = t THEN new ELSE LinesOf(c)[u]]
  <2>1. LinesOf(c) = [u \in Tables |-> LinesOf(c)[u]]
    BY Zenon DEF LinesOf
  <2>2. QED  BY <2>1
<1> HIDE DEF w, v
<1>8. w = v
  BY <1>5, <1>6, <1>7
<1>9. QED  BY <1>8, Zenon DEF w, v, new, Shortened

-----------------------------------------------------------------------------
(* The promise, for a command on one table *)

(* The rows of table t that a get or remove command is about. *)
Meant(line, sent, t, k) ==
    \/ Promised!OnAll(line) \/ k = Promised!KeyOf(line, sent)
    \/ t = "vx_sched" /\ Promised!KeyOf(line, sent) = -2

LEMMA ShownIs ==
    ASSUME NEW c, NEW line, NEW sent, NEW t \in Tables, Promised!Meaning(line.cmd) = t,
           NEW K, K \subseteq DOMAIN c[t],
           \A k \in DOMAIN c[t] :
              k \in K <=> Meant(line, sent, t, k) \/ t \in {"vx_bcaps", "vx_ccaps", "vx_flags"}
    PROVE  Promised!Shown(LinesOf(c), line, sent) =
              IF t = "init" /\ K = {} THEN {<<line.cmd, DefaultInit>>}
              ELSE Tagged(line.cmd, RowLines(c, t, K))
<1> DEFINE w == LinesOf(c)
           all == Promised!OnAll(line) \/ t \in {"vx_bcaps", "vx_ccaps", "vx_flags"}
           keys == {k \in DOMAIN w[t] : all \/ k = Promised!KeyOf(line, sent)
                                     \/ (t = "vx_sched" /\ Promised!KeyOf(line, sent) = -2)}
<1>1. Promised!Shown(w, line, sent) =
         IF t = "init" /\ keys = {} THEN {<<line.cmd, DefaultInit>>}
         ELSE {<<line.cmd, w[t][k]>> : k \in keys}
  BY Zenon DEF Promised!Shown, DefaultInit
<1>2. DOMAIN w[t] = DOMAIN c[t] /\ \A k \in DOMAIN c[t] : w[t][k] = RowLine(t, k, c[t][k])
  BY LinesOfAt
<1> HIDE DEF w
<1>3. keys = K
  BY <1>2 DEF Meant
<1> HIDE DEF keys
<1>4. {<<line.cmd, w[t][k]>> : k \in K} = Tagged(line.cmd, RowLines(c, t, K))
  <2>1. {<<line.cmd, w[t][k]>> : k \in K} = {<<line.cmd, RowLine(t, k, c[t][k])>> : k \in K}
    BY <1>2
  <2>2. {<<line.cmd, RowLine(t, k, c[t][k])>> : k \in K}
          = {<<line.cmd, l>> : l \in {RowLine(t, k, c[t][k]) : k \in K}}
    BY Zenon
  <2>3. QED  BY <2>1, <2>2, Zenon DEF Tagged, RowLines
<1>5. QED  BY <1>1, <1>3, <1>4 DEF w

LEMMA SetIs ==
    ASSUME NEW c, NEW line, NEW sent, NEW t \in Tables, Promised!Meaning(line.cmd) = t,
           line.cmd \notin Promised!Removes, RowsOK(c), NEW row,
           Promised!LineOf(line, sent) = RowLine(t, Promised!KeyOf(line, sent), row)
    PROVE  LinesOf(InsertOrReplace(c, t, Promised!KeyOf(line, sent), row))
             = Promised!Promise(LinesOf(c), line, sent)
<1> DEFINE w == LinesOf(c)
           key == Promised!KeyOf(line, sent)
           new == [w EXCEPT ![t] = [k \in DOMAIN @ \cup {key} |->
                                       IF k = key THEN Promised!LineOf(line, sent) ELSE @[k]]]
<1>1. Promised!Promise(w, line, sent) = new
  BY Zenon DEF Promised!Promise
<1>2. LinesOf(InsertOrReplace(c, t, key, row)) = Extended(w, t, key, RowLine(t, key, row))
  BY InsertLines
<1> HIDE DEF key, w
<1>3. LinesOf(InsertOrReplace(c, t, key, row)) = new
  BY <1>2, Zenon DEF key, Extended
<1>4. QED  BY <1>1, <1>3 DEF key, w

LEMMA RemoveIs ==
    ASSUME NEW c, NEW line, NEW sent, NEW t \in Tables, Promised!Meaning(line.cmd) = t,
           line.cmd \in Promised!Removes, RowsOK(c), NEW K,
           \A k \in DOMAIN c[t] : k \in K <=> Meant(line, sent, t, k)
    PROVE  LinesOf(Delete(c, t, K)) = Promised!Promise(LinesOf(c), line, sent)
<1> DEFINE w == LinesOf(c)
           gone == {k \in DOMAIN w[t] : \/ Promised!OnAll(line) \/ k = Promised!KeyOf(line, sent)
                                        \/ (t = "vx_sched" /\ Promised!KeyOf(line, sent) = -2)}
<1>1. Promised!Promise(w, line, sent) = [w EXCEPT ![t] = [k \in DOMAIN @ \ gone |-> @[k]]]
  BY Zenon DEF Promised!Promise
<1>2. LinesOf(Delete(c, t, K)) = Shortened(w, t, K)
  BY DeleteLines
<1>3. DOMAIN w[t] = DOMAIN c[t]
  BY LinesOfAt
<1> HIDE DEF w
<1>4. DOMAIN w[t] \ gone = DOMAIN w[t] \ K
  BY <1>3 DEF Meant
<1> HIDE DEF gone
<1>5. QED  BY <1>1, <1>2, <1>4, Zenon DEF w, Shortened

(* What a command does to any rows, and what is printed of its answer. *)
GetKept(line, sent, k) ==
    \A c : LET r == ConfMethod(k.method, c, k.params) IN
       RowsOK(c) /\ Visible(c) /\ r.fault = "none" =>
          Tagged(line.cmd, Printed(k.reply, r.answer)) = Promised!Shown(LinesOf(c), line, sent)
ChangeKept(line, sent, k) ==
    \A c : LET r == ConfMethod(k.method, c, k.params) IN
       RowsOK(c) /\ Visible(c) /\ r.fault = "none" =>
          /\ LinesOf(r.next) = Promised!Promise(LinesOf(c), line, sent)
          /\ Visible(r.next)

LEMMA UniqueMeant ==
    ASSUME NEW line, NEW sent, NEW t \in Promised!Unique, Promised!Meaning(line.cmd) = t,
           line.cmd # "mount.set"
    PROVE  /\ \A k : Meant(line, sent, t, k)
           /\ Promised!KeyOf(line, sent) = "xid"
  BY DEF Meant, Promised!OnAll, Promised!KeyOf, Promised!Unique

LEMMA NamedMeant ==
    ASSUME NEW line, NEW sent, NEW t, t \notin Promised!Unique \cup {"vx_sched"},
           Promised!Meaning(line.cmd) = t, line.cmd # "mount.set", line.argv \in Seq(STRING)
    PROVE  /\ Promised!KeyOf(line, sent) = line.argv[2]
           /\ \A rows : \A k \in DOMAIN rows :
                 k \in Chosen(rows, Arg(line.argv, 2, Blank), Blank) <=> Meant(line, sent, t, k)
<1>1. Promised!KeyOf(line, sent) = line.argv[2]
  BY DEF Promised!KeyOf
<1>2. Promised!OnAll(line) <=> Len(line.argv) < 2 \/ line.argv[2] = Blank
  BY BlankSame DEF Promised!OnAll
<1>3. Len(line.argv) \in Nat
  OBVIOUS
<1>4. QED  BY <1>1, <1>2, <1>3 DEF Meant, Chosen, Arg

(* The cpuid of a command that has an optional one. *)
Cpuid(argv, sent) == IF Len(argv) > 1 THEN Number(argv, 2, sent) ELSE -2

LEMMA SchedMeant ==
    ASSUME NEW line, NEW sent, Promised!Meaning(line.cmd) = "vx_sched",
           line.argv \in Seq(STRING)
    PROVE  /\ line.cmd # "mount.set" => Promised!KeyOf(line, sent) = sscanf(line.argv[2], sent)
           /\ line.cmd # "mount.set" =>
                \A rows : \A k \in DOMAIN rows :
                 k \in Chosen(rows, Cpuid(line.argv, sent), -2) <=> Meant(line, sent, "vx_sched", k)
<1>1. line.cmd # "mount.set" => Promised!KeyOf(line, sent) = sscanf(line.argv[2], sent)
  BY ScanSame DEF Promised!KeyOf, Promised!Unique
<1>2. Promised!OnAll(line) <=> Len(line.argv) < 2
  BY DEF Promised!OnAll, Promised!Unique
<1>3. Len(line.argv) \in Nat
  OBVIOUS
<1>4. Cpuid(line.argv, sent) = IF Len(line.argv) > 1 THEN sscanf(line.argv[2], sent) ELSE -2
  BY <1>3 DEF Cpuid, Number
<1>5. QED  BY <1>1, <1>2, <1>3, <1>4 DEF Meant, Chosen

LEMMA DxGet ==
    ASSUME NEW line, NEW sent, line.cmd = "dx.limit.get", NEW k,
           k = cmd_dx_limit_get(line.argv), k.method # "usage"
    PROVE  GetKept(line, sent, k)
<1>1. /\ k.method = "vxdb.dx.limit.get" /\ k.reply = DxReply
      /\ Decomposes(k.params, [name |-> "s"])
  BY DEF cmd_dx_limit_get, ByName, Call, Usage, Decomposes, S, DxReply
<1>2. \A c : ConfMethod(k.method, c, k.params) = m_vxdb_dx_limit_get(c, k.params)
  BY <1>1 DEF ConfMethod
<1>3. Promised!Meaning(line.cmd) = "dx_limit" /\ "dx_limit" \in Promised!Unique
  BY MeaningIs DEF Promised!Unique
<1>4. ASSUME NEW c, RowsOK(c), Visible(c)
      PROVE  Tagged(line.cmd, Printed(DxReply, m_vxdb_dx_limit_get(c, k.params).answer))
               = Promised!Shown(LinesOf(c), line, sent)
  <2> DEFINE K == DOMAIN c.dx_limit
  <2>1. DOMAIN c.dx_limit \subseteq {"xid"} /\ \A x \in K : ToString(c.dx_limit[x].space) # Blank
    BY <1>4, TheTables DEF RowsOK, Visible
  <2>2. Printed(DxReply, m_vxdb_dx_limit_get(c, k.params).answer) = {DxLine(c.dx_limit[x]) : x \in K}
    BY <1>1, <2>1, DxPrinted
  <2>3. RowLines(c, "dx_limit", K) = {DxLine(c.dx_limit[x]) : x \in K}
    <3>1. \A x \in K : RowLine("dx_limit", x, c.dx_limit[x]) = DxLine(c.dx_limit[x])
      BY <2>1, DxRowLine
    <3>2. QED  BY <3>1, Zenon DEF RowLines
  <2>4. /\ K \subseteq DOMAIN c["dx_limit"]
        /\ \A x \in DOMAIN c["dx_limit"] : x \in K <=> Meant(line, sent, "dx_limit", x)
    BY <1>3, UniqueMeant
  <2> HIDE DEF K
  <2>5. Promised!Shown(LinesOf(c), line, sent) = Tagged(line.cmd, RowLines(c, "dx_limit", K))
    BY <1>3, <2>4, ShownIs, TheTables
  <2>6. QED  BY <2>2, <2>3, <2>5, Zenon
<1>5. QED  BY <1>1, <1>2, <1>4, Zenon DEF GetKept

LEMMA CpusetGet ==
    ASSUME NEW line, NEW sent, line.cmd = "vx.cpuset.get", NEW k,
           k = cmd_vx_cpuset_get(line.argv), k.method # "usage"
    PROVE  GetKept(line, sent, k)
<1>1. /\ k.method = "vxdb.vx.cpuset.get" /\ k.reply = CpusetReply
      /\ Decomposes(k.params, [name |-> "s"])
  BY DEF cmd_vx_cpuset_get, ByName, Call, Usage, Decomposes, S, CpusetReply
<1>2. \A c : ConfMethod(k.method, c, k.params) = m_vxdb_vx_cpuset_get(c, k.params)
  BY <1>1 DEF ConfMethod
<1>3. Promised!Meaning(line.cmd) = "vx_cpuset" /\ "vx_cpuset" \in Promised!Unique
  BY MeaningIs DEF Promised!Unique
<1>4. ASSUME NEW c, RowsOK(c), Visible(c)
      PROVE  Tagged(line.cmd, Printed(CpusetReply, m_vxdb_vx_cpuset_get(c, k.params).answer))
               = Promised!Shown(LinesOf(c), line, sent)
  <2> DEFINE K == DOMAIN c.vx_cpuset
  <2>1. DOMAIN c.vx_cpuset \subseteq {"xid"} /\ \A x \in K : c.vx_cpuset[x].cpus # Blank
    BY <1>4, TheTables DEF RowsOK, Visible
  <2>2. Printed(CpusetReply, m_vxdb_vx_cpuset_get(c, k.params).answer) = {CpusetLine(c.vx_cpuset[x]) : x \in K}
    BY <1>1, <2>1, CpusetPrinted
  <2>3. RowLines(c, "vx_cpuset", K) = {CpusetLine(c.vx_cpuset[x]) : x \in K}
    <3>1. \A x \in K : RowLine("vx_cpuset", x, c.vx_cpuset[x]) = CpusetLine(c.vx_cpuset[x])
      BY <2>1, CpusetRowLine
    <3>2. QED  BY <3>1, Zenon DEF RowLines
  <2>4. /\ K \subseteq DOMAIN c["vx_cpuset"]
        /\ \A x \in DOMAIN c["vx_cpuset"] : x \in K <=> Meant(line, sent, "vx_cpuset", x)
    BY <1>3, UniqueMeant
  <2> HIDE DEF K
  <2>5. Promised!Shown(LinesOf(c), line, sent) = Tagged(line.cmd, RowLines(c, "vx_cpuset", K))
    BY <1>3, <2>4, ShownIs, TheTables
  <2>6. QED  BY <2>2, <2>3, <2>5, Zenon
<1>5. QED  BY <1>1, <1>2, <1>4, Zenon DEF GetKept

LEMMA BroadcastGet ==
    ASSUME NEW line, NEW sent, line.cmd = "nx.broadcast.get", NEW k,
           k = cmd_nx_broadcast_get(line.argv), k.method # "usage"
    PROVE  GetKept(line, sent, k)
<1>1. /\ k.method = "vxdb.nx.broadcast.get" /\ k.reply = Text
      /\ Decomposes(k.params, [name |-> "s"])
  BY DEF cmd_nx_broadcast_get, ByName, Call, Usage, Decomposes, S
<1>2. \A c : ConfMethod(k.method, c, k.params) = m_vxdb_nx_broadcast_get(c, k.params)
  BY <1>1 DEF ConfMethod
<1>3. Promised!Meaning(line.cmd) = "nx_broadcast" /\ "nx_broadcast" \in Promised!Unique
  BY MeaningIs DEF Promised!Unique
<1>4. ASSUME NEW c, RowsOK(c), Visible(c)
      PROVE  Tagged(line.cmd, Printed(Text, m_vxdb_nx_broadcast_get(c, k.params).answer))
               = Promised!Shown(LinesOf(c), line, sent)
  <2> DEFINE K == DOMAIN c.nx_broadcast
  <2>1. DOMAIN c.nx_broadcast \subseteq {"xid"} /\ \A x \in K : c.nx_broadcast[x] # Blank
    BY <1>4, TheTables DEF RowsOK, Visible
  <2>2. Printed(Text, m_vxdb_nx_broadcast_get(c, k.params).answer) = {c.nx_broadcast[x] : x \in K}
    BY <1>1, <2>1, BroadcastPrinted
  <2>3. RowLines(c, "nx_broadcast", K) = {c.nx_broadcast[x] : x \in K}
    <3>1. \A x \in K : RowLine("nx_broadcast", x, c.nx_broadcast[x]) = c.nx_broadcast[x]
      BY <2>1, BroadcastRowLine
    <3>2. QED  BY <3>1, Zenon DEF RowLines
  <2>4. /\ K \subseteq DOMAIN c["nx_broadcast"]
        /\ \A x \in DOMAIN c["nx_broadcast"] : x \in K <=> Meant(line, sent, "nx_broadcast", x)
    BY <1>3, UniqueMeant
  <2> HIDE DEF K
  <2>5. Promised!Shown(LinesOf(c), line, sent) = Tagged(line.cmd, RowLines(c, "nx_broadcast", K))
    BY <1>3, <2>4, ShownIs, TheTables
  <2>6. QED  BY <2>2, <2>3, <2>5, Zenon
<1>5. QED  BY <1>1, <1>2, <1>4, Zenon DEF GetKept

LEMMA InitGet ==
    ASSUME NEW line, NEW sent, line.cmd = "init.get", NEW k,
           k = cmd_init_get(line.argv), k.method # "usage"
    PROVE  GetKept(line, sent, k)
<1>1. /\ k.method = "vxdb.init.get" /\ k.reply = InitReply
      /\ Decomposes(k.params, [name |-> "s"])
  BY DEF cmd_init_get, ByName, Call, Usage, Decomposes, S, InitReply
<1>2. \A c : ConfMethod(k.method, c, k.params) = m_vxdb_init_get(c, k.params)
  BY <1>1 DEF ConfMethod
<1>3. Promised!Meaning(line.cmd) = "init" /\ "init" \in Promised!Unique
  BY MeaningIs DEF Promised!Unique
<1>4. ASSUME NEW c, RowsOK(c)
      PROVE  Tagged(line.cmd, Printed(InitReply, m_vxdb_init_get(c, k.params).answer))
               = Promised!Shown(LinesOf(c), line, sent)
  <2> DEFINE K == DOMAIN c.init
  <2>1. DOMAIN c.init \subseteq {"xid"}
    BY <1>4, TheTables DEF RowsOK
  <2>2. Printed(InitReply, m_vxdb_init_get(c, k.params).answer)
           = IF K = {} THEN {DefaultInit} ELSE {InitLine(c.init[x]) : x \in K}
    BY <1>1, <2>1, InitPrinted
  <2>3. RowLines(c, "init", K) = {InitLine(c.init[x]) : x \in K}
    <3>1. \A x \in K : RowLine("init", x, c.init[x]) = InitLine(c.init[x])
      BY <2>1, InitRowLine
    <3>2. QED  BY <3>1, Zenon DEF RowLines
  <2>4. K \subseteq DOMAIN c["init"] /\ \A x \in DOMAIN c["init"] : x \in K <=> Meant(line, sent, "init", x)
    BY <1>3, UniqueMeant
  <2> HIDE DEF K
  <2>5. Promised!Shown(LinesOf(c), line, sent) =
           IF K = {} THEN {<<line.cmd, DefaultInit>>} ELSE Tagged(line.cmd, RowLines(c, "init", K))
    BY <1>3, <2>4, ShownIs, TheTables
  <2>6. Tagged(line.cmd, {DefaultInit}) = {<<line.cmd, DefaultInit>>}
    BY DEF Tagged
  <2>7. QED  BY <2>2, <2>3, <2>5, <2>6, Zenon
<1>5. QED  BY <1>1, <1>2, <1>4, Zenon DEF GetKept

LEMMA BcapsGet ==
    ASSUME NEW line, NEW sent, line.cmd = "vx.bcaps.get", NEW k,
           k = cmd_vx_bcaps_get(line.argv), k.method # "usage"
    PROVE  GetKept(line, sent, k)
<1>1. /\ k.method = "vxdb.vx.bcaps.get" /\ k.reply = TextArray
      /\ Decomposes(k.params, [name |-> "s"])
  BY DEF cmd_vx_bcaps_get, ByName, Call, Usage, Decomposes, S
<1>2. \A c : ConfMethod(k.method, c, k.params) = m_vxdb_vx_bcaps_get(c, k.params)
  BY <1>1 DEF ConfMethod
<1>3. Promised!Meaning(line.cmd) = "vx_bcaps"
  BY MeaningIs
<1>4. ASSUME NEW c
      PROVE  Tagged(line.cmd, Printed(TextArray, m_vxdb_vx_bcaps_get(c, k.params).answer))
               = Promised!Shown(LinesOf(c), line, sent)
  <2> DEFINE K == DOMAIN c["vx_bcaps"]
  <2>1. Printed(TextArray, m_vxdb_vx_bcaps_get(c, k.params).answer) = K
    BY <1>1, FlagsPrinted
  <2>2. RowLines(c, "vx_bcaps", K) = K
    <3>1. \A x \in K : RowLine("vx_bcaps", x, c["vx_bcaps"][x]) = x
      BY BcapsRowLine
    <3>2. QED  BY <3>1 DEF RowLines
  <2>3. Promised!Shown(LinesOf(c), line, sent) = Tagged(line.cmd, RowLines(c, "vx_bcaps", K))
    BY <1>3, ShownIs, TheTables
  <2>4. QED  BY <2>1, <2>2, <2>3, Zenon
<1>5. QED  BY <1>1, <1>2, <1>4, Zenon DEF GetKept

LEMMA CcapsGet ==
    ASSUME NEW line, NEW sent, line.cmd = "vx.ccaps.get", NEW k,
           k = cmd_vx_ccaps_get(line.argv), k.method # "usage"
    PROVE  GetKept(line, sent, k)
<1>1. /\ k.method = "vxdb.vx.ccaps.get" /\ k.reply = TextArray
      /\ Decomposes(k.params, [name |-> "s"])
  BY DEF cmd_vx_ccaps_get, ByName, Call, Usage, Decomposes, S
<1>2. \A c : ConfMethod(k.method, c, k.params) = m_vxdb_vx_ccaps_get(c, k.params)
  BY <1>1 DEF ConfMethod
<1>3. Promised!Meaning(line.cmd) = "vx_ccaps"
  BY MeaningIs
<1>4. ASSUME NEW c
      PROVE  Tagged(line.cmd, Printed(TextArray, m_vxdb_vx_ccaps_get(c, k.params).answer))
               = Promised!Shown(LinesOf(c), line, sent)
  <2> DEFINE K == DOMAIN c["vx_ccaps"]
  <2>1. Printed(TextArray, m_vxdb_vx_ccaps_get(c, k.params).answer) = K
    BY <1>1, FlagsPrinted
  <2>2. RowLines(c, "vx_ccaps", K) = K
    <3>1. \A x \in K : RowLine("vx_ccaps", x, c["vx_ccaps"][x]) = x
      BY CcapsRowLine
    <3>2. QED  BY <3>1 DEF RowLines
  <2>3. Promised!Shown(LinesOf(c), line, sent) = Tagged(line.cmd, RowLines(c, "vx_ccaps", K))
    BY <1>3, ShownIs, TheTables
  <2>4. QED  BY <2>1, <2>2, <2>3, Zenon
<1>5. QED  BY <1>1, <1>2, <1>4, Zenon DEF GetKept

LEMMA FlagsGet ==
    ASSUME NEW line, NEW sent, line.cmd = "vx.flags.get", NEW k,
           k = cmd_vx_flags_get(line.argv), k.method # "usage"
    PROVE  GetKept(line, sent, k)
<1>1. /\ k.method = "vxdb.vx.flags.get" /\ k.reply = TextArray
      /\ Decomposes(k.params, [name |-> "s"])
  BY DEF cmd_vx_flags_get, ByName, Call, Usage, Decomposes, S
<1>2. \A c : ConfMethod(k.method, c, k.params) = m_vxdb_vx_flags_get(c, k.params)
  BY <1>1 DEF ConfMethod
<1>3. Promised!Meaning(line.cmd) = "vx_flags"
  BY MeaningIs
<1>4. ASSUME NEW c
      PROVE  Tagged(line.cmd, Printed(TextArray, m_vxdb_vx_flags_get(c, k.params).answer))
               = Promised!Shown(LinesOf(c), line, sent)
  <2> DEFINE K == DOMAIN c["vx_flags"]
  <2>1. Printed(TextArray, m_vxdb_vx_flags_get(c, k.params).answer) = K
    BY <1>1, FlagsPrinted
  <2>2. RowLines(c, "vx_flags", K) = K
    <3>1. \A x \in K : RowLine("vx_flags", x, c["vx_flags"][x]) = x
      BY FlagsRowLine
    <3>2. QED  BY <3>1 DEF RowLines
  <2>3. Promised!Shown(LinesOf(c), line, sent) = Tagged(line.cmd, RowLines(c, "vx_flags", K))
    BY <1>3, ShownIs, TheTables
  <2>4. QED  BY <2>1, <2>2, <2>3, Zenon
<1>5. QED  BY <1>1, <1>2, <1>4, Zenon DEF GetKept

LEMMA MountGet ==
    ASSUME NEW line, NEW sent, line.cmd = "mount.get", NEW k, line.argv \in Seq(STRING),
           k = cmd_mount_get(line.argv), k.method # "usage"
    PROVE  GetKept(line, sent, k)
<1>1. /\ k.method = "vxdb.mount.get" /\ k.reply = MountReply
      /\ Decomposes(k.params, [name |-> "s", dst |-> "s"])
      /\ k.params["dst"][2] = Arg(line.argv, 2, Blank)
  BY DEF cmd_mount_get, ByNameAnd, Call, Usage, Decomposes, S, MountReply
<1>2. \A c : ConfMethod(k.method, c, k.params) = m_vxdb_mount_get(c, k.params)
  BY <1>1 DEF ConfMethod
<1>3. Promised!Meaning(line.cmd) = "mount" /\ "mount" \notin Promised!Unique \cup {"vx_sched"}
  BY MeaningIs DEF Promised!Unique
<1>4. ASSUME NEW c, m_vxdb_mount_get(c, k.params).fault = "none"
      PROVE  Tagged(line.cmd, Printed(MountReply, m_vxdb_mount_get(c, k.params).answer))
               = Promised!Shown(LinesOf(c), line, sent)
  <2> DEFINE K == Chosen(c.mount, Arg(line.argv, 2, Blank), Blank)
  <2>1. Printed(MountReply, m_vxdb_mount_get(c, k.params).answer)
           = {MountLine(x, c.mount[x]) : x \in K}
    BY <1>1, <1>4, MountPrinted
  <2>2. RowLines(c, "mount", K) = {MountLine(x, c.mount[x]) : x \in K}
    <3>1. \A x \in K : RowLine("mount", x, c.mount[x]) = MountLine(x, c.mount[x])
      BY MountRowLine
    <3>2. QED  BY <3>1, Zenon DEF RowLines
  <2>3. /\ K \subseteq DOMAIN c["mount"]
        /\ \A x \in DOMAIN c["mount"] : x \in K <=> Meant(line, sent, "mount", x)
    BY <1>3, NamedMeant DEF Chosen
  <2> HIDE DEF K
  <2>4. Promised!Shown(LinesOf(c), line, sent) = Tagged(line.cmd, RowLines(c, "mount", K))
    BY <1>3, <2>3, ShownIs, TheTables
  <2>5. QED  BY <2>1, <2>2, <2>4, Zenon
<1>5. QED  BY <1>1, <1>2, <1>4, Zenon DEF GetKept

LEMMA AddrGet ==
    ASSUME NEW line, NEW sent, line.cmd = "nx.addr.get", NEW k, line.argv \in Seq(STRING),
           k = cmd_nx_addr_get(line.argv), k.method # "usage"
    PROVE  GetKept(line, sent, k)
<1>1. /\ k.method = "vxdb.nx.addr.get" /\ k.reply = AddrReply
      /\ Decomposes(k.params, [name |-> "s", addr |-> "s"])
      /\ k.params["addr"][2] = Arg(line.argv, 2, Blank)
  BY DEF cmd_nx_addr_get, ByNameAnd, Call, Usage, Decomposes, S, AddrReply
<1>2. \A c : ConfMethod(k.method, c, k.params) = m_vxdb_nx_addr_get(c, k.params)
  BY <1>1 DEF ConfMethod
<1>3. Promised!Meaning(line.cmd) = "nx_addr" /\ "nx_addr" \notin Promised!Unique \cup {"vx_sched"}
  BY MeaningIs DEF Promised!Unique
<1>4. ASSUME NEW c, m_vxdb_nx_addr_get(c, k.params).fault = "none"
      PROVE  Tagged(line.cmd, Printed(AddrReply, m_vxdb_nx_addr_get(c, k.params).answer))
               = Promised!Shown(LinesOf(c), line, sent)
  <2> DEFINE K == Chosen(c.nx_addr, Arg(line.argv, 2, Blank), Blank)
  <2>1. Printed(AddrReply, m_vxdb_nx_addr_get(c, k.params).answer)
           = {AddrLine(x, c.nx_addr[x]) : x \in K}
    BY <1>1, <1>4, AddrPrinted
  <2>2. RowLines(c, "nx_addr", K) = {AddrLine(x, c.nx_addr[x]) : x \in K}
    <3>1. \A x \in K : RowLine("nx_addr", x, c.nx_addr[x]) = AddrLine(x, c.nx_addr[x])
      BY AddrRowLine
    <3>2. QED  BY <3>1, Zenon DEF RowLines
  <2>3. /\ K \subseteq DOMAIN c["nx_addr"]
        /\ \A x \in DOMAIN c["nx_addr"] : x \in K <=> Meant(line, sent, "nx_addr", x)
    BY <1>3, NamedMeant DEF Chosen
  <2> HIDE DEF K
  <2>4. Promised!Shown(LinesOf(c), line, sent) = Tagged(line.cmd, RowLines(c, "nx_addr", K))
    BY <1>3, <2>3, ShownIs, TheTables
  <2>5. QED  BY <2>1, <2>2, <2>4, Zenon
<1>5. QED  BY <1>1, <1>2, <1>4, Zenon DEF GetKept

LEMMA LimitGet ==
    ASSUME NEW line, NEW sent, line.cmd = "vx.limit.get", NEW k, line.argv \in Seq(STRING),
           k = cmd_vx_limit_get(line.argv), k.method # "usage"
    PROVE  GetKept(line, sent, k)
<1>1. /\ k.method = "vxdb.vx.limit.get" /\ k.reply = LimitReply
      /\ Decomposes(k.params, [name |-> "s", type |-> "s"])
      /\ k.params["type"][2] = Arg(line.argv, 2, Blank)
  BY DEF cmd_vx_limit_get, ByNameAnd, Call, Usage, Decomposes, S, LimitReply
<1>2. \A c : ConfMethod(k.method, c, k.params) = m_vxdb_vx_limit_get(c, k.params)
  BY <1>1 DEF ConfMethod
<1>3. Promised!Meaning(line.cmd) = "vx_limit" /\ "vx_limit" \notin Promised!Unique \cup {"vx_sched"}
  BY MeaningIs DEF Promised!Unique
<1>4. ASSUME NEW c, m_vxdb_vx_limit_get(c, k.params).fault = "none"
      PROVE  Tagged(line.cmd, Printed(LimitReply, m_vxdb_vx_limit_get(c, k.params).answer))
               = Promised!Shown(LinesOf(c), line, sent)
  <2> DEFINE K == Chosen(c.vx_limit, Arg(line.argv, 2, Blank), Blank)
  <2>1. Printed(LimitReply, m_vxdb_vx_limit_get(c, k.params).answer)
           = {LimitLine(x, c.vx_limit[x]) : x \in K}
    BY <1>1, <1>4, LimitPrinted
  <2>2. RowLines(c, "vx_limit", K) = {LimitLine(x, c.vx_limit[x]) : x \in K}
    <3>1. \A x \in K : RowLine("vx_limit", x, c.vx_limit[x]) = LimitLine(x, c.vx_limit[x])
      BY LimitRowLine
    <3>2. QED  BY <3>1, Zenon DEF RowLines
  <2>3. /\ K \subseteq DOMAIN c["vx_limit"]
        /\ \A x \in DOMAIN c["vx_limit"] : x \in K <=> Meant(line, sent, "vx_limit", x)
    BY <1>3, NamedMeant DEF Chosen
  <2> HIDE DEF K
  <2>4. Promised!Shown(LinesOf(c), line, sent) = Tagged(line.cmd, RowLines(c, "vx_limit", K))
    BY <1>3, <2>3, ShownIs, TheTables
  <2>5. QED  BY <2>1, <2>2, <2>4, Zenon
<1>5. QED  BY <1>1, <1>2, <1>4, Zenon DEF GetKept

LEMMA SchedGet ==
    ASSUME NEW line, NEW sent, line.cmd = "vx.sched.get", NEW k, line.argv \in Seq(STRING),
           k = cmd_vx_sched_get(line.argv, sent), k.method # "usage"
    PROVE  GetKept(line, sent, k)
<1>1. /\ k.method = "vxdb.vx.sched.get" /\ k.reply = SchedReply
      /\ Decomposes(k.params, [name |-> "s", cpuid |-> "i"])
      /\ k.params["cpuid"][2] = Cpuid(line.argv, sent)
  BY DEF cmd_vx_sched_get, Cpuid, Call, Usage, Decomposes, S, I, SchedReply
<1>2. \A c : ConfMethod(k.method, c, k.params) = m_vxdb_vx_sched_get(c, k.params)
  BY <1>1 DEF ConfMethod
<1>3. Promised!Meaning(line.cmd) = "vx_sched"
  BY MeaningIs DEF Promised!Unique
<1>4. ASSUME NEW c, m_vxdb_vx_sched_get(c, k.params).fault = "none"
      PROVE  Tagged(line.cmd, Printed(SchedReply, m_vxdb_vx_sched_get(c, k.params).answer))
               = Promised!Shown(LinesOf(c), line, sent)
  <2> DEFINE K == Chosen(c.vx_sched, Cpuid(line.argv, sent), -2)
  <2>1. Printed(SchedReply, m_vxdb_vx_sched_get(c, k.params).answer)
           = {SchedLine(x, c.vx_sched[x]) : x \in K}
    BY <1>1, <1>4, SchedPrinted
  <2>2. RowLines(c, "vx_sched", K) = {SchedLine(x, c.vx_sched[x]) : x \in K}
    <3>1. \A x \in K : RowLine("vx_sched", x, c.vx_sched[x]) = SchedLine(x, c.vx_sched[x])
      BY SchedRowLine
    <3>2. QED  BY <3>1, Zenon DEF RowLines
  <2>3. /\ K \subseteq DOMAIN c["vx_sched"]
        /\ \A x \in DOMAIN c["vx_sched"] : x \in K <=> Meant(line, sent, "vx_sched", x)
    BY <1>3, SchedMeant DEF Chosen
  <2> HIDE DEF K
  <2>4. Promised!Shown(LinesOf(c), line, sent) = Tagged(line.cmd, RowLines(c, "vx_sched", K))
    BY <1>3, <2>3, ShownIs, TheTables
  <2>5. QED  BY <2>1, <2>2, <2>4, Zenon
<1>5. QED  BY <1>1, <1>2, <1>4, Zenon DEF GetKept

LEMMA UnameGet ==
    ASSUME NEW line, NEW sent, line.cmd = "vx.uname.get", NEW k, line.argv \in Seq(STRING),
           k = cmd_vx_uname_get(line.argv), k.method # "usage"
    PROVE  GetKept(line, sent, k)
<1>1. /\ k.method = "vxdb.vx.uname.get" /\ k.reply = UnameReply
      /\ Decomposes(k.params, [name |-> "s", type |-> "s"])
      /\ k.params["type"][2] = Arg(line.argv, 2, Blank)
  BY DEF cmd_vx_uname_get, ByNameAnd, Call, Usage, Decomposes, S, UnameReply
<1>2. \A c : ConfMethod(k.method, c, k.params) = m_vxdb_vx_uname_get(c, k.params)
  BY <1>1 DEF ConfMethod
<1>3. Promised!Meaning(line.cmd) = "vx_uname" /\ "vx_uname" \notin Promised!Unique \cup {"vx_sched"}
  BY MeaningIs DEF Promised!Unique
<1>4. ASSUME NEW c, m_vxdb_vx_uname_get(c, k.params).fault = "none"
      PROVE  Tagged(line.cmd, Printed(UnameReply, m_vxdb_vx_uname_get(c, k.params).answer))
               = Promised!Shown(LinesOf(c), line, sent)
  <2> DEFINE K == Chosen(c.vx_uname, Arg(line.argv, 2, Blank), Blank)
  <2>1. Printed(UnameReply, m_vxdb_vx_uname_get(c, k.params).answer)
           = {UnameLine(x, c.vx_uname[x]) : x \in K}
    BY <1>1, <1>4, UnamePrinted
  <2>2. RowLines(c, "vx_uname", K) = {UnameLine(x, c.vx_uname[x]) : x \in K}
    <3>1. \A x \in K : RowLine("vx_uname", x, c.vx_uname[x]) = UnameLine(x, c.vx_uname[x])
      BY UnameRowLine
    <3>2. QED  BY <3>1, Zenon DEF RowLines
  <2>3. /\ K \subseteq DOMAIN c["vx_uname"]
        /\ \A x \in DOMAIN c["vx_uname"] : x \in K <=> Meant(line, sent, "vx_uname", x)
    BY <1>3, NamedMeant DEF Chosen
  <2> HIDE DEF K
  <2>4. Promised!Shown(LinesOf(c), line, sent) = Tagged(line.cmd, RowLines(c, "vx_uname", K))
    BY <1>3, <2>3, ShownIs, TheTables
  <2>5. QED  BY <2>1, <2>2, <2>4, Zenon
<1>5. QED  BY <1>1, <1>2, <1>4, Zenon DEF GetKept

-----------------------------------------------------------------------------
(* Remove commands keep the promise *)

LEMMA DeleteVisible ==
    ASSUME NEW c, NEW t \in Tables, NEW K, RowsOK(c), Visible(c)
    PROVE  Visible(Delete(c, t, K))
<1> DEFINE d == Delete(c, t, K)
           rows == Without(c[t], K)
<1>1. d = [c EXCEPT ![t] = rows]
  BY DEF Delete, RowsOK
<1>2. DOMAIN rows \subseteq DOMAIN c[t] /\ \A x \in DOMAIN rows : rows[x] = c[t][x]
  BY DEF Without
<1> HIDE DEF rows
<1>3. \A u \in Tables : DOMAIN d[u] \subseteq DOMAIN c[u] /\ \A x \in DOMAIN d[u] : d[u][x] = c[u][x]
  BY <1>1, <1>2 DEF RowsOK
<1> HIDE DEF d
<1>4. {"dx_limit", "vx_cpuset", "nx_broadcast"} \subseteq Tables
  BY TheTables
<1>5. Visible(d)
  BY <1>3, <1>4 DEF Visible
<1>6. QED  BY <1>5 DEF d

LEMMA DxRemove ==
    ASSUME NEW line, NEW sent, line.cmd = "dx.limit.remove", NEW k,
           k = cmd_dx_limit_remove(line.argv), k.method # "usage"
    PROVE  ChangeKept(line, sent, k)
<1>1. /\ k.method = "vxdb.dx.limit.remove"
      /\ Decomposes(k.params, [name |-> "s"])
  BY DEF cmd_dx_limit_remove, ByName, Call, Usage, Decomposes, S
<1>2. \A c : ConfMethod(k.method, c, k.params) = m_vxdb_dx_limit_remove(c, k.params)
  BY <1>1 DEF ConfMethod
<1>3. Promised!Meaning(line.cmd) = "dx_limit" /\ "dx_limit" \in Promised!Unique
      /\ line.cmd \in Promised!Removes /\ "dx_limit" \in Tables
  BY MeaningIs, TheTables DEF Promised!Unique, Promised!Removes
<1>4. line.cmd # "mount.set"
  BY DEF Promised!Unique
<1>5. ASSUME NEW c, RowsOK(c), Visible(c), m_vxdb_dx_limit_remove(c, k.params).fault = "none"
      PROVE  /\ LinesOf(m_vxdb_dx_limit_remove(c, k.params).next) = Promised!Promise(LinesOf(c), line, sent)
             /\ Visible(m_vxdb_dx_limit_remove(c, k.params).next)
  <2> DEFINE K == Single
  <2>1. m_vxdb_dx_limit_remove(c, k.params).next = Delete(c, "dx_limit", K)
    BY <1>1, <1>5 DEF m_vxdb_dx_limit_remove, Checked, Changed
  <2>2. \A x \in DOMAIN c["dx_limit"] : x \in K <=> Meant(line, sent, "dx_limit", x)
    <3>1. \A x : Meant(line, sent, "dx_limit", x)
      BY <1>3, <1>4, UniqueMeant
    <3>2. QED  BY <1>5, <3>1, TheTables DEF RowsOK, Single
  <2> HIDE DEF K
  <2>3. LinesOf(Delete(c, "dx_limit", K)) = Promised!Promise(LinesOf(c), line, sent)
    BY <1>3, <1>5, <2>2, RemoveIs
  <2>4. Visible(Delete(c, "dx_limit", K))
    BY <1>3, <1>5, DeleteVisible
  <2>5. QED  BY <2>1, <2>3, <2>4, Zenon
<1>6. QED  BY <1>2, <1>5, Zenon DEF ChangeKept

LEMMA CpusetRemove ==
    ASSUME NEW line, NEW sent, line.cmd = "vx.cpuset.remove", NEW k,
           k = cmd_vx_cpuset_remove(line.argv), k.method # "usage"
    PROVE  ChangeKept(line, sent, k)
<1>1. /\ k.method = "vxdb.vx.cpuset.remove"
      /\ Decomposes(k.params, [name |-> "s"])
  BY DEF cmd_vx_cpuset_remove, ByName, Call, Usage, Decomposes, S
<1>2. \A c : ConfMethod(k.method, c, k.params) = m_vxdb_vx_cpuset_remove(c, k.params)
  BY <1>1 DEF ConfMethod
<1>3. Promised!Meaning(line.cmd) = "vx_cpuset" /\ "vx_cpuset" \in Promised!Unique
      /\ line.cmd \in Promised!Removes /\ "vx_cpuset" \in Tables
  BY MeaningIs, TheTables DEF Promised!Unique, Promised!Removes
<1>4. line.cmd # "mount.set"
  BY DEF Promised!Unique
<1>5. ASSUME NEW c, RowsOK(c), Visible(c), m_vxdb_vx_cpuset_remove(c, k.params).fault = "none"
      PROVE  /\ LinesOf(m_vxdb_vx_cpuset_remove(c, k.params).next) = Promised!Promise(LinesOf(c), line, sent)
             /\ Visible(m_vxdb_vx_cpuset_remove(c, k.params).next)
  <2> DEFINE K == Single
  <2>1. m_vxdb_vx_cpuset_remove(c, k.params).next = Delete(c, "vx_cpuset", K)
    BY <1>1, <1>5 DEF m_vxdb_vx_cpuset_remove, Checked, Changed
  <2>2. \A x \in DOMAIN c["vx_cpuset"] : x \in K <=> Meant(line, sent, "vx_cpuset", x)
    <3>1. \A x : Meant(line, sent, "vx_cpuset", x)
      BY <1>3, <1>4, UniqueMeant
    <3>2. QED  BY <1>5, <3>1, TheTables DEF RowsOK, Single
  <2> HIDE DEF K
  <2>3. LinesOf(Delete(c, "vx_cpuset", K)) = Promised!Promise(LinesOf(c), line, sent)
    BY <1>3, <1>5, <2>2, RemoveIs
  <2>4. Visible(Delete(c, "vx_cpuset", K))
    BY <1>3, <1>5, DeleteVisible
  <2>5. QED  BY <2>1, <2>3, <2>4, Zenon
<1>6. QED  BY <1>2, <1>5, Zenon DEF ChangeKept

LEMMA BroadcastRemove ==
    ASSUME NEW line, NEW sent, line.cmd = "nx.broadcast.remove", NEW k,
           k = cmd_nx_broadcast_remove(line.argv), k.method # "usage"
    PROVE  ChangeKept(line, sent, k)
<1>1. /\ k.method = "vxdb.nx.broadcast.remove"
      /\ Decomposes(k.params, [name |-> "s"])
  BY DEF cmd_nx_broadcast_remove, ByName, Call, Usage, Decomposes, S
<1>2. \A c : ConfMethod(k.method, c, k.params) = m_vxdb_nx_broadcast_remove(c, k.params)
  BY <1>1 DEF ConfMethod
<1>3. Promised!Meaning(line.cmd) = "nx_broadcast" /\ "nx_broadcast" \in Promised!Unique
      /\ line.cmd \in Promised!Removes /\ "nx_broadcast" \in Tables
  BY MeaningIs, TheTables DEF Promised!Unique, Promised!Removes
<1>4. line.cmd # "mount.set"
  BY DEF Promised!Unique
<1>5. ASSUME NEW c, RowsOK(c), Visible(c), m_vxdb_nx_broadcast_remove(c, k.params).fault = "none"
      PROVE  /\ LinesOf(m_vxdb_nx_broadcast_remove(c, k.params).next) = Promised!Promise(LinesOf(c), line, sent)
             /\ Visible(m_vxdb_nx_broadcast_remove(c, k.params).next)
  <2> DEFINE K == Single
  <2>1. m_vxdb_nx_broadcast_remove(c, k.params).next = Delete(c, "nx_broadcast", K)
    BY <1>1, <1>5 DEF m_vxdb_nx_broadcast_remove, Checked, Changed
  <2>2. \A x \in DOMAIN c["nx_broadcast"] : x \in K <=> Meant(line, sent, "nx_broadcast", x)
    <3>1. \A x : Meant(line, sent, "nx_broadcast", x)
      BY <1>3, <1>4, UniqueMeant
    <3>2. QED  BY <1>5, <3>1, TheTables DEF RowsOK, Single
  <2> HIDE DEF K
  <2>3. LinesOf(Delete(c, "nx_broadcast", K)) = Promised!Promise(LinesOf(c), line, sent)
    BY <1>3, <1>5, <2>2, RemoveIs
  <2>4. Visible(Delete(c, "nx_broadcast", K))
    BY <1>3, <1>5, DeleteVisible
  <2>5. QED  BY <2>1, <2>3, <2>4, Zenon
<1>6. QED  BY <1>2, <1>5, Zenon DEF ChangeKept

LEMMA MountRemove ==
    ASSUME NEW line, NEW sent, line.cmd = "mount.remove", NEW k, line.argv \in Seq(STRING),
           k = cmd_mount_remove(line.argv), k.method # "usage"
    PROVE  ChangeKept(line, sent, k)
<1>1. /\ k.method = "vxdb.mount.remove"
      /\ Decomposes(k.params, [name |-> "s", dst |-> "s"])
      /\ k.params["dst"][2] = Arg(line.argv, 2, Blank)
  BY DEF cmd_mount_remove, ByNameAnd, Call, Usage, Decomposes, S
<1>2. \A c : ConfMethod(k.method, c, k.params) = m_vxdb_mount_remove(c, k.params)
  BY <1>1 DEF ConfMethod
<1>3. Promised!Meaning(line.cmd) = "mount"
      /\ line.cmd \in Promised!Removes /\ "mount" \in Tables
  BY MeaningIs, TheTables DEF Promised!Unique, Promised!Removes
<1>4. line.cmd # "mount.set" /\ "mount" \notin Promised!Unique \cup {"vx_sched"}
  BY DEF Promised!Unique
<1>5. ASSUME NEW c, RowsOK(c), Visible(c), m_vxdb_mount_remove(c, k.params).fault = "none"
      PROVE  /\ LinesOf(m_vxdb_mount_remove(c, k.params).next) = Promised!Promise(LinesOf(c), line, sent)
             /\ Visible(m_vxdb_mount_remove(c, k.params).next)
  <2> DEFINE K == Chosen(c["mount"], Arg(line.argv, 2, Blank), Blank)
  <2>1. m_vxdb_mount_remove(c, k.params).next = Delete(c, "mount", K)
    <3>1. Fields(k.params).dst = Arg(line.argv, 2, Blank)
      BY <1>1 DEF Fields, Decomposes
    <3>2. OneOrAll(c, "mount", Fields(k.params).dst, Blank) = K
      BY <3>1, Zenon DEF OneOrAll, Chosen
    <3> HIDE DEF K
    <3>3. QED  BY <1>5, <3>2 DEF m_vxdb_mount_remove, Checked, Changed, Refused
  <2>2. \A x \in DOMAIN c["mount"] : x \in K <=> Meant(line, sent, "mount", x)
    <3>1. \A rows : \A x \in DOMAIN rows : x \in Chosen(rows, Arg(line.argv, 2, Blank), Blank) <=> Meant(line, sent, "mount", x)
      BY <1>3, <1>4, NamedMeant
    <3>2. QED  BY <3>1, Zenon
  <2> HIDE DEF K
  <2>3. LinesOf(Delete(c, "mount", K)) = Promised!Promise(LinesOf(c), line, sent)
    BY <1>3, <1>5, <2>2, RemoveIs
  <2>4. Visible(Delete(c, "mount", K))
    BY <1>3, <1>5, DeleteVisible
  <2>5. QED  BY <2>1, <2>3, <2>4, Zenon
<1>6. QED  BY <1>2, <1>5, Zenon DEF ChangeKept

LEMMA AddrRemove ==
    ASSUME NEW line, NEW sent, line.cmd = "nx.addr.remove", NEW k, line.argv \in Seq(STRING),
           k = cmd_nx_addr_remove(line.argv), k.method # "usage"
    PROVE  ChangeKept(line, sent, k)
<1>1. /\ k.method = "vxdb.nx.addr.remove"
      /\ Decomposes(k.params, [name |-> "s", addr |-> "s"])
      /\ k.params["addr"][2] = Arg(line.argv, 2, Blank)
  BY DEF cmd_nx_addr_remove, ByNameAnd, Call, Usage, Decomposes, S
<1>2. \A c : ConfMethod(k.method, c, k.params) = m_vxdb_nx_addr_remove(c, k.params)
  BY <1>1 DEF ConfMethod
<1>3. Promised!Meaning(line.cmd) = "nx_addr"
      /\ line.cmd \in Promised!Removes /\ "nx_addr" \in Tables
  BY MeaningIs, TheTables DEF Promised!Unique, Promised!Removes
<1>4. line.cmd # "mount.set" /\ "nx_addr" \notin Promised!Unique \cup {"vx_sched"}
  BY DEF Promised!Unique
<1>5. ASSUME NEW c, RowsOK(c), Visible(c), m_vxdb_nx_addr_remove(c, k.params).fault = "none"
      PROVE  /\ LinesOf(m_vxdb_nx_addr_remove(c, k.params).next) = Promised!Promise(LinesOf(c), line, sent)
             /\ Visible(m_vxdb_nx_addr_remove(c, k.params).next)
  <2> DEFINE K == Chosen(c["nx_addr"], Arg(line.argv, 2, Blank), Blank)
  <2>1. m_vxdb_nx_addr_remove(c, k.params).next = Delete(c, "nx_addr", K)
    <3>1. Fields(k.params).addr = Arg(line.argv, 2, Blank)
      BY <1>1 DEF Fields, Decomposes
    <3>2. OneOrAll(c, "nx_addr", Fields(k.params).addr, Blank) = K
      BY <3>1, Zenon DEF OneOrAll, Chosen
    <3> HIDE DEF K
    <3>3. QED  BY <1>5, <3>2 DEF m_vxdb_nx_addr_remove, Checked, Changed, Refused
  <2>2. \A x \in DOMAIN c["nx_addr"] : x \in K <=> Meant(line, sent, "nx_addr", x)
    <3>1. \A rows : \A x \in DOMAIN rows : x \in Chosen(rows, Arg(line.argv, 2, Blank), Blank) <=> Meant(line, sent, "nx_addr", x)
      BY <1>3, <1>4, NamedMeant
    <3>2. QED  BY <3>1, Zenon
  <2> HIDE DEF K
  <2>3. LinesOf(Delete(c, "nx_addr", K)) = Promised!Promise(LinesOf(c), line, sent)
    BY <1>3, <1>5, <2>2, RemoveIs
  <2>4. Visible(Delete(c, "nx_addr", K))
    BY <1>3, <1>5, DeleteVisible
  <2>5. QED  BY <2>1, <2>3, <2>4, Zenon
<1>6. QED  BY <1>2, <1>5, Zenon DEF ChangeKept

LEMMA BcapsRemove ==
    ASSUME NEW line, NEW sent, line.cmd = "vx.bcaps.remove", NEW k, line.argv \in Seq(STRING),
           k = cmd_vx_bcaps_remove(line.argv), k.method # "usage"
    PROVE  ChangeKept(line, sent, k)
<1>1. /\ k.method = "vxdb.vx.bcaps.remove"
      /\ Decomposes(k.params, [name |-> "s", bcap |-> "s"])
      /\ k.params["bcap"][2] = Arg(line.argv, 2, Blank)
  BY DEF cmd_vx_bcaps_remove, ByNameAnd, Call, Usage, Decomposes, S
<1>2. \A c : ConfMethod(k.method, c, k.params) = m_vxdb_vx_bcaps_remove(c, k.params)
  BY <1>1 DEF ConfMethod
<1>3. Promised!Meaning(line.cmd) = "vx_bcaps"
      /\ line.cmd \in Promised!Removes /\ "vx_bcaps" \in Tables
  BY MeaningIs, TheTables DEF Promised!Unique, Promised!Removes
<1>4. line.cmd # "mount.set" /\ "vx_bcaps" \notin Promised!Unique \cup {"vx_sched"}
  BY DEF Promised!Unique
<1>5. ASSUME NEW c, RowsOK(c), Visible(c), m_vxdb_vx_bcaps_remove(c, k.params).fault = "none"
      PROVE  /\ LinesOf(m_vxdb_vx_bcaps_remove(c, k.params).next) = Promised!Promise(LinesOf(c), line, sent)
             /\ Visible(m_vxdb_vx_bcaps_remove(c, k.params).next)
  <2> DEFINE K == Chosen(c["vx_bcaps"], Arg(line.argv, 2, Blank), Blank)
  <2>1. m_vxdb_vx_bcaps_remove(c, k.params).next = Delete(c, "vx_bcaps", K)
    <3>1. Fields(k.params).bcap = Arg(line.argv, 2, Blank)
      BY <1>1 DEF Fields, Decomposes
    <3>2. OneOrAll(c, "vx_bcaps", Fields(k.params).bcap, Blank) = K
      BY <3>1, Zenon DEF OneOrAll, Chosen
    <3> HIDE DEF K
    <3>3. QED  BY <1>5, <3>2 DEF m_vxdb_vx_bcaps_remove, Checked, Changed, Refused
  <2>2. \A x \in DOMAIN c["vx_bcaps"] : x \in K <=> Meant(line, sent, "vx_bcaps", x)
    <3>1. \A rows : \A x \in DOMAIN rows : x \in Chosen(rows, Arg(line.argv, 2, Blank), Blank) <=> Meant(line, sent, "vx_bcaps", x)
      BY <1>3, <1>4, NamedMeant
    <3>2. QED  BY <3>1, Zenon
  <2> HIDE DEF K
  <2>3. LinesOf(Delete(c, "vx_bcaps", K)) = Promised!Promise(LinesOf(c), line, sent)
    BY <1>3, <1>5, <2>2, RemoveIs
  <2>4. Visible(Delete(c, "vx_bcaps", K))
    BY <1>3, <1>5, DeleteVisible
  <2>5. QED  BY <2>1, <2>3, <2>4, Zenon
<1>6. QED  BY <1>2, <1>5, Zenon DEF ChangeKept

LEMMA CcapsRemove ==
    ASSUME NEW line, NEW sent, line.cmd = "vx.ccaps.remove", NEW k, line.argv \in Seq(STRING),
           k = cmd_vx_ccaps_remove(line.argv), k.method # "usage"
    PROVE  ChangeKept(line, sent, k)
<1>1. /\ k.method = "vxdb.vx.ccaps.remove"
      /\ Decomposes(k.params, [name |-> "s", ccap |-> "s"])
      /\ k.params["ccap"][2] = Arg(line.argv, 2, Blank)
  BY DEF cmd_vx_ccaps_remove, ByNameAnd, Call, Usage, Decomposes, S
<1>2. \A c : ConfMethod(k.method, c, k.params) = m_vxdb_vx_ccaps_remove(c, k.params)
  BY <1>1 DEF ConfMethod
<1>3. Promised!Meaning(line.cmd) = "vx_ccaps"
      /\ line.cmd \in Promised!Removes /\ "vx_ccaps" \in Tables
  BY MeaningIs, TheTables DEF Promised!Unique, Promised!Removes
<1>4. line.cmd # "mount.set" /\ "vx_ccaps" \notin Promised!Unique \cup {"vx_sched"}
  BY DEF Promised!Unique
<1>5. ASSUME NEW c, RowsOK(c), Visible(c), m_vxdb_vx_ccaps_remove(c, k.params).fault = "none"
      PROVE  /\ LinesOf(m_vxdb_vx_ccaps_remove(c, k.params).next) = Promised!Promise(LinesOf(c), line, sent)
             /\ Visible(m_vxdb_vx_ccaps_remove(c, k.params).next)
  <2> DEFINE K == Chosen(c["vx_ccaps"], Arg(line.argv, 2, Blank), Blank)
  <2>1. m_vxdb_vx_ccaps_remove(c, k.params).next = Delete(c, "vx_ccaps", K)
    <3>1. Fields(k.params).ccap = Arg(line.argv, 2, Blank)
      BY <1>1 DEF Fields, Decomposes
    <3>2. OneOrAll(c, "vx_ccaps", Fields(k.params).ccap, Blank) = K
      BY <3>1, Zenon DEF OneOrAll, Chosen
    <3> HIDE DEF K
    <3>3. QED  BY <1>5, <3>2 DEF m_vxdb_vx_ccaps_remove, Checked, Changed, Refused
  <2>2. \A x \in DOMAIN c["vx_ccaps"] : x \in K <=> Meant(line, sent, "vx_ccaps", x)
    <3>1. \A rows : \A x \in DOMAIN rows : x \in Chosen(rows, Arg(line.argv, 2, Blank), Blank) <=> Meant(line, sent, "vx_ccaps", x)
      BY <1>3, <1>4, NamedMeant
    <3>2. QED  BY <3>1, Zenon
  <2> HIDE DEF K
  <2>3. LinesOf(Delete(c, "vx_ccaps", K)) = Promised!Promise(LinesOf(c), line, sent)
    BY <1>3, <1>5, <2>2, RemoveIs
  <2>4. Visible(Delete(c, "vx_ccaps", K))
    BY <1>3, <1>5, DeleteVisible
  <2>5. QED  BY <2>1, <2>3, <2>4, Zenon
<1>6. QED  BY <1>2, <1>5, Zenon DEF ChangeKept

LEMMA FlagsRemove ==
    ASSUME NEW line, NEW sent, line.cmd = "vx.flags.remove", NEW k, line.argv \in Seq(STRING),
           k = cmd_vx_flags_remove(line.argv), k.method # "usage"
    PROVE  ChangeKept(line, sent, k)
<1>1. /\ k.method = "vxdb.vx.flags.remove"
      /\ Decomposes(k.params, [name |-> "s", flag |-> "s"])
      /\ k.params["flag"][2] = Arg(line.argv, 2, Blank)
  BY DEF cmd_vx_flags_remove, ByNameAnd, Call, Usage, Decomposes, S
<1>2. \A c : ConfMethod(k.method, c, k.params) = m_vxdb_vx_flags_remove(c, k.params)
  BY <1>1 DEF ConfMethod
<1>3. Promised!Meaning(line.cmd) = "vx_flags"
      /\ line.cmd \in Promised!Removes /\ "vx_flags" \in Tables
  BY MeaningIs, TheTables DEF Promised!Unique, Promised!Removes
<1>4. line.cmd # "mount.set" /\ "vx_flags" \notin Promised!Unique \cup {"vx_sched"}
  BY DEF Promised!Unique
<1>5. ASSUME NEW c, RowsOK(c), Visible(c), m_vxdb_vx_flags_remove(c, k.params).fault = "none"
      PROVE  /\ LinesOf(m_vxdb_vx_flags_remove(c, k.params).next) = Promised!Promise(LinesOf(c), line, sent)
             /\ Visible(m_vxdb_vx_flags_remove(c, k.params).next)
  <2> DEFINE K == Chosen(c["vx_flags"], Arg(line.argv, 2, Blank), Blank)
  <2>1. m_vxdb_vx_flags_remove(c, k.params).next = Delete(c, "vx_flags", K)
    <3>1. Fields(k.params).flag = Arg(line.argv, 2, Blank)
      BY <1>1 DEF Fields, Decomposes
    <3>2. OneOrAll(c, "vx_flags", Fields(k.params).flag, Blank) = K
      BY <3>1, Zenon DEF OneOrAll, Chosen
    <3> HIDE DEF K
    <3>3. QED  BY <1>5, <3>2 DEF m_vxdb_vx_flags_remove, Checked, Changed, Refused
  <2>2. \A x \in DOMAIN c["vx_flags"] : x \in K <=> Meant(line, sent, "vx_flags", x)
    <3>1. \A rows : \A x \in DOMAIN rows : x \in Chosen(rows, Arg(line.argv, 2, Blank), Blank) <=> Meant(line, sent, "vx_flags", x)
      BY <1>3, <1>4, NamedMeant
    <3>2. QED  BY <3>1, Zenon
  <2> HIDE DEF K
  <2>3. LinesOf(Delete(c, "vx_flags", K)) = Promised!Promise(LinesOf(c), line, sent)
    BY <1>3, <1>5, <2>2, RemoveIs
  <2>4. Visible(Delete(c, "vx_flags", K))
    BY <1>3, <1>5, DeleteVisible
  <2>5. QED  BY <2>1, <2>3, <2>4, Zenon
<1>6. QED  BY <1>2, <1>5, Zenon DEF ChangeKept

LEMMA LimitRemove ==
    ASSUME NEW line, NEW sent, line.cmd = "vx.limit.remove", NEW k, line.argv \in Seq(STRING),
           k = cmd_vx_limit_remove(line.argv), k.method # "usage"
    PROVE  ChangeKept(line, sent, k)
<1>1. /\ k.method = "vxdb.vx.limit.remove"
      /\ Decomposes(k.params, [name |-> "s", type |-> "s"])
      /\ k.params["type"][2] = Arg(line.argv, 2, Blank)
  BY DEF cmd_vx_limit_remove, ByNameAnd, Call, Usage, Decomposes, S
<1>2. \A c : ConfMethod(k.method, c, k.params) = m_vxdb_vx_limit_remove(c, k.params)
  BY <1>1 DEF ConfMethod
<1>3. Promised!Meaning(line.cmd) = "vx_limit"
      /\ line.cmd \in Promised!Removes /\ "vx_limit" \in Tables
  BY MeaningIs, TheTables DEF Promised!Unique, Promised!Removes
<1>4. line.cmd # "mount.set" /\ "vx_limit" \notin Promised!Unique \cup {"vx_sched"}
  BY DEF Promised!Unique
<1>5. ASSUME NEW c, RowsOK(c), Visible(c), m_vxdb_vx_limit_remove(c, k.params).fault = "none"
      PROVE  /\ LinesOf(m_vxdb_vx_limit_remove(c, k.params).next) = Promised!Promise(LinesOf(c), line, sent)
             /\ Visible(m_vxdb_vx_limit_remove(c, k.params).next)
  <2> DEFINE K == Chosen(c["vx_limit"], Arg(line.argv, 2, Blank), Blank)
  <2>1. m_vxdb_vx_limit_remove(c, k.params).next = Delete(c, "vx_limit", K)
    <3>1. Fields(k.params).type = Arg(line.argv, 2, Blank)
      BY <1>1 DEF Fields, Decomposes
    <3>2. OneOrAll(c, "vx_limit", Fields(k.params).type, Blank) = K
      BY <3>1, Zenon DEF OneOrAll, Chosen
    <3> HIDE DEF K
    <3>3. QED  BY <1>5, <3>2 DEF m_vxdb_vx_limit_remove, Checked, Changed, Refused
  <2>2. \A x \in DOMAIN c["vx_limit"] : x \in K <=> Meant(line, sent, "vx_limit", x)
    <3>1. \A rows : \A x \in DOMAIN rows : x \in Chosen(rows, Arg(line.argv, 2, Blank), Blank) <=> Meant(line, sent, "vx_limit", x)
      BY <1>3, <1>4, NamedMeant
    <3>2. QED  BY <3>1, Zenon
  <2> HIDE DEF K
  <2>3. LinesOf(Delete(c, "vx_limit", K)) = Promised!Promise(LinesOf(c), line, sent)
    BY <1>3, <1>5, <2>2, RemoveIs
  <2>4. Visible(Delete(c, "vx_limit", K))
    BY <1>3, <1>5, DeleteVisible
  <2>5. QED  BY <2>1, <2>3, <2>4, Zenon
<1>6. QED  BY <1>2, <1>5, Zenon DEF ChangeKept

LEMMA SchedRemove ==
    ASSUME NEW line, NEW sent, line.cmd = "vx.sched.remove", NEW k, line.argv \in Seq(STRING),
           k = cmd_vx_sched_remove(line.argv, sent), k.method # "usage"
    PROVE  ChangeKept(line, sent, k)
<1>1. /\ k.method = "vxdb.vx.sched.remove"
      /\ Decomposes(k.params, [name |-> "s", cpuid |-> "i"])
      /\ k.params["cpuid"][2] = Cpuid(line.argv, sent)
  BY DEF cmd_vx_sched_remove, Cpuid, Call, Usage, Decomposes, S, I
<1>2. \A c : ConfMethod(k.method, c, k.params) = m_vxdb_vx_sched_remove(c, k.params)
  BY <1>1 DEF ConfMethod
<1>3. Promised!Meaning(line.cmd) = "vx_sched"
      /\ line.cmd \in Promised!Removes /\ "vx_sched" \in Tables
  BY MeaningIs, TheTables DEF Promised!Unique, Promised!Removes
<1>4. line.cmd # "mount.set"
  BY DEF Promised!Unique
<1>5. ASSUME NEW c, RowsOK(c), Visible(c), m_vxdb_vx_sched_remove(c, k.params).fault = "none"
      PROVE  /\ LinesOf(m_vxdb_vx_sched_remove(c, k.params).next) = Promised!Promise(LinesOf(c), line, sent)
             /\ Visible(m_vxdb_vx_sched_remove(c, k.params).next)
  <2> DEFINE K == Chosen(c["vx_sched"], Cpuid(line.argv, sent), -2)
  <2>1. m_vxdb_vx_sched_remove(c, k.params).next = Delete(c, "vx_sched", K)
    <3>1. Fields(k.params).cpuid = Cpuid(line.argv, sent)
      BY <1>1 DEF Fields, Decomposes
    <3>2. OneOrAll(c, "vx_sched", Fields(k.params).cpuid, -2) = K
      BY <3>1, Zenon DEF OneOrAll, Chosen
    <3> HIDE DEF K
    <3>3. QED  BY <1>5, <3>2 DEF m_vxdb_vx_sched_remove, Checked, Changed, Refused
  <2>2. \A x \in DOMAIN c["vx_sched"] : x \in K <=> Meant(line, sent, "vx_sched", x)
    <3>1. \A rows : \A x \in DOMAIN rows : x \in Chosen(rows, Cpuid(line.argv, sent), -2) <=> Meant(line, sent, "vx_sched", x)
      BY <1>3, <1>4, SchedMeant
    <3>2. QED  BY <3>1, Zenon
  <2> HIDE DEF K
  <2>3. LinesOf(Delete(c, "vx_sched", K)) = Promised!Promise(LinesOf(c), line, sent)
    BY <1>3, <1>5, <2>2, RemoveIs
  <2>4. Visible(Delete(c, "vx_sched", K))
    BY <1>3, <1>5, DeleteVisible
  <2>5. QED  BY <2>1, <2>3, <2>4, Zenon
<1>6. QED  BY <1>2, <1>5, Zenon DEF ChangeKept

LEMMA UnameRemove ==
    ASSUME NEW line, NEW sent, line.cmd = "vx.uname.remove", NEW k, line.argv \in Seq(STRING),
           k = cmd_vx_uname_remove(line.argv), k.method # "usage"
    PROVE  ChangeKept(line, sent, k)
<1>1. /\ k.method = "vxdb.vx.uname.remove"
      /\ Decomposes(k.params, [name |-> "s", type |-> "s"])
      /\ k.params["type"][2] = Arg(line.argv, 2, Blank)
  BY DEF cmd_vx_uname_remove, ByNameAnd, Call, Usage, Decomposes, S
<1>2. \A c : ConfMethod(k.method, c, k.params) = m_vxdb_vx_uname_remove(c, k.params)
  BY <1>1 DEF ConfMethod
<1>3. Promised!Meaning(line.cmd) = "vx_uname"
      /\ line.cmd \in Promised!Removes /\ "vx_uname" \in Tables
  BY MeaningIs, TheTables DEF Promised!Unique, Promised!Removes
<1>4. line.cmd # "mount.set" /\ "vx_uname" \notin Promised!Unique \cup {"vx_sched"}
  BY DEF Promised!Unique
<1>5. ASSUME NEW c, RowsOK(c), Visible(c), m_vxdb_vx_uname_remove(c, k.params).fault = "none"
      PROVE  /\ LinesOf(m_vxdb_vx_uname_remove(c, k.params).next) = Promised!Promise(LinesOf(c), line, sent)
             /\ Visible(m_vxdb_vx_uname_remove(c, k.params).next)
  <2> DEFINE K == Chosen(c["vx_uname"], Arg(line.argv, 2, Blank), Blank)
  <2>1. m_vxdb_vx_uname_remove(c, k.params).next = Delete(c, "vx_uname", K)
    <3>1. Fields(k.params).type = Arg(line.argv, 2, Blank)
      BY <1>1 DEF Fields, Decomposes
    <3>2. OneOrAll(c, "vx_uname", Fields(k.params).type, Blank) = K
      BY <3>1, Zenon DEF OneOrAll, Chosen
    <3> HIDE DEF K
    <3>3. QED  BY <1>5, <3>2 DEF m_vxdb_vx_uname_remove, Checked, Changed, Refused
  <2>2. \A x \in DOMAIN c["vx_uname"] : x \in K <=> Meant(line, sent, "vx_uname", x)
    <3>1. \A rows : \A x \in DOMAIN rows : x \in Chosen(rows, Arg(line.argv, 2, Blank), Blank) <=> Meant(line, sent, "vx_uname", x)
      BY <1>3, <1>4, NamedMeant
    <3>2. QED  BY <3>1, Zenon
  <2> HIDE DEF K
  <2>3. LinesOf(Delete(c, "vx_uname", K)) = Promised!Promise(LinesOf(c), line, sent)
    BY <1>3, <1>5, <2>2, RemoveIs
  <2>4. Visible(Delete(c, "vx_uname", K))
    BY <1>3, <1>5, DeleteVisible
  <2>5. QED  BY <2>1, <2>3, <2>4, Zenon
<1>6. QED  BY <1>2, <1>5, Zenon DEF ChangeKept

-----------------------------------------------------------------------------
(* Set and add commands keep the promise *)

RowShows(t, row) ==
    /\ t = "dx_limit" => ToString(row.space) # Blank
    /\ t = "vx_cpuset" => row.cpus # Blank
    /\ t = "nx_broadcast" => row # Blank

LEMMA InsertVisible ==
    ASSUME NEW c, NEW t \in Tables, NEW k, NEW row, RowsOK(c), Visible(c), RowShows(t, row)
    PROVE  Visible(InsertOrReplace(c, t, k, row))
<1> DEFINE d == InsertOrReplace(c, t, k, row)
           rows == With(c[t], k, row)
<1>1. d = [c EXCEPT ![t] = rows]
  BY DEF InsertOrReplace, RowsOK
<1>2. DOMAIN rows = DOMAIN c[t] \cup {k} /\ \A x \in DOMAIN rows : rows[x] = IF x = k THEN row ELSE c[t][x]
  BY DEF With
<1> HIDE DEF rows
<1>3. d[t] = rows /\ \A u \in Tables : u # t => d[u] = c[u]
  BY <1>1, <1>2 DEF RowsOK
<1> HIDE DEF d
<1>4. \A x \in DOMAIN d.dx_limit : ToString(d.dx_limit[x].space) # Blank
  BY <1>2, <1>3, TheTables DEF Visible, RowShows
<1>5. \A x \in DOMAIN d.vx_cpuset : d.vx_cpuset[x].cpus # Blank
  BY <1>2, <1>3, TheTables DEF Visible, RowShows
<1>6. \A x \in DOMAIN d.nx_broadcast : d.nx_broadcast[x] # Blank
  BY <1>2, <1>3, TheTables DEF Visible, RowShows
<1>7. Visible(d)
  BY <1>4, <1>5, <1>6 DEF Visible
<1>8. QED  BY <1>7 DEF d

(* What a set or add command does: it writes the row whose line it asks for. *)
Writes(line, sent, k, t, row) ==
    \A c : LET r == ConfMethod(k.method, c, k.params) IN
       r.fault = "none" =>
          /\ r.next = InsertOrReplace(c, t, Promised!KeyOf(line, sent), row)
          /\ Promised!LineOf(line, sent) = RowLine(t, Promised!KeyOf(line, sent), row)
          /\ RowShows(t, row)

LEMMA WritesKept ==
    ASSUME NEW line, NEW sent, NEW k, NEW t \in Tables, Promised!Meaning(line.cmd) = t,
           line.cmd \notin Promised!Removes, NEW row, Writes(line, sent, k, t, row)
    PROVE  ChangeKept(line, sent, k)
<1>1. ASSUME NEW c, RowsOK(c), Visible(c), ConfMethod(k.method, c, k.params).fault = "none"
      PROVE  /\ LinesOf(ConfMethod(k.method, c, k.params).next) = Promised!Promise(LinesOf(c), line, sent)
             /\ Visible(ConfMethod(k.method, c, k.params).next)
  <2> DEFINE key == Promised!KeyOf(line, sent)
  <2>1. /\ ConfMethod(k.method, c, k.params).next = InsertOrReplace(c, t, key, row)
        /\ Promised!LineOf(line, sent) = RowLine(t, key, row) /\ RowShows(t, row)
    BY <1>1, Zenon DEF Writes
  <2>2. LinesOf(InsertOrReplace(c, t, key, row)) = Promised!Promise(LinesOf(c), line, sent)
    BY <1>1, <2>1, SetIs
  <2>3. Visible(InsertOrReplace(c, t, key, row))
    BY <1>1, <2>1, InsertVisible
  <2>4. QED  BY <2>1, <2>2, <2>3, Zenon
<1>2. QED  BY <1>1, Zenon DEF ChangeKept

LEMMA OptionalIs ==
    ASSUME NEW argv \in Seq(STRING), NEW i \in Nat, NEW v
    PROVE  Promised!Optional(argv, i, v) = method_empty_params(Arg(argv, i, Blank), v)
<1>1. Len(argv) \in Nat
  OBVIOUS
<1>2. QED  BY <1>1, BlankSame DEF Promised!Optional, method_empty_params, Arg

LEMMA BcapsSet ==
    ASSUME NEW line, NEW sent, line.cmd = "vx.bcaps.add", NEW k, line.argv \in Seq(STRING),
           k = cmd_vx_bcaps_add(line.argv), k.method # "usage"
    PROVE  ChangeKept(line, sent, k)
<1> DEFINE a == line.argv
           row == "set"
<1>1. Len(a) \in Nat /\ Len(a) >= 2
  BY DEF cmd_vx_bcaps_add, Call, Usage
<1>2. /\ k.method = "vxdb.vx.bcaps.add"
      /\ Decomposes(k.params, [name |-> "s", bcap |-> "s"])
      /\ Fields(k.params).bcap = a[2]
  BY DEF cmd_vx_bcaps_add, Call, Usage, Decomposes, Fields, S
<1>3. \A c : ConfMethod(k.method, c, k.params) = m_vxdb_vx_bcaps_add(c, k.params)
  BY <1>2 DEF ConfMethod
<1>4. Promised!Meaning(line.cmd) = "vx_bcaps" /\ "vx_bcaps" \in Tables /\ line.cmd \notin Promised!Removes
  BY MeaningIs, TheTables DEF Promised!Removes
<1>5. Promised!KeyOf(line, sent) = a[2]
  BY <1>4 DEF Promised!KeyOf, Promised!Unique
<1>6. ASSUME NEW c, m_vxdb_vx_bcaps_add(c, k.params).fault = "none"
      PROVE  /\ m_vxdb_vx_bcaps_add(c, k.params).next = InsertOrReplace(c, "vx_bcaps", a[2], row)
             /\ validate_bcap(a[2])
  BY <1>2, <1>6 DEF m_vxdb_vx_bcaps_add, Checked, Changed, Refused
<1> HIDE DEF row
<1>7. ASSUME validate_bcap(a[2])
      PROVE  Promised!LineOf(line, sent) = RowLine("vx_bcaps", a[2], row) /\ RowShows("vx_bcaps", row)
  <2>1. Promised!LineOf(line, sent) = a[2]
    BY <1>4 DEF Promised!LineOf
  <2>2. RowLine("vx_bcaps", a[2], row) = a[2]
    BY BcapsRowLine
  <2>3. RowShows("vx_bcaps", row)
    BY DEF RowShows
  <2>4. QED  BY <2>1, <2>2, <2>3
<1>8. Writes(line, sent, k, "vx_bcaps", row)
  BY <1>3, <1>5, <1>6, <1>7, Zenon DEF Writes
<1>9. QED  BY <1>4, <1>8, WritesKept

LEMMA CcapsSet ==
    ASSUME NEW line, NEW sent, line.cmd = "vx.ccaps.add", NEW k, line.argv \in Seq(STRING),
           k = cmd_vx_ccaps_add(line.argv), k.method # "usage"
    PROVE  ChangeKept(line, sent, k)
<1> DEFINE a == line.argv
           row == "set"
<1>1. Len(a) \in Nat /\ Len(a) >= 2
  BY DEF cmd_vx_ccaps_add, Call, Usage
<1>2. /\ k.method = "vxdb.vx.ccaps.add"
      /\ Decomposes(k.params, [name |-> "s", ccap |-> "s"])
      /\ Fields(k.params).ccap = a[2]
  BY DEF cmd_vx_ccaps_add, Call, Usage, Decomposes, Fields, S
<1>3. \A c : ConfMethod(k.method, c, k.params) = m_vxdb_vx_ccaps_add(c, k.params)
  BY <1>2 DEF ConfMethod
<1>4. Promised!Meaning(line.cmd) = "vx_ccaps" /\ "vx_ccaps" \in Tables /\ line.cmd \notin Promised!Removes
  BY MeaningIs, TheTables DEF Promised!Removes
<1>5. Promised!KeyOf(line, sent) = a[2]
  BY <1>4 DEF Promised!KeyOf, Promised!Unique
<1>6. ASSUME NEW c, m_vxdb_vx_ccaps_add(c, k.params).fault = "none"
      PROVE  /\ m_vxdb_vx_ccaps_add(c, k.params).next = InsertOrReplace(c, "vx_ccaps", a[2], row)
             /\ validate_ccap(a[2])
  BY <1>2, <1>6 DEF m_vxdb_vx_ccaps_add, Checked, Changed, Refused
<1> HIDE DEF row
<1>7. ASSUME validate_ccap(a[2])
      PROVE  Promised!LineOf(line, sent) = RowLine("vx_ccaps", a[2], row) /\ RowShows("vx_ccaps", row)
  <2>1. Promised!LineOf(line, sent) = a[2]
    BY <1>4 DEF Promised!LineOf
  <2>2. RowLine("vx_ccaps", a[2], row) = a[2]
    BY CcapsRowLine
  <2>3. RowShows("vx_ccaps", row)
    BY DEF RowShows
  <2>4. QED  BY <2>1, <2>2, <2>3
<1>8. Writes(line, sent, k, "vx_ccaps", row)
  BY <1>3, <1>5, <1>6, <1>7, Zenon DEF Writes
<1>9. QED  BY <1>4, <1>8, WritesKept

LEMMA FlagsSet ==
    ASSUME NEW line, NEW sent, line.cmd = "vx.flags.add", NEW k, line.argv \in Seq(STRING),
           k = cmd_vx_flags_add(line.argv), k.method # "usage"
    PROVE  ChangeKept(line, sent, k)
<1> DEFINE a == line.argv
           row == "set"
<1>1. Len(a) \in Nat /\ Len(a) >= 2
  BY DEF cmd_vx_flags_add, Call, Usage
<1>2. /\ k.method = "vxdb.vx.flags.add"
      /\ Decomposes(k.params, [name |-> "s", flag |-> "s"])
      /\ Fields(k.params).flag = a[2]
  BY DEF cmd_vx_flags_add, Call, Usage, Decomposes, Fields, S
<1>3. \A c : ConfMethod(k.method, c, k.params) = m_vxdb_vx_flags_add(c, k.params)
  BY <1>2 DEF ConfMethod
<1>4. Promised!Meaning(line.cmd) = "vx_flags" /\ "vx_flags" \in Tables /\ line.cmd \notin Promised!Removes
  BY MeaningIs, TheTables DEF Promised!Removes
<1>5. Promised!KeyOf(line, sent) = a[2]
  BY <1>4 DEF Promised!KeyOf, Promised!Unique
<1>6. ASSUME NEW c, m_vxdb_vx_flags_add(c, k.params).fault = "none"
      PROVE  /\ m_vxdb_vx_flags_add(c, k.params).next = InsertOrReplace(c, "vx_flags", a[2], row)
             /\ validate_cflag(a[2])
  BY <1>2, <1>6 DEF m_vxdb_vx_flags_add, Checked, Changed, Refused
<1> HIDE DEF row
<1>7. ASSUME validate_cflag(a[2])
      PROVE  Promised!LineOf(line, sent) = RowLine("vx_flags", a[2], row) /\ RowShows("vx_flags", row)
  <2>1. Promised!LineOf(line, sent) = a[2]
    BY <1>4 DEF Promised!LineOf
  <2>2. RowLine("vx_flags", a[2], row) = a[2]
    BY FlagsRowLine
  <2>3. RowShows("vx_flags", row)
    BY DEF RowShows
  <2>4. QED  BY <2>1, <2>2, <2>3
<1>8. Writes(line, sent, k, "vx_flags", row)
  BY <1>3, <1>5, <1>6, <1>7, Zenon DEF Writes
<1>9. QED  BY <1>4, <1>8, WritesKept

LEMMA BroadcastSet ==
    ASSUME NEW line, NEW sent, line.cmd = "nx.broadcast.set", NEW k, line.argv \in Seq(STRING),
           k = cmd_nx_broadcast_set(line.argv), k.method # "usage"
    PROVE  ChangeKept(line, sent, k)
<1> DEFINE a == line.argv
           row == a[2]
<1>1. Len(a) \in Nat /\ Len(a) >= 2
  BY DEF cmd_nx_broadcast_set, Call, Usage
<1>2. /\ k.method = "vxdb.nx.broadcast.set"
      /\ Decomposes(k.params, [name |-> "s", broadcast |-> "s"])
      /\ Fields(k.params).broadcast = a[2]
  BY DEF cmd_nx_broadcast_set, Call, Usage, Decomposes, Fields, S
<1>3. \A c : ConfMethod(k.method, c, k.params) = m_vxdb_nx_broadcast_set(c, k.params)
  BY <1>2 DEF ConfMethod
<1>4. Promised!Meaning(line.cmd) = "nx_broadcast" /\ "nx_broadcast" \in Tables /\ line.cmd \notin Promised!Removes
  BY MeaningIs, TheTables DEF Promised!Removes
<1>5. Promised!KeyOf(line, sent) = "xid"
  BY <1>4 DEF Promised!KeyOf, Promised!Unique
<1>6. ASSUME NEW c, m_vxdb_nx_broadcast_set(c, k.params).fault = "none"
      PROVE  /\ m_vxdb_nx_broadcast_set(c, k.params).next = InsertOrReplace(c, "nx_broadcast", "xid", row)
             /\ validate_addr(a[2])
  BY <1>2, <1>6 DEF m_vxdb_nx_broadcast_set, Checked, Changed, Refused
<1> HIDE DEF row
<1>7. ASSUME validate_addr(a[2])
      PROVE  Promised!LineOf(line, sent) = RowLine("nx_broadcast", "xid", row) /\ RowShows("nx_broadcast", row)
  <2>1. Promised!LineOf(line, sent) = a[2]
    BY <1>4 DEF Promised!LineOf
  <2>2. row # Blank
    BY <1>7, AddrsAssumption DEF validate_addr, row
  <2>3. RowLine("nx_broadcast", "xid", row) = row
    BY <2>2, BroadcastRowLine
  <2>4. RowShows("nx_broadcast", row)
    BY <2>2 DEF RowShows
  <2>5. QED  BY <2>1, <2>3, <2>4 DEF row
<1>8. Writes(line, sent, k, "nx_broadcast", row)
  BY <1>3, <1>5, <1>6, <1>7, Zenon DEF Writes
<1>9. QED  BY <1>4, <1>8, WritesKept

LEMMA UnameSet ==
    ASSUME NEW line, NEW sent, line.cmd = "vx.uname.set", NEW k, line.argv \in Seq(STRING),
           k = cmd_vx_uname_set(line.argv), k.method # "usage"
    PROVE  ChangeKept(line, sent, k)
<1> DEFINE a == line.argv
           row == a[3]
<1>1. Len(a) \in Nat /\ Len(a) >= 3
  BY DEF cmd_vx_uname_set, Call, Usage
<1>2. /\ k.method = "vxdb.vx.uname.set"
      /\ Decomposes(k.params, [name |-> "s", type |-> "s", value |-> "s"])
      /\ Fields(k.params).type = a[2]
      /\ Fields(k.params).value = a[3]
  BY DEF cmd_vx_uname_set, Call, Usage, Decomposes, Fields, S
<1>3. \A c : ConfMethod(k.method, c, k.params) = m_vxdb_vx_uname_set(c, k.params)
  BY <1>2 DEF ConfMethod
<1>4. Promised!Meaning(line.cmd) = "vx_uname" /\ "vx_uname" \in Tables /\ line.cmd \notin Promised!Removes
  BY MeaningIs, TheTables DEF Promised!Removes
<1>5. Promised!KeyOf(line, sent) = a[2]
  BY <1>4 DEF Promised!KeyOf, Promised!Unique
<1>6. ASSUME NEW c, m_vxdb_vx_uname_set(c, k.params).fault = "none"
      PROVE  /\ m_vxdb_vx_uname_set(c, k.params).next = InsertOrReplace(c, "vx_uname", a[2], row)
             /\ validate_uname(a[2])
  BY <1>2, <1>6 DEF m_vxdb_vx_uname_set, Checked, Changed, Refused
<1> HIDE DEF row
<1>7. ASSUME validate_uname(a[2])
      PROVE  Promised!LineOf(line, sent) = RowLine("vx_uname", a[2], row) /\ RowShows("vx_uname", row)
  <2>1. Promised!LineOf(line, sent) = [type |-> a[2], value |-> a[3]]
    BY <1>4 DEF Promised!LineOf
  <2>2. RowLine("vx_uname", a[2], row) = UnameLine(a[2], row)
    BY UnameRowLine
  <2>3. RowShows("vx_uname", row)
    BY DEF RowShows
  <2>4. QED  BY <2>1, <2>2, <2>3 DEF UnameLine, row
<1>8. Writes(line, sent, k, "vx_uname", row)
  BY <1>3, <1>5, <1>6, <1>7, Zenon DEF Writes
<1>9. QED  BY <1>4, <1>8, WritesKept

LEMMA CpusetSet ==
    ASSUME NEW line, NEW sent, line.cmd = "vx.cpuset.set", NEW k, line.argv \in Seq(STRING),
           k = cmd_vx_cpuset_set(line.argv), k.method # "usage"
    PROVE  ChangeKept(line, sent, k)
<1> DEFINE a == line.argv
           row == [cpus |-> a[2], mems |-> a[3], virtualize |-> B(Number(a, 4, 0))[2]]
<1>1. Len(a) \in Nat /\ Len(a) >= 3
  BY DEF cmd_vx_cpuset_set, Call, Usage
<1>2. /\ k.method = "vxdb.vx.cpuset.set"
      /\ Decomposes(k.params, [name |-> "s", cpus |-> "s", mems |-> "s", virtualize |-> "b"])
      /\ Fields(k.params).cpus = a[2]
      /\ Fields(k.params).mems = a[3]
      /\ Fields(k.params).virtualize = B(Number(a, 4, 0))[2]
  BY DEF cmd_vx_cpuset_set, Call, Usage, Decomposes, Fields, S, B
<1>3. \A c : ConfMethod(k.method, c, k.params) = m_vxdb_vx_cpuset_set(c, k.params)
  BY <1>2 DEF ConfMethod
<1>4. Promised!Meaning(line.cmd) = "vx_cpuset" /\ "vx_cpuset" \in Tables /\ line.cmd \notin Promised!Removes
  BY MeaningIs, TheTables DEF Promised!Removes
<1>5. Promised!KeyOf(line, sent) = "xid"
  BY <1>4 DEF Promised!KeyOf, Promised!Unique
<1>6. ASSUME NEW c, m_vxdb_vx_cpuset_set(c, k.params).fault = "none"
      PROVE  /\ m_vxdb_vx_cpuset_set(c, k.params).next = InsertOrReplace(c, "vx_cpuset", "xid", row)
             /\ str_isdigit(a[2])
  BY <1>2, <1>6 DEF m_vxdb_vx_cpuset_set, Checked, Changed, Refused, validate_cpuset
<1> HIDE DEF row
<1>7. ASSUME str_isdigit(a[2])
      PROVE  Promised!LineOf(line, sent) = RowLine("vx_cpuset", "xid", row) /\ RowShows("vx_cpuset", row)
  <2>1. row.cpus # Blank
    BY <1>7, DigitsRead DEF row
  <2>2. RowLine("vx_cpuset", "xid", row) = CpusetLine(row)
    BY <2>1, CpusetRowLine
  <2>3. B(Number(a, 4, 0))[2] = IF Len(a) < 4 \/ Promised!sscanf(a[4], 0) = 0 THEN 0 ELSE 1
    BY <1>1, ScanSame DEF B, Number
  <2>4. Promised!LineOf(line, sent) =
           [cpus |-> a[2], mems |-> a[3],
            virtualize |-> IF Len(a) < 4 \/ Promised!sscanf(a[4], 0) = 0 THEN 0 ELSE 1]
    BY <1>4 DEF Promised!LineOf
  <2>5. CpusetLine(row) = [cpus |-> a[2], mems |-> a[3], virtualize |-> B(Number(a, 4, 0))[2]]
    BY DEF CpusetLine, row
  <2>6. RowShows("vx_cpuset", row)
    BY <2>1 DEF RowShows
  <2>7. QED  BY <2>2, <2>3, <2>4, <2>5, <2>6, Zenon
<1>8. Writes(line, sent, k, "vx_cpuset", row)
  BY <1>3, <1>5, <1>6, <1>7, Zenon DEF Writes
<1>9. QED  BY <1>4, <1>8, WritesKept

LEMMA AddrSet ==
    ASSUME NEW line, NEW sent, line.cmd = "nx.addr.set", NEW k, line.argv \in Seq(STRING),
           k = cmd_nx_addr_set(line.argv), k.method # "usage"
    PROVE  ChangeKept(line, sent, k)
<1> DEFINE a == line.argv
           row == method_empty_params(Arg(a, 3, Blank), "255.255.255.255")
<1>1. Len(a) \in Nat /\ Len(a) >= 2
  BY DEF cmd_nx_addr_set, Call, Usage
<1>2. /\ k.method = "vxdb.nx.addr.set"
      /\ Decomposes(k.params, [name |-> "s", addr |-> "s", netmask |-> "s"])
      /\ Fields(k.params).addr = a[2]
      /\ Fields(k.params).netmask = Arg(a, 3, Blank)
  BY DEF cmd_nx_addr_set, Call, Usage, Decomposes, Fields, S
<1>3. \A c : ConfMethod(k.method, c, k.params) = m_vxdb_nx_addr_set(c, k.params)
  BY <1>2 DEF ConfMethod
<1>4. Promised!Meaning(line.cmd) = "nx_addr" /\ "nx_addr" \in Tables /\ line.cmd \notin Promised!Removes
  BY MeaningIs, TheTables DEF Promised!Removes
<1>5. Promised!KeyOf(line, sent) = a[2]
  BY <1>4 DEF Promised!KeyOf, Promised!Unique
<1>6. ASSUME NEW c, m_vxdb_nx_addr_set(c, k.params).fault = "none"
      PROVE  /\ m_vxdb_nx_addr_set(c, k.params).next = InsertOrReplace(c, "nx_addr", a[2], row)
             /\ validate_addr(a[2])
  BY <1>2, <1>6 DEF m_vxdb_nx_addr_set, Checked, Changed, Refused
<1> HIDE DEF row
<1>7. ASSUME validate_addr(a[2])
      PROVE  Promised!LineOf(line, sent) = RowLine("nx_addr", a[2], row) /\ RowShows("nx_addr", row)
  <2>1. Promised!LineOf(line, sent) =
           [addr |-> a[2], netmask |-> Promised!Optional(a, 3, "255.255.255.255")]
    BY <1>4 DEF Promised!LineOf
  <2>2. RowLine("nx_addr", a[2], row) = AddrLine(a[2], row)
    BY AddrRowLine
  <2>3. Promised!Optional(a, 3, "255.255.255.255") = row
    BY OptionalIs DEF row
  <2>4. RowShows("nx_addr", row)
    BY DEF RowShows
  <2>5. QED  BY <2>1, <2>2, <2>3, <2>4, Zenon DEF AddrLine
<1>8. Writes(line, sent, k, "nx_addr", row)
  BY <1>3, <1>5, <1>6, <1>7, Zenon DEF Writes
<1>9. QED  BY <1>4, <1>8, WritesKept

LEMMA MountSet ==
    ASSUME NEW line, NEW sent, line.cmd = "mount.set", NEW k, line.argv \in Seq(STRING),
           k = cmd_mount_set(line.argv), k.method # "usage"
    PROVE  ChangeKept(line, sent, k)
<1> DEFINE a == line.argv
           row == [src |-> method_empty_params(a[2], "none"), type |-> method_empty_params(Arg(a, 4, Blank), "auto"),
                   opts |-> method_empty_params(Arg(a, 5, Blank), "defaults")]
<1>1. Len(a) \in Nat /\ Len(a) >= 3
  BY DEF cmd_mount_set, Call, Usage
<1>2. /\ k.method = "vxdb.mount.set"
      /\ Decomposes(k.params, [name |-> "s", src |-> "s", dst |-> "s", type |-> "s", opts |-> "s"])
      /\ Fields(k.params).src = a[2]
      /\ Fields(k.params).dst = a[3]
      /\ Fields(k.params).type = Arg(a, 4, Blank)
      /\ Fields(k.params).opts = Arg(a, 5, Blank)
  BY DEF cmd_mount_set, Call, Usage, Decomposes, Fields, S
<1>3. \A c : ConfMethod(k.method, c, k.params) = m_vxdb_mount_set(c, k.params)
  BY <1>2 DEF ConfMethod
<1>4. Promised!Meaning(line.cmd) = "mount" /\ "mount" \in Tables /\ line.cmd \notin Promised!Removes
  BY MeaningIs, TheTables DEF Promised!Removes
<1>5. Promised!KeyOf(line, sent) = a[3]
  BY <1>4 DEF Promised!KeyOf, Promised!Unique
<1>6. ASSUME NEW c, m_vxdb_mount_set(c, k.params).fault = "none"
      PROVE  /\ m_vxdb_mount_set(c, k.params).next = InsertOrReplace(c, "mount", a[3], row)
             /\ validate_path(a[3])
  BY <1>2, <1>6 DEF m_vxdb_mount_set, Checked, Changed, Refused
<1> HIDE DEF row
<1>7. ASSUME validate_path(a[3])
      PROVE  Promised!LineOf(line, sent) = RowLine("mount", a[3], row) /\ RowShows("mount", row)
  <2>1. Promised!LineOf(line, sent) =
           [src |-> Promised!Optional(a, 2, "none"), dst |-> a[3],
            type |-> Promised!Optional(a, 4, "auto"), opts |-> Promised!Optional(a, 5, "defaults")]
    BY <1>4 DEF Promised!LineOf
  <2>2. RowLine("mount", a[3], row) = MountLine(a[3], row)
    BY MountRowLine
  <2>3. /\ Promised!Optional(a, 2, "none") = row.src
        /\ Promised!Optional(a, 4, "auto") = row.type
        /\ Promised!Optional(a, 5, "defaults") = row.opts
    <3>1. Arg(a, 2, Blank) = a[2]
      BY <1>1 DEF Arg
    <3>2. QED  BY <3>1, OptionalIs DEF row
  <2>4. RowShows("mount", row)
    BY DEF RowShows
  <2>5. QED  BY <2>1, <2>2, <2>3, <2>4, Zenon DEF MountLine
<1>8. Writes(line, sent, k, "mount", row)
  BY <1>3, <1>5, <1>6, <1>7, Zenon DEF Writes
<1>9. QED  BY <1>4, <1>8, WritesKept

LEMMA InitSet ==
    ASSUME NEW line, NEW sent, line.cmd = "init.set", NEW k, line.argv \in Seq(STRING),
           k = cmd_init_set(line.argv), k.method # "usage"
    PROVE  ChangeKept(line, sent, k)
<1> DEFINE a == line.argv
           row == [init |-> method_empty_params(Arg(a, 2, Blank), "/sbin/init"),
                   halt |-> method_empty_params(Arg(a, 3, Blank), "/sbin/halt"),
                   reboot |-> method_empty_params(Arg(a, 4, Blank), "/sbin/reboot"),
                   timeout |-> Number(a, 5, 0)]
<1>1. Len(a) \in Nat /\ Len(a) >= 1
  BY DEF cmd_init_set, Call, Usage
<1>2. /\ k.method = "vxdb.init.set"
      /\ Decomposes(k.params, [name |-> "s", init |-> "s", halt |-> "s", reboot |-> "s", timeout |-> "i"])
      /\ Fields(k.params).init = Arg(a, 2, Blank)
      /\ Fields(k.params).halt = Arg(a, 3, Blank)
      /\ Fields(k.params).reboot = Arg(a, 4, Blank)
      /\ Fields(k.params).timeout = Number(a, 5, 0)
  BY DEF cmd_init_set, Call, Usage, Decomposes, Fields, S, I
<1>3. \A c : ConfMethod(k.method, c, k.params) = m_vxdb_init_set(c, k.params)
  BY <1>2 DEF ConfMethod
<1>4. Promised!Meaning(line.cmd) = "init" /\ "init" \in Tables /\ line.cmd \notin Promised!Removes
  BY MeaningIs, TheTables DEF Promised!Removes
<1>5. Promised!KeyOf(line, sent) = "xid"
  BY <1>4 DEF Promised!KeyOf, Promised!Unique
<1>6. ASSUME NEW c, m_vxdb_init_set(c, k.params).fault = "none"
      PROVE  /\ m_vxdb_init_set(c, k.params).next = InsertOrReplace(c, "init", "xid", row)
             /\ TRUE
  BY <1>2, <1>6 DEF m_vxdb_init_set, Checked, Changed, Refused
<1> HIDE DEF row
<1>7. ASSUME TRUE
      PROVE  Promised!LineOf(line, sent) = RowLine("init", "xid", row) /\ RowShows("init", row)
  <2>1. Promised!LineOf(line, sent) =
           [init |-> Promised!Optional(a, 2, "/sbin/init"), halt |-> Promised!Optional(a, 3, "/sbin/halt"),
            reboot |-> Promised!Optional(a, 4, "/sbin/reboot"),
            timeout |-> IF Len(a) < 5 THEN 0 ELSE Promised!sscanf(a[5], 0)]
    BY <1>4 DEF Promised!LineOf
  <2>2. RowLine("init", "xid", row) = InitLine(row)
    BY InitRowLine
  <2>3. /\ Promised!Optional(a, 2, "/sbin/init") = row.init
        /\ Promised!Optional(a, 3, "/sbin/halt") = row.halt
        /\ Promised!Optional(a, 4, "/sbin/reboot") = row.reboot
    BY OptionalIs DEF row
  <2>4. (IF Len(a) < 5 THEN 0 ELSE Promised!sscanf(a[5], 0)) = row.timeout
    BY <1>1, ScanSame DEF row, Number
  <2>5. RowShows("init", row)
    BY DEF RowShows
  <2>6. QED  BY <2>1, <2>2, <2>3, <2>4, <2>5, Zenon DEF InitLine
<1>8. Writes(line, sent, k, "init", row)
  BY <1>3, <1>5, <1>6, <1>7, Zenon DEF Writes
<1>9. QED  BY <1>4, <1>8, WritesKept

LEMMA DxSet ==
    ASSUME NEW line, NEW sent, line.cmd = "dx.limit.set", NEW k, line.argv \in Seq(STRING),
           k = cmd_dx_limit_set(line.argv), k.method # "usage",
           ExactLimits, [cmd |-> line.cmd, argv |-> line.argv] \in VceLines
    PROVE  ChangeKept(line, sent, k)
<1> DEFINE a == line.argv
           row == [space |-> Numerals[a[2]] % WORD32, inodes |-> Numerals[a[3]] % WORD32,
                   reserved |-> Number(a, 4, 0)]
<1>1. Len(a) \in Nat /\ Len(a) >= 4
  BY DEF cmd_dx_limit_set, Call, Usage
<1>2. /\ k.method = "vxdb.dx.limit.set"
      /\ Decomposes(k.params, [name |-> "s", space |-> "s", inodes |-> "s", reserved |-> "i"])
      /\ Fields(k.params).space = a[2]
      /\ Fields(k.params).inodes = a[3]
      /\ Fields(k.params).reserved = Number(a, 4, 0)
  BY DEF cmd_dx_limit_set, Call, Usage, Decomposes, Fields, S, I
<1>3. \A c : ConfMethod(k.method, c, k.params) = m_vxdb_dx_limit_set(c, k.params)
  BY <1>2 DEF ConfMethod
<1>4. Promised!Meaning(line.cmd) = "dx_limit" /\ "dx_limit" \in Tables /\ line.cmd \notin Promised!Removes
  BY MeaningIs, TheTables DEF Promised!Removes
<1>5. Promised!KeyOf(line, sent) = "xid"
  BY <1>4 DEF Promised!KeyOf, Promised!Unique
<1>6. ASSUME NEW c, m_vxdb_dx_limit_set(c, k.params).fault = "none"
      PROVE  /\ m_vxdb_dx_limit_set(c, k.params).next = InsertOrReplace(c, "dx_limit", "xid", row)
             /\ str_isdigit(a[2]) /\ str_isdigit(a[3])
  BY <1>2, <1>6 DEF m_vxdb_dx_limit_set, Checked, Changed, Refused
<1> HIDE DEF row
<1>7. ASSUME str_isdigit(a[2]) /\ str_isdigit(a[3])
      PROVE  Promised!LineOf(line, sent) = RowLine("dx_limit", "xid", row) /\ RowShows("dx_limit", row)
  <2>1. Numerals[a[2]] < WORD32 /\ Numerals[a[3]] < WORD32
    <3>1. \A n \in Numbers(a, {2, 3}) : n < WORD32
      BY DEF ExactLimits
    <3>2. {2, 3} \subseteq DOMAIN a
      BY <1>1
    <3>3. Numerals[a[2]] \in Numbers(a, {2, 3}) /\ Numerals[a[3]] \in Numbers(a, {2, 3})
      BY <1>7, <3>2, DigitsRead, Zenon DEF Numbers
    <3>4. QED  BY <3>1, <3>3
  <2>2. row.space = Numerals[a[2]] /\ row.inodes = Numerals[a[3]] /\ row.reserved = Number(a, 4, 0)
    <3>1. \A n \in Nat : n < WORD32 => n % WORD32 = n
      BY SizesAssumption
    <3>2. Numerals[a[2]] \in Nat /\ Numerals[a[3]] \in Nat
      BY <1>7, DigitsRead
    <3>3. Numerals[a[2]] % WORD32 = Numerals[a[2]] /\ Numerals[a[3]] % WORD32 = Numerals[a[3]]
      BY <2>1, <3>1, <3>2, Zenon
    <3>4. QED  BY <3>3, Zenon DEF row
  <2>3. /\ row.space = Promised!sscanf(a[2], 0) /\ row.inodes = Promised!sscanf(a[3], 0)
        /\ ToString(row.space) # Blank
    BY <1>7, <2>2, DigitsRead
  <2>4. RowLine("dx_limit", "xid", row) = DxLine(row)
    BY <2>3, DxRowLine
  <2>5. Number(a, 4, 0) = Promised!sscanf(a[4], 0)
    BY <1>1, ScanSame DEF Number
  <2>6. Promised!LineOf(line, sent) =
           [space |-> ToString(Promised!sscanf(a[2], 0)),
            inodes |-> ToString(Promised!sscanf(a[3], 0)), reserved |-> Promised!sscanf(a[4], 0)]
    BY <1>4 DEF Promised!LineOf
  <2>7. RowShows("dx_limit", row)
    BY <2>3 DEF RowShows
  <2>8. QED  BY <2>2, <2>3, <2>4, <2>5, <2>6, <2>7, Zenon DEF DxLine
<1>8. Writes(line, sent, k, "dx_limit", row)
  BY <1>3, <1>5, <1>6, <1>7, Zenon DEF Writes
<1>9. QED  BY <1>4, <1>8, WritesKept

(* A limit as it is stored. *)
InPages(type, n) == IF type \in LIMTYPE THEN bytestopages(n) ELSE n

LEMMA LimitSet ==
    ASSUME NEW line, NEW sent, line.cmd = "vx.limit.set", NEW k, line.argv \in Seq(STRING),
           k = cmd_vx_limit_set(line.argv), k.method # "usage",
           ExactLimits, [cmd |-> line.cmd, argv |-> line.argv] \in VceLines
    PROVE  ChangeKept(line, sent, k)
<1> DEFINE a == line.argv
           row == [soft |-> InPages(a[2], Numerals[a[3]]), max |-> InPages(a[2], Numerals[Arg(a, 4, a[3])])]
<1>1. Len(a) \in Nat /\ Len(a) >= 3
  BY DEF cmd_vx_limit_set, Call, Usage
<1>2. /\ k.method = "vxdb.vx.limit.set"
      /\ Decomposes(k.params, [name |-> "s", type |-> "s", soft |-> "s", max |-> "s"])
      /\ Fields(k.params).type = a[2]
      /\ Fields(k.params).soft = a[3]
      /\ Fields(k.params).max = Arg(a, 4, a[3])
  BY DEF cmd_vx_limit_set, Call, Usage, Decomposes, Fields, S
<1>3. \A c : ConfMethod(k.method, c, k.params) = m_vxdb_vx_limit_set(c, k.params)
  BY <1>2 DEF ConfMethod
<1>4. Promised!Meaning(line.cmd) = "vx_limit" /\ "vx_limit" \in Tables /\ line.cmd \notin Promised!Removes
  BY MeaningIs, TheTables DEF Promised!Removes
<1>5. Promised!KeyOf(line, sent) = a[2]
  BY <1>4 DEF Promised!KeyOf, Promised!Unique
<1>6. ASSUME NEW c, m_vxdb_vx_limit_set(c, k.params).fault = "none"
      PROVE  /\ m_vxdb_vx_limit_set(c, k.params).next = InsertOrReplace(c, "vx_limit", a[2], row)
             /\ str_isdigit(a[3]) /\ str_isdigit(Arg(a, 4, a[3]))
  BY <1>2, <1>6 DEF m_vxdb_vx_limit_set, Checked, Changed, Refused, InPages
<1> HIDE DEF row
<1>7. ASSUME str_isdigit(a[3]) /\ str_isdigit(Arg(a, 4, a[3]))
      PROVE  Promised!LineOf(line, sent) = RowLine("vx_limit", a[2], row) /\ RowShows("vx_limit", row)
  <2> DEFINE max == Arg(a, 4, a[3])
  <2>1. ASSUME a[2] \in LIMTYPE
        PROVE  \A s \in {a[3], max} : pagestobytes(bytestopages(Numerals[s])) = Numerals[s]
    <3>1. {2, 3} \subseteq DOMAIN a /\ (max # a[3] => 4 \in DOMAIN a /\ max = a[4])
      BY <1>1 DEF Arg
    <3>2. \A n \in Numbers(a, {3, 4}) : pagestobytes(bytestopages(n)) = n
      BY <2>1, <3>1 DEF ExactLimits
    <3>3. Numerals[a[3]] \in Numbers(a, {3, 4})
      BY <1>7, <3>1, DigitsRead, Zenon DEF Numbers
    <3>4. max # a[3] => Numerals[max] \in Numbers(a, {3, 4})
      BY <1>7, <3>1, DigitsRead, Zenon DEF Numbers
    <3> HIDE DEF max
    <3>5. QED  BY <3>2, <3>3, <3>4
  <2>2. Unit(a[2], row.soft) = Numerals[a[3]] /\ Unit(a[2], row.max) = Numerals[max]
    <3> HIDE DEF max
    <3>1. \A n : a[2] \in LIMTYPE => Unit(a[2], InPages(a[2], n)) = pagestobytes(bytestopages(n))
      BY Zenon DEF Unit, InPages
    <3>2. \A n : a[2] \notin LIMTYPE => Unit(a[2], InPages(a[2], n)) = n
      BY Zenon DEF Unit, InPages
    <3>3. row.soft = InPages(a[2], Numerals[a[3]]) /\ row.max = InPages(a[2], Numerals[max])
      BY DEF row, max
    <3>4. QED  BY <2>1, <3>1, <3>2, <3>3
  <2>3. /\ Promised!sscanf(a[3], 0) = Numerals[a[3]] /\ Promised!sscanf(max, 0) = Numerals[max]
        /\ max # Blank
    BY <1>7, DigitsRead
  <2>4. RowLine("vx_limit", a[2], row) = LimitLine(a[2], row)
    BY LimitRowLine
  <2>5. Promised!Optional(a, 4, a[3]) = max
    BY <1>1, <2>3, BlankSame DEF Promised!Optional, Arg
  <2>6. Promised!LineOf(line, sent) =
           [type |-> a[2], soft |-> ToString(Promised!sscanf(a[3], 0)),
            max |-> ToString(Promised!sscanf(Promised!Optional(a, 4, a[3]), 0))]
    BY <1>4 DEF Promised!LineOf
  <2>7. RowShows("vx_limit", row)
    BY DEF RowShows
  <2> HIDE DEF max
  <2>8. QED  BY <2>2, <2>3, <2>4, <2>5, <2>6, <2>7, Zenon DEF LimitLine
<1>8. Writes(line, sent, k, "vx_limit", row)
  BY <1>3, <1>5, <1>6, <1>7, Zenon DEF Writes
<1>9. QED  BY <1>4, <1>8, WritesKept

LEMMA SchedSet ==
    ASSUME NEW line, NEW sent, line.cmd = "vx.sched.set", NEW k, line.argv \in Seq(STRING),
           k = cmd_vx_sched_set(line.argv, sent), k.method # "usage"
    PROVE  ChangeKept(line, sent, k)
<1> DEFINE a == line.argv
           row == [f \in Bucket |-> Fields(k.params)[f]]
           Scan(i) == sscanf(line.argv[i], sent)
<1>1. Len(a) \in Nat /\ Len(a) >= 8
  BY DEF cmd_vx_sched_set, Call, Usage
<1>2. /\ k.method = "vxdb.vx.sched.set"
      /\ Decomposes(k.params, [f \in Bucket \cup {"name", "cpuid"} |-> IF f = "name" THEN "s" ELSE "i"])
      /\ Fields(k.params).cpuid = Scan(2)
      /\ Fields(k.params).interval = Scan(3)
      /\ Fields(k.params).fillrate = Scan(4)
      /\ Fields(k.params).interval2 = Scan(5)
      /\ Fields(k.params).fillrate2 = Scan(6)
      /\ Fields(k.params).tokensmin = Scan(7)
      /\ Fields(k.params).tokensmax = Scan(8)
  BY DEF cmd_vx_sched_set, Call, Usage, Decomposes, Fields, S, I, Number, Bucket
<1>3. \A c : ConfMethod(k.method, c, k.params) = m_vxdb_vx_sched_set(c, k.params)
  BY <1>2 DEF ConfMethod
<1>4. Promised!Meaning(line.cmd) = "vx_sched" /\ "vx_sched" \in Tables /\ line.cmd \notin Promised!Removes
  BY MeaningIs, TheTables DEF Promised!Removes
<1>5. Promised!KeyOf(line, sent) = Scan(2)
  BY <1>4, ScanSame DEF Promised!KeyOf, Promised!Unique
<1>6. ASSUME NEW c, m_vxdb_vx_sched_set(c, k.params).fault = "none"
      PROVE  /\ m_vxdb_vx_sched_set(c, k.params).next = InsertOrReplace(c, "vx_sched", Scan(2), row)
             /\ validate_cpuid(Scan(2))
  BY <1>2, <1>6 DEF m_vxdb_vx_sched_set, Checked, Changed, Refused
<1> HIDE DEF row
<1>7. ASSUME validate_cpuid(Scan(2))
      PROVE  Promised!LineOf(line, sent) = RowLine("vx_sched", Scan(2), row) /\ RowShows("vx_sched", row)
  <2>1. Promised!LineOf(line, sent) =
           [cpuid |-> Promised!sscanf(a[2], sent),
            interval |-> Promised!sscanf(a[3], sent), fillrate |-> Promised!sscanf(a[4], sent),
            interval2 |-> Promised!sscanf(a[5], sent), fillrate2 |-> Promised!sscanf(a[6], sent),
            tokensmin |-> Promised!sscanf(a[7], sent), tokensmax |-> Promised!sscanf(a[8], sent)]
    BY <1>4 DEF Promised!LineOf
  <2>2. RowLine("vx_sched", Scan(2), row) = SchedLine(Scan(2), row)
    BY SchedRowLine
  <2>3. SchedLine(Scan(2), row) =
           [cpuid |-> Scan(2), interval |-> Scan(3), fillrate |-> Scan(4), interval2 |-> Scan(5),
            fillrate2 |-> Scan(6), tokensmin |-> Scan(7), tokensmax |-> Scan(8)]
    <3> HIDE DEF Scan
    <3>1. /\ row.interval = Scan(3) /\ row.fillrate = Scan(4) /\ row.interval2 = Scan(5)
          /\ row.fillrate2 = Scan(6) /\ row.tokensmin = Scan(7) /\ row.tokensmax = Scan(8)
      BY <1>2 DEF row, Bucket
    <3>2. QED  BY <3>1 DEF SchedLine, Bucket
  <2>4. RowShows("vx_sched", row)
    BY DEF RowShows
  <2>5. QED  BY <2>1, <2>2, <2>3, <2>4, ScanSame
<1>8. Writes(line, sent, k, "vx_sched", row)
  BY <1>3, <1>5, <1>6, <1>7, Zenon DEF Writes
<1>9. QED  BY <1>4, <1>8, WritesKept

-----------------------------------------------------------------------------
(* Every command of vce *)

LEMMA VceShows ==
    ASSUME NEW line, NEW sent, NEW k, k = Vce(line.cmd, line.argv, sent),
           line.argv \in Seq(STRING), k.method \notin {"invalid", "usage"},
           line.cmd \in Promised!Shows
    PROVE  GetKept(line, sent, k) /\ k.method \in Reads
<1>1. CASE line.cmd = "dx.limit.get"
  <2>1. k = cmd_dx_limit_get(line.argv) /\ k.method # "usage"
    BY <1>1 DEF Vce
  <2>2. k.method \in Reads
    BY <2>1 DEF cmd_dx_limit_get, ByName, Call, Usage, Reads
  <2>3. QED  BY <1>1, <2>1, <2>2, DxGet
<1>2. CASE line.cmd = "init.get"
  <2>1. k = cmd_init_get(line.argv) /\ k.method # "usage"
    BY <1>2 DEF Vce
  <2>2. k.method \in Reads
    BY <2>1 DEF cmd_init_get, ByName, Call, Usage, Reads
  <2>3. QED  BY <1>2, <2>1, <2>2, InitGet
<1>3. CASE line.cmd = "mount.get"
  <2>1. k = cmd_mount_get(line.argv) /\ k.method # "usage"
    BY <1>3 DEF Vce
  <2>2. k.method \in Reads
    BY <2>1 DEF cmd_mount_get, ByNameAnd, Call, Usage, Reads
  <2>3. QED  BY <1>3, <2>1, <2>2, MountGet
<1>4. CASE line.cmd = "nx.addr.get"
  <2>1. k = cmd_nx_addr_get(line.argv) /\ k.method # "usage"
    BY <1>4 DEF Vce
  <2>2. k.method \in Reads
    BY <2>1 DEF cmd_nx_addr_get, ByNameAnd, Call, Usage, Reads
  <2>3. QED  BY <1>4, <2>1, <2>2, AddrGet
<1>5. CASE line.cmd = "nx.broadcast.get"
  <2>1. k = cmd_nx_broadcast_get(line.argv) /\ k.method # "usage"
    BY <1>5 DEF Vce
  <2>2. k.method \in Reads
    BY <2>1 DEF cmd_nx_broadcast_get, ByName, Call, Usage, Reads
  <2>3. QED  BY <1>5, <2>1, <2>2, BroadcastGet
<1>6. CASE line.cmd = "vx.bcaps.get"
  <2>1. k = cmd_vx_bcaps_get(line.argv) /\ k.method # "usage"
    BY <1>6 DEF Vce
  <2>2. k.method \in Reads
    BY <2>1 DEF cmd_vx_bcaps_get, ByName, Call, Usage, Reads
  <2>3. QED  BY <1>6, <2>1, <2>2, BcapsGet
<1>7. CASE line.cmd = "vx.ccaps.get"
  <2>1. k = cmd_vx_ccaps_get(line.argv) /\ k.method # "usage"
    BY <1>7 DEF Vce
  <2>2. k.method \in Reads
    BY <2>1 DEF cmd_vx_ccaps_get, ByName, Call, Usage, Reads
  <2>3. QED  BY <1>7, <2>1, <2>2, CcapsGet
<1>8. CASE line.cmd = "vx.flags.get"
  <2>1. k = cmd_vx_flags_get(line.argv) /\ k.method # "usage"
    BY <1>8 DEF Vce
  <2>2. k.method \in Reads
    BY <2>1 DEF cmd_vx_flags_get, ByName, Call, Usage, Reads
  <2>3. QED  BY <1>8, <2>1, <2>2, FlagsGet
<1>9. CASE line.cmd = "vx.cpuset.get"
  <2>1. k = cmd_vx_cpuset_get(line.argv) /\ k.method # "usage"
    BY <1>9 DEF Vce
  <2>2. k.method \in Reads
    BY <2>1 DEF cmd_vx_cpuset_get, ByName, Call, Usage, Reads
  <2>3. QED  BY <1>9, <2>1, <2>2, CpusetGet
<1>10. CASE line.cmd = "vx.limit.get"
  <2>1. k = cmd_vx_limit_get(line.argv) /\ k.method # "usage"
    BY <1>10 DEF Vce
  <2>2. k.method \in Reads
    BY <2>1 DEF cmd_vx_limit_get, ByNameAnd, Call, Usage, Reads
  <2>3. QED  BY <1>10, <2>1, <2>2, LimitGet
<1>11. CASE line.cmd = "vx.sched.get"
  <2>1. k = cmd_vx_sched_get(line.argv, sent) /\ k.method # "usage"
    BY <1>11 DEF Vce
  <2>2. k.method \in Reads
    BY <2>1 DEF cmd_vx_sched_get, Call, Usage, Reads
  <2>3. QED  BY <1>11, <2>1, <2>2, SchedGet
<1>12. CASE line.cmd = "vx.uname.get"
  <2>1. k = cmd_vx_uname_get(line.argv) /\ k.method # "usage"
    BY <1>12 DEF Vce
  <2>2. k.method \in Reads
    BY <2>1 DEF cmd_vx_uname_get, ByNameAnd, Call, Usage, Reads
  <2>3. QED  BY <1>12, <2>1, <2>2, UnameGet
<1>13. QED
  BY <1>1, <1>2, <1>3, <1>4, <1>5, <1>6, <1>7, <1>8, <1>9, <1>10, <1>11, <1>12
     DEF Promised!Shows

LEMMA VceChanges ==
    ASSUME NEW line \in VceLines, NEW sent, NEW k, k = Vce(line.cmd, line.argv, sent),
           line = [cmd |-> line.cmd, argv |-> line.argv], ExactLimits,
           line.argv \in Seq(STRING), k.method \notin {"invalid", "usage"},
           line.cmd \notin Promised!Shows, line.cmd # "list"
    PROVE  ChangeKept(line, sent, k) /\ k.reply = Ignored
<1>1. CASE line.cmd = "dx.limit.remove"
  <2>1. k = cmd_dx_limit_remove(line.argv) /\ k.method # "usage"
    BY <1>1 DEF Vce
  <2>2. k.reply = Ignored
    BY <2>1 DEF cmd_dx_limit_remove, ByName, Call, Usage
  <2>3. QED  BY <1>1, <2>1, <2>2, DxRemove
<1>2. CASE line.cmd = "dx.limit.set"
  <2>1. k = cmd_dx_limit_set(line.argv) /\ k.method # "usage"
    BY <1>2 DEF Vce
  <2>2. k.reply = Ignored
    BY <2>1 DEF cmd_dx_limit_set, Call, Usage
  <2>3. QED  BY <1>2, <2>1, <2>2, DxSet
<1>3. CASE line.cmd = "init.set"
  <2>1. k = cmd_init_set(line.argv) /\ k.method # "usage"
    BY <1>3 DEF Vce
  <2>2. k.reply = Ignored
    BY <2>1 DEF cmd_init_set, Call, Usage
  <2>3. QED  BY <1>3, <2>1, <2>2, InitSet
<1>4. CASE line.cmd = "mount.remove"
  <2>1. k = cmd_mount_remove(line.argv) /\ k.method # "usage"
    BY <1>4 DEF Vce
  <2>2. k.reply = Ignored
    BY <2>1 DEF cmd_mount_remove, ByNameAnd, Call, Usage
  <2>3. QED  BY <1>4, <2>1, <2>2, MountRemove
<1>5. CASE line.cmd = "mount.set"
  <2>1. k = cmd_mount_set(line.argv) /\ k.method # "usage"
    BY <1>5 DEF Vce
  <2>2. k.reply = Ignored
    BY <2>1 DEF cmd_mount_set, Call, Usage
  <2>3. QED  BY <1>5, <2>1, <2>2, MountSet
<1>6. CASE line.cmd = "nx.addr.remove"
  <2>1. k = cmd_nx_addr_remove(line.argv) /\ k.method # "usage"
    BY <1>6 DEF Vce
  <2>2. k.reply = Ignored
    BY <2>1 DEF cmd_nx_addr_remove, ByNameAnd, Call, Usage
  <2>3. QED  BY <1>6, <2>1, <2>2, AddrRemove
<1>7. CASE line.cmd = "nx.addr.set"
  <2>1. k = cmd_nx_addr_set(line.argv) /\ k.method # "usage"
    BY <1>7 DEF Vce
  <2>2. k.reply = Ignored
    BY <2>1 DEF cmd_nx_addr_set, Call, Usage
  <2>3. QED  BY <1>7, <2>1, <2>2, AddrSet
<1>8. CASE line.cmd = "nx.broadcast.remove"
  <2>1. k = cmd_nx_broadcast_remove(line.argv) /\ k.method # "usage"
    BY <1>8 DEF Vce
  <2>2. k.reply = Ignored
    BY <2>1 DEF cmd_nx_broadcast_remove, ByName, Call, Usage
  <2>3. QED  BY <1>8, <2>1, <2>2, BroadcastRemove
<1>9. CASE line.cmd = "nx.broadcast.set"
  <2>1. k = cmd_nx_broadcast_set(line.argv) /\ k.method # "usage"
    BY <1>9 DEF Vce
  <2>2. k.reply = Ignored
    BY <2>1 DEF cmd_nx_broadcast_set, Call, Usage
  <2>3. QED  BY <1>9, <2>1, <2>2, BroadcastSet
<1>10. CASE line.cmd = "vx.bcaps.remove"
  <2>1. k = cmd_vx_bcaps_remove(line.argv) /\ k.method # "usage"
    BY <1>10 DEF Vce
  <2>2. k.reply = Ignored
    BY <2>1 DEF cmd_vx_bcaps_remove, ByNameAnd, Call, Usage
  <2>3. QED  BY <1>10, <2>1, <2>2, BcapsRemove
<1>11. CASE line.cmd = "vx.bcaps.add"
  <2>1. k = cmd_vx_bcaps_add(line.argv) /\ k.method # "usage"
    BY <1>11 DEF Vce
  <2>2. k.reply = Ignored
    BY <2>1 DEF cmd_vx_bcaps_add, Call, Usage
  <2>3. QED  BY <1>11, <2>1, <2>2, BcapsSet
<1>12. CASE line.cmd = "vx.ccaps.remove"
  <2>1. k = cmd_vx_ccaps_remove(line.argv) /\ k.method # "usage"
    BY <1>12 DEF Vce
  <2>2. k.reply = Ignored
    BY <2>1 DEF cmd_vx_ccaps_remove, ByNameAnd, Call, Usage
  <2>3. QED  BY <1>12, <2>1, <2>2, CcapsRemove
<1>13. CASE line.cmd = "vx.ccaps.add"
  <2>1. k = cmd_vx_ccaps_add(line.argv) /\ k.method # "usage"
    BY <1>13 DEF Vce
  <2>2. k.reply = Ignored
    BY <2>1 DEF cmd_vx_ccaps_add, Call, Usage
  <2>3. QED  BY <1>13, <2>1, <2>2, CcapsSet
<1>14. CASE line.cmd = "vx.flags.remove"
  <2>1. k = cmd_vx_flags_remove(line.argv) /\ k.method # "usage"
    BY <1>14 DEF Vce
  <2>2. k.reply = Ignored
    BY <2>1 DEF cmd_vx_flags_remove, ByNameAnd, Call, Usage
  <2>3. QED  BY <1>14, <2>1, <2>2, FlagsRemove
<1>15. CASE line.cmd = "vx.flags.add"
  <2>1. k = cmd_vx_flags_add(line.argv) /\ k.method # "usage"
    BY <1>15 DEF Vce
  <2>2. k.reply = Ignored
    BY <2>1 DEF cmd_vx_flags_add, Call, Usage
  <2>3. QED  BY <1>15, <2>1, <2>2, FlagsSet
<1>16. CASE line.cmd = "vx.cpuset.remove"
  <2>1. k = cmd_vx_cpuset_remove(line.argv) /\ k.method # "usage"
    BY <1>16 DEF Vce
  <2>2. k.reply = Ignored
    BY <2>1 DEF cmd_vx_cpuset_remove, ByName, Call, Usage
  <2>3. QED  BY <1>16, <2>1, <2>2, CpusetRemove
<1>17. CASE line.cmd = "vx.cpuset.set"
  <2>1. k = cmd_vx_cpuset_set(line.argv) /\ k.method # "usage"
    BY <1>17 DEF Vce
  <2>2. k.reply = Ignored
    BY <2>1 DEF cmd_vx_cpuset_set, Call, Usage
  <2>3. QED  BY <1>17, <2>1, <2>2, CpusetSet
<1>18. CASE line.cmd = "vx.limit.remove"
  <2>1. k = cmd_vx_limit_remove(line.argv) /\ k.method # "usage"
    BY <1>18 DEF Vce
  <2>2. k.reply = Ignored
    BY <2>1 DEF cmd_vx_limit_remove, ByNameAnd, Call, Usage
  <2>3. QED  BY <1>18, <2>1, <2>2, LimitRemove
<1>19. CASE line.cmd = "vx.limit.set"
  <2>1. k = cmd_vx_limit_set(line.argv) /\ k.method # "usage"
    BY <1>19 DEF Vce
  <2>2. k.reply = Ignored
    BY <2>1 DEF cmd_vx_limit_set, Call, Usage
  <2>3. QED  BY <1>19, <2>1, <2>2, LimitSet
<1>20. CASE line.cmd = "vx.sched.remove"
  <2>1. k = cmd_vx_sched_remove(line.argv, sent) /\ k.method # "usage"
    BY <1>20 DEF Vce
  <2>2. k.reply = Ignored
    BY <2>1 DEF cmd_vx_sched_remove, Call, Usage
  <2>3. QED  BY <1>20, <2>1, <2>2, SchedRemove
<1>21. CASE line.cmd = "vx.sched.set"
  <2>1. k = cmd_vx_sched_set(line.argv, sent) /\ k.method # "usage"
    BY <1>21 DEF Vce
  <2>2. k.reply = Ignored
    BY <2>1 DEF cmd_vx_sched_set, Call, Usage
  <2>3. QED  BY <1>21, <2>1, <2>2, SchedSet
<1>22. CASE line.cmd = "vx.uname.remove"
  <2>1. k = cmd_vx_uname_remove(line.argv) /\ k.method # "usage"
    BY <1>22 DEF Vce
  <2>2. k.reply = Ignored
    BY <2>1 DEF cmd_vx_uname_remove, ByNameAnd, Call, Usage
  <2>3. QED  BY <1>22, <2>1, <2>2, UnameRemove
<1>23. CASE line.cmd = "vx.uname.set"
  <2>1. k = cmd_vx_uname_set(line.argv) /\ k.method # "usage"
    BY <1>23 DEF Vce
  <2>2. k.reply = Ignored
    BY <2>1 DEF cmd_vx_uname_set, Call, Usage
  <2>3. QED  BY <1>23, <2>1, <2>2, UnameSet
<1>24. QED
  BY <1>1, <1>2, <1>3, <1>4, <1>5, <1>6, <1>7, <1>8, <1>9, <1>10, <1>11, <1>12, <1>13, <1>14, <1>15, <1>16, <1>17, <1>18, <1>19, <1>20, <1>21, <1>22, <1>23
     DEF Promised!Shows, Vce, Invalid

(* A method that answers with a fault has changed nothing. *)
LEMMA FaultsKeep ==
    ASSUME NEW m, IsConf(m), NEW c, NEW q, ConfMethod(m, c, q).fault # "none"
    PROVE  ConfMethod(m, c, q).next = c
<1> DEFINE Same(r) == r.fault # "none" => r.next = c
<1>1. Same(m_vxdb_dx_limit_remove(c, q))
  BY DEF m_vxdb_dx_limit_remove, Checked, Changed, Refused
<1>2. Same(m_vxdb_mount_remove(c, q))
  BY DEF m_vxdb_mount_remove, Checked, Changed, Refused
<1>3. Same(m_vxdb_nx_addr_remove(c, q))
  BY DEF m_vxdb_nx_addr_remove, Checked, Changed, Refused
<1>4. Same(m_vxdb_nx_broadcast_remove(c, q))
  BY DEF m_vxdb_nx_broadcast_remove, Checked, Changed, Refused
<1>5. Same(m_vxdb_vx_bcaps_remove(c, q))
  BY DEF m_vxdb_vx_bcaps_remove, Checked, Changed, Refused
<1>6. Same(m_vxdb_vx_ccaps_remove(c, q))
  BY DEF m_vxdb_vx_ccaps_remove, Checked, Changed, Refused
<1>7. Same(m_vxdb_vx_flags_remove(c, q))
  BY DEF m_vxdb_vx_flags_remove, Checked, Changed, Refused
<1>8. Same(m_vxdb_vx_cpuset_remove(c, q))
  BY DEF m_vxdb_vx_cpuset_remove, Checked, Changed, Refused
<1>9. Same(m_vxdb_vx_limit_remove(c, q))
  BY DEF m_vxdb_vx_limit_remove, Checked, Changed, Refused
<1>10. Same(m_vxdb_vx_sched_remove(c, q))
  BY DEF m_vxdb_vx_sched_remove, Checked, Changed, Refused
<1>11. Same(m_vxdb_vx_uname_remove(c, q))
  BY DEF m_vxdb_vx_uname_remove, Checked, Changed, Refused
<1>12. Same(m_vxdb_dx_limit_set(c, q))
  BY DEF m_vxdb_dx_limit_set, Checked, Changed, Refused
<1>13. Same(m_vxdb_init_set(c, q))
  BY DEF m_vxdb_init_set, Checked, Changed, Refused
<1>14. Same(m_vxdb_mount_set(c, q))
  BY DEF m_vxdb_mount_set, Checked, Changed, Refused
<1>15. Same(m_vxdb_nx_addr_set(c, q))
  BY DEF m_vxdb_nx_addr_set, Checked, Changed, Refused
<1>16. Same(m_vxdb_nx_broadcast_set(c, q))
  BY DEF m_vxdb_nx_broadcast_set, Checked, Changed, Refused
<1>17. Same(m_vxdb_vx_bcaps_add(c, q))
  BY DEF m_vxdb_vx_bcaps_add, Checked, Changed, Refused
<1>18. Same(m_vxdb_vx_ccaps_add(c, q))
  BY DEF m_vxdb_vx_ccaps_add, Checked, Changed, Refused
<1>19. Same(m_vxdb_vx_flags_add(c, q))
  BY DEF m_vxdb_vx_flags_add, Checked, Changed, Refused
<1>20. Same(m_vxdb_vx_cpuset_set(c, q))
  BY DEF m_vxdb_vx_cpuset_set, Checked, Changed, Refused
<1>21. Same(m_vxdb_vx_limit_set(c, q))
  BY DEF m_vxdb_vx_limit_set, Checked, Changed, Refused
<1>22. Same(m_vxdb_vx_sched_set(c, q))
  BY DEF m_vxdb_vx_sched_set, Checked, Changed, Refused
<1>23. Same(m_vxdb_vx_uname_set(c, q))
  BY DEF m_vxdb_vx_uname_set, Checked, Changed, Refused
<1>24. CASE m \in Reads
  BY <1>24, ReadsKeep
<1>25. CASE m \in {"vxdb.dx.limit.remove", "vxdb.mount.remove", "vxdb.nx.addr.remove",
                 "vxdb.nx.broadcast.remove", "vxdb.vx.bcaps.remove",
                 "vxdb.vx.ccaps.remove", "vxdb.vx.flags.remove", "vxdb.vx.cpuset.remove",
                 "vxdb.vx.limit.remove", "vxdb.vx.sched.remove", "vxdb.vx.uname.remove"}
  BY <1>25, <1>1, <1>2, <1>3, <1>4, <1>5, <1>6, <1>7, <1>8, <1>9, <1>10, <1>11
     DEF ConfMethod
<1>26. CASE m \in {"vxdb.dx.limit.set", "vxdb.init.set", "vxdb.mount.set",
                 "vxdb.nx.addr.set", "vxdb.nx.broadcast.set", "vxdb.vx.bcaps.add",
                 "vxdb.vx.ccaps.add", "vxdb.vx.flags.add", "vxdb.vx.cpuset.set",
                 "vxdb.vx.limit.set", "vxdb.vx.sched.set", "vxdb.vx.uname.set"}
  BY <1>26, <1>12, <1>13, <1>14, <1>15, <1>16, <1>17, <1>18, <1>19, <1>20, <1>21, <1>22, <1>23
     DEF ConfMethod
<1>27. QED  BY <1>24, <1>25, <1>26 DEF IsConf, ConfMethods, Reads

-----------------------------------------------------------------------------
(* A vserver is created or removed *)

(* Rows e after c: lines of a new vserver, and the cpuset of the old one. *)
Renewable(c, e) ==
    /\ Visible(e)
    /\ \E l \in FreshLines : LinesOf(e) = [l EXCEPT !.vx_cpuset = LinesOf(c).vx_cpuset]

LEMMA CpusetLines ==
    ASSUME NEW c, NEW d, RowsOK(d)
    PROVE  LinesOf([d EXCEPT !.vx_cpuset = c.vx_cpuset])
             = [LinesOf(d) EXCEPT !.vx_cpuset = LinesOf(c).vx_cpuset]
<1> DEFINE e == [d EXCEPT !.vx_cpuset = c.vx_cpuset]
           w == LinesOf(e)
           v == LinesOf(d)
           u == LinesOf(c)
<1>0. \A a : \A t \in Tables : LinesOf(a)[t] = LinesIn(t, a[t])
  BY Zenon DEF LinesIn, LinesOf
<1>1. "vx_cpuset" \in Tables
  BY TheTables
<1>2. \A t \in Tables : e[t] = IF t = "vx_cpuset" THEN c[t] ELSE d[t]
  BY DEF RowsOK
<1> HIDE DEF e
<1>3. \A t \in Tables : w[t] = IF t = "vx_cpuset" THEN u[t] ELSE v[t]
  BY <1>0, <1>2
<1>4. w = [t \in Tables |-> w[t]] /\ v = [t \in Tables |-> v[t]]
  BY Zenon DEF LinesOf
<1> HIDE DEF w, v, u
<1>5. w = [v EXCEPT !.vx_cpuset = u.vx_cpuset]
  BY <1>1, <1>3, <1>4
<1>6. QED  BY <1>5 DEF w, v, u, e

LEMMA NoRowsShow == LinesOf(NoRows) = Promised!NoLines
<1>1. \A t \in Tables : NoRows[t] = Empty /\ DOMAIN Empty = {}
  BY DEF NoRows, Empty
<1>2. DOMAIN Promised!CommandsOn = Tables
  BY TheTables DEF Promised!CommandsOn
<1> DEFINE w == LinesOf(NoRows)
           v == Promised!NoLines
<1>3. w = [t \in Tables |-> w[t]] /\ v = [t \in Tables |-> v[t]]
  BY <1>2, Zenon DEF LinesOf, Promised!NoLines
<1>4. ASSUME NEW t \in Tables PROVE w[t] = v[t]
  <2>1. w[t] = [k \in DOMAIN NoRows[t] |-> RowLine(t, k, NoRows[t][k])]
    BY Zenon DEF LinesOf
  <2>2. v[t] = [k \in {} |-> {}]
    BY <1>2, Zenon DEF Promised!NoLines
  <2>3. DOMAIN NoRows[t] = {}
    BY <1>1
  <2> HIDE DEF w, v
  <2>4. QED  BY <2>1, <2>2, <2>3
<1> HIDE DEF w, v
<1>5. w = v
  BY <1>3, <1>4
<1>6. QED  BY <1>5 DEF w, v

LEMMA RowsRenewed ==
    ASSUME KnownLines, NEW c, RowsOK(c), Visible(c)
    PROVE  /\ Renewable(c, [NoRows EXCEPT !.vx_cpuset = c.vx_cpuset])
           /\ \A t \in DOMAIN Templates : ValidTemplate(Templates[t]) =>
                 Renewable(c, create_vxdb_entries(c, Templates[t]))
<1>0. RowsOK(NoRows)
  BY DEF RowsOK, NoRows, Empty
<1>1. ASSUME NEW d, RowsOK(d), DOMAIN d.dx_limit = {}, DOMAIN d.nx_broadcast = {},
             LinesOf(d) \in FreshLines
      PROVE  Renewable(c, [d EXCEPT !.vx_cpuset = c.vx_cpuset])
  <2> DEFINE e == [d EXCEPT !.vx_cpuset = c.vx_cpuset]
  <2>1. e.dx_limit = d.dx_limit /\ e.nx_broadcast = d.nx_broadcast /\ e.vx_cpuset = c.vx_cpuset
    BY <1>1, TheTables DEF RowsOK
  <2>2. LinesOf(e) = [LinesOf(d) EXCEPT !.vx_cpuset = LinesOf(c).vx_cpuset]
    BY <1>1, CpusetLines
  <2> HIDE DEF e
  <2>3. Visible(e)
    BY <1>1, <2>1 DEF Visible
  <2>4. Renewable(c, e)
    BY <1>1, <2>2, <2>3, Zenon DEF Renewable
  <2>5. QED  BY <2>4 DEF e
<1>2. Renewable(c, [NoRows EXCEPT !.vx_cpuset = c.vx_cpuset])
  <2>1. LinesOf(NoRows) \in FreshLines
    BY NoRowsShow DEF KnownLines
  <2>2. DOMAIN NoRows.dx_limit = {} /\ DOMAIN NoRows.nx_broadcast = {}
    BY TheTables DEF NoRows, Empty
  <2>3. QED  BY <1>0, <1>1, <2>1, <2>2
<1>3. ASSUME NEW t \in DOMAIN Templates, ValidTemplate(Templates[t])
      PROVE  Renewable(c, create_vxdb_entries(c, Templates[t]))
  <2> DEFINE d == create_vxdb_entries(NoRows, Templates[t])
  <2>1. create_vxdb_entries(c, Templates[t]) = [d EXCEPT !.vx_cpuset = c.vx_cpuset]
    <3>1. PICK i, m, b, f, g : \A a :
             create_vxdb_entries(a, Templates[t])
               = [NoRows EXCEPT !.vx_cpuset = a.vx_cpuset, !.init = i, !.mount = m,
                                !.vx_bcaps = b, !.vx_ccaps = f, !.vx_flags = g]
      BY Zenon DEF create_vxdb_entries
    <3> DEFINE New(v) == [NoRows EXCEPT !.vx_cpuset = v, !.init = i, !.mount = m,
                                        !.vx_bcaps = b, !.vx_ccaps = f, !.vx_flags = g]
               e == create_vxdb_entries(c, Templates[t])
    <3>2. \A v : /\ New(v) = [x \in Tables |-> New(v)[x]] /\ New(v)["vx_cpuset"] = v
                 /\ New(v)["init"] = i /\ New(v)["mount"] = m /\ New(v)["vx_bcaps"] = b
                 /\ New(v)["vx_ccaps"] = f /\ New(v)["vx_flags"] = g
                 /\ \A x \in Tables \ {"vx_cpuset", "init", "mount", "vx_bcaps", "vx_ccaps",
                                       "vx_flags"} : New(v)[x] = Empty
      BY TheTables, ZenonT(40) DEF NoRows
    <3>3. e = New(c.vx_cpuset) /\ d = New(NoRows.vx_cpuset)
      BY <3>1, Zenon
    <3> HIDE DEF New
    <3>4. /\ e = [x \in Tables |-> e[x]] /\ d = [x \in Tables |-> d[x]]
          /\ e["vx_cpuset"] = c.vx_cpuset
          /\ \A x \in Tables \ {"vx_cpuset"} : e[x] = d[x]
      BY <3>2, <3>3
    <3> HIDE DEF d, e
    <3>5. e = [d EXCEPT !.vx_cpuset = c.vx_cpuset]
      BY <3>4
    <3>6. QED  BY <3>5 DEF e
  <2>2. DOMAIN d.dx_limit = {} /\ DOMAIN d.nx_broadcast = {}
    BY TheTables DEF create_vxdb_entries, NoRows, Empty
  <2>3. RowsOK(d)
    BY <1>0, <1>3, TemplateRows
  <2>4. LinesOf(d) \in FreshLines
    BY <1>3, Zenon DEF KnownLines
  <2> HIDE DEF d
  <2>5. Renewable(c, [d EXCEPT !.vx_cpuset = c.vx_cpuset])
    BY <1>1, <2>2, <2>3, <2>4
  <2>6. QED  BY <2>1, <2>5
<1>4. QED  BY <1>2, <1>3

-----------------------------------------------------------------------------
(* How far a command of vce is *)

(* The first argument of a command is the name; a change is no Reads. *)
LEMMA VceNames ==
    ASSUME NEW cmd, NEW argv, NEW g, cmd # "list", NEW k, k = Vce(cmd, argv, g),
           k.method \notin {"invalid", "usage"}
    PROVE  k.params.name[2] = argv[1] /\ (cmd \notin Promised!Shows => k.method \notin Reads)
<1> USE DEF ByName, ByNameAnd, Call, Usage, S, Reads
<1> DEFINE Says(c) ==  /\ k.params.name[2] = argv[1]
                       /\ c \notin Promised!Shows => k.method \notin Reads
<1>0. Vce(cmd, argv, g).method # "invalid"
  OBVIOUS
<1>1. ASSUME cmd = "dx.limit.get" PROVE Says(cmd)
  <2>1. k = cmd_dx_limit_get(argv)
    BY <1>1 DEF Vce
  <2>2. QED  BY <1>1, <2>1 DEF cmd_dx_limit_get, Promised!Shows
<1>2. ASSUME cmd = "dx.limit.remove" PROVE Says(cmd)
  <2>1. k = cmd_dx_limit_remove(argv)
    BY <1>2 DEF Vce
  <2>2. QED  BY <1>2, <2>1 DEF cmd_dx_limit_remove
<1>3. ASSUME cmd = "dx.limit.set" PROVE Says(cmd)
  <2>1. k = cmd_dx_limit_set(argv)
    BY <1>3 DEF Vce
  <2>2. QED  BY <1>3, <2>1 DEF cmd_dx_limit_set
<1>4. ASSUME cmd = "init.get" PROVE Says(cmd)
  <2>1. k = cmd_init_get(argv)
    BY <1>4 DEF Vce
  <2>2. QED  BY <1>4, <2>1 DEF cmd_init_get, Promised!Shows
<1>5. ASSUME cmd = "init.set" PROVE Says(cmd)
  <2>1. k = cmd_init_set(argv)
    BY <1>5 DEF Vce
  <2>2. QED  BY <1>5, <2>1 DEF cmd_init_set
<1>6. ASSUME cmd = "mount.get" PROVE Says(cmd)
  <2>1. k = cmd_mount_get(argv)
    BY <1>6 DEF Vce
  <2>2. QED  BY <1>6, <2>1 DEF cmd_mount_get, Promised!Shows
<1>7. ASSUME cmd = "mount.remove" PROVE Says(cmd)
  <2>1. k = cmd_mount_remove(argv)
    BY <1>7 DEF Vce
  <2>2. QED  BY <1>7, <2>1 DEF cmd_mount_remove
<1>8. ASSUME cmd = "mount.set" PROVE Says(cmd)
  <2>1. k = cmd_mount_set(argv)
    BY <1>8 DEF Vce
  <2>2. QED  BY <1>8, <2>1 DEF cmd_mount_set
<1>9. ASSUME cmd = "nx.addr.get" PROVE Says(cmd)
  <2>1. k = cmd_nx_addr_get(argv)
    BY <1>9 DEF Vce
  <2>2. QED  BY <1>9, <2>1 DEF cmd_nx_addr_get, Promised!Shows
<1>10. ASSUME cmd = "nx.addr.remove" PROVE Says(cmd)
  <2>1. k = cmd_nx_addr_remove(argv)
    BY <1>10 DEF Vce
  <2>2. QED  BY <1>10, <2>1 DEF cmd_nx_addr_remove
<1>11. ASSUME cmd = "nx.addr.set" PROVE Says(cmd)
  <2>1. k = cmd_nx_addr_set(argv)
    BY <1>11 DEF Vce
  <2>2. QED  BY <1>11, <2>1 DEF cmd_nx_addr_set
<1>12. ASSUME cmd = "nx.broadcast.get" PROVE Says(cmd)
  <2>1. k = cmd_nx_broadcast_get(argv)
    BY <1>12 DEF Vce
  <2>2. QED  BY <1>12, <2>1 DEF cmd_nx_broadcast_get, Promised!Shows
<1>13. ASSUME cmd = "nx.broadcast.remove" PROVE Says(cmd)
  <2>1. k = cmd_nx_broadcast_remove(argv)
    BY <1>13 DEF Vce
  <2>2. QED  BY <1>13, <2>1 DEF cmd_nx_broadcast_remove
<1>14. ASSUME cmd = "nx.broadcast.set" PROVE Says(cmd)
  <2>1. k = cmd_nx_broadcast_set(argv)
    BY <1>14 DEF Vce
  <2>2. QED  BY <1>14, <2>1 DEF cmd_nx_broadcast_set
<1>15. ASSUME cmd = "vx.bcaps.add" PROVE Says(cmd)
  <2>1. k = cmd_vx_bcaps_add(argv)
    BY <1>15 DEF Vce
  <2>2. QED  BY <1>15, <2>1 DEF cmd_vx_bcaps_add
<1>16. ASSUME cmd = "vx.bcaps.get" PROVE Says(cmd)
  <2>1. k = cmd_vx_bcaps_get(argv)
    BY <1>16 DEF Vce
  <2>2. QED  BY <1>16, <2>1 DEF cmd_vx_bcaps_get, Promised!Shows
<1>17. ASSUME cmd = "vx.bcaps.remove" PROVE Says(cmd)
  <2>1. k = cmd_vx_bcaps_remove(argv)
    BY <1>17 DEF Vce
  <2>2. QED  BY <1>17, <2>1 DEF cmd_vx_bcaps_remove
<1>18. ASSUME cmd = "vx.ccaps.add" PROVE Says(cmd)
  <2>1. k = cmd_vx_ccaps_add(argv)
    BY <1>18 DEF Vce
  <2>2. QED  BY <1>18, <2>1 DEF cmd_vx_ccaps_add
<1>19. ASSUME cmd = "vx.ccaps.get" PROVE Says(cmd)
  <2>1. k = cmd_vx_ccaps_get(argv)
    BY <1>19 DEF Vce
  <2>2. QED  BY <1>19, <2>1 DEF cmd_vx_ccaps_get, Promised!Shows
<1>20. ASSUME cmd = "vx.ccaps.remove" PROVE Says(cmd)
  <2>1. k = cmd_vx_ccaps_remove(argv)
    BY <1>20 DEF Vce
  <2>2. QED  BY <1>20, <2>1 DEF cmd_vx_ccaps_remove
<1>21. ASSUME cmd = "vx.cpuset.get" PROVE Says(cmd)
  <2>1. k = cmd_vx_cpuset_get(argv)
    BY <1>21 DEF Vce
  <2>2. QED  BY <1>21, <2>1 DEF cmd_vx_cpuset_get, Promised!Shows
<1>22. ASSUME cmd = "vx.cpuset.remove" PROVE Says(cmd)
  <2>1. k = cmd_vx_cpuset_remove(argv)
    BY <1>22 DEF Vce
  <2>2. QED  BY <1>22, <2>1 DEF cmd_vx_cpuset_remove
<1>23. ASSUME cmd = "vx.cpuset.set" PROVE Says(cmd)
  <2>1. k = cmd_vx_cpuset_set(argv)
    BY <1>23 DEF Vce
  <2>2. QED  BY <1>23, <2>1 DEF cmd_vx_cpuset_set
<1>24. ASSUME cmd = "vx.flags.add" PROVE Says(cmd)
  <2>1. k = cmd_vx_flags_add(argv)
    BY <1>24 DEF Vce
  <2>2. QED  BY <1>24, <2>1 DEF cmd_vx_flags_add
<1>25. ASSUME cmd = "vx.flags.get" PROVE Says(cmd)
  <2>1. k = cmd_vx_flags_get(argv)
    BY <1>25 DEF Vce
  <2>2. QED  BY <1>25, <2>1 DEF cmd_vx_flags_get, Promised!Shows
<1>26. ASSUME cmd = "vx.flags.remove" PROVE Says(cmd)
  <2>1. k = cmd_vx_flags_remove(argv)
    BY <1>26 DEF Vce
  <2>2. QED  BY <1>26, <2>1 DEF cmd_vx_flags_remove
<1>27. ASSUME cmd = "vx.limit.get" PROVE Says(cmd)
  <2>1. k = cmd_vx_limit_get(argv)
    BY <1>27 DEF Vce
  <2>2. QED  BY <1>27, <2>1 DEF cmd_vx_limit_get, Promised!Shows
<1>28. ASSUME cmd = "vx.limit.remove" PROVE Says(cmd)
  <2>1. k = cmd_vx_limit_remove(argv)
    BY <1>28 DEF Vce
  <2>2. QED  BY <1>28, <2>1 DEF cmd_vx_limit_remove
<1>29. ASSUME cmd = "vx.limit.set" PROVE Says(cmd)
  <2>1. k = cmd_vx_limit_set(argv)
    BY <1>29 DEF Vce
  <2>2. QED  BY <1>29, <2>1 DEF cmd_vx_limit_set
<1>30. ASSUME cmd = "vx.sched.get" PROVE Says(cmd)
  <2>1. k = cmd_vx_sched_get(argv, g)
    BY <1>30 DEF Vce
  <2>2. QED  BY <1>30, <2>1 DEF cmd_vx_sched_get, Promised!Shows
<1>31. ASSUME cmd = "vx.sched.remove" PROVE Says(cmd)
  <2>1. k = cmd_vx_sched_remove(argv, g)
    BY <1>31 DEF Vce
  <2>2. QED  BY <1>31, <2>1 DEF cmd_vx_sched_remove
<1>32. ASSUME cmd = "vx.sched.set" PROVE Says(cmd)
  <2>1. k = cmd_vx_sched_set(argv, g)
    BY <1>32 DEF Vce
  <2>2. QED  BY <1>32, <2>1 DEF cmd_vx_sched_set
<1>33. ASSUME cmd = "vx.uname.get" PROVE Says(cmd)
  <2>1. k = cmd_vx_uname_get(argv)
    BY <1>33 DEF Vce
  <2>2. QED  BY <1>33, <2>1 DEF cmd_vx_uname_get, Promised!Shows
<1>34. ASSUME cmd = "vx.uname.remove" PROVE Says(cmd)
  <2>1. k = cmd_vx_uname_remove(argv)
    BY <1>34 DEF Vce
  <2>2. QED  BY <1>34, <2>1 DEF cmd_vx_uname_remove
<1>35. ASSUME cmd = "vx.uname.set" PROVE Says(cmd)
  <2>1. k = cmd_vx_uname_set(argv)
    BY <1>35 DEF Vce
  <2>2. QED  BY <1>35, <2>1 DEF cmd_vx_uname_set
<1>36. QED
  BY <1>0, <1>1, <1>2, <1>3, <1>4, <1>5, <1>6, <1>7, <1>8, <1>9, <1>10, <1>11, <1>12, <1>13, <1>14, <1>15, <1>16, <1>17, <1>18, <1>19, <1>20, <1>21, <1>22, <1>23, <1>24, <1>25, <1>26, <1>27, <1>28, <1>29, <1>30, <1>31, <1>32, <1>33, <1>34, <1>35, Zenon DEF Vce, Invalid
(* The job of a process p. *)
OfVce(p) == p.at # "idle" /\ p.line.tool = "vce" /\ p.line.cmd # "list"
LineIn(p) == [cmd |-> p.line.cmd, argv |-> p.line.argv]
Answers(p) == p.fault = "none" /\ Decodes(p.call.reply, p.answer)

JobOf(p) ==
    IF ~OfVce(p) THEN Promised!Free
    ELSE IF p.at = "looked" THEN Promised!Aimed(LineIn(p), p.xid)
    ELSE IF p.at # "answered" THEN Promised!Asked(LineIn(p))
    ELSE IF Answers(p)
         THEN Promised!Done(LineIn(p), Tagged(p.line.cmd, Printed(p.call.reply, p.answer)))
         ELSE IF p.fault = "LOST" THEN Promised!Lost(LineIn(p)) ELSE Promised!Failed(LineIn(p))

LEMMA JobFields ==
    ASSUME NEW l, NEW x, NEW T
    PROVE  /\ Promised!Free.at = "free"
           /\ Promised!Asked(l).at = "asked" /\ Promised!Asked(l).line = l
           /\ Promised!Aimed(l, x).at = "aimed" /\ Promised!Aimed(l, x).line = l
           /\ Promised!Aimed(l, x).x = x
           /\ Promised!Done(l, T).at = "done" /\ Promised!Done(l, T).line = l
           /\ Promised!Failed(l).at = "failed" /\ Promised!Failed(l).line = l
           /\ Promised!Lost(l).at = "lost"
  BY DEF Promised!Free, Promised!Asked, Promised!Aimed, Promised!Done, Promised!Failed, Promised!Lost

LEMMA JobIs ==
    ASSUME NEW c
    PROVE  Job(c) = JobOf(proc[c]) /\ Job(c)' = JobOf(proc'[c])
<1>1. Job(c) = JobOf(proc[c])
  <2> DEFINE p == proc[c]
  <2>1. CASE ~OfVce(p)
    BY <2>1 DEF JobOf, Job, OfVce, Promised!Free
  <2>2. CASE OfVce(p) /\ p.at = "looked"
    BY <2>2 DEF JobOf, Job, OfVce, LineIn, Promised!Aimed
  <2>3. CASE OfVce(p) /\ p.at \notin {"looked", "answered"}
    BY <2>3 DEF JobOf, Job, OfVce, LineIn, Promised!Asked
  <2>4. CASE OfVce(p) /\ p.at = "answered" /\ ~Answers(p)
    BY <2>4 DEF JobOf, Job, OfVce, LineIn, Promised!Failed, Promised!Lost, Answers, Good
  <2>5. CASE OfVce(p) /\ p.at = "answered" /\ Answers(p)
    BY <2>5, Zenon DEF JobOf, Job, OfVce, LineIn, Promised!Done, Answers, Good, Tagged
  <2>6. QED  BY <2>1, <2>2, <2>3, <2>4, <2>5
<1>2. Job(c)' = JobOf(proc'[c])
  <2> DEFINE p == proc'[c]
  <2>1. CASE ~OfVce(p)
    BY <2>1 DEF JobOf, Job, OfVce, Promised!Free
  <2>2. CASE OfVce(p) /\ p.at = "looked"
    BY <2>2 DEF JobOf, Job, OfVce, LineIn, Promised!Aimed
  <2>3. CASE OfVce(p) /\ p.at \notin {"looked", "answered"}
    BY <2>3 DEF JobOf, Job, OfVce, LineIn, Promised!Asked
  <2>4. CASE OfVce(p) /\ p.at = "answered" /\ ~Answers(p)
    BY <2>4 DEF JobOf, Job, OfVce, LineIn, Promised!Failed, Promised!Lost, Answers, Good
  <2>5. CASE OfVce(p) /\ p.at = "answered" /\ Answers(p)
    BY <2>5, Zenon DEF JobOf, Job, OfVce, LineIn, Promised!Done, Answers, Good, Tagged
  <2>6. QED  BY <2>1, <2>2, <2>3, <2>4, <2>5
<1>3. QED  BY <1>1, <1>2

-----------------------------------------------------------------------------
(* The state of VceSpec, and its steps in these terms *)

LinesNow == [x \in Xids |-> LinesOf(db.conf[x])]
JobsNow == [c \in Clients |-> Job(c)]

SameConf == \A x \in Xids : db'.conf[x] = db.conf[x]
NewConf(x, rows) ==
    db'.conf[x] = rows /\ \A y \in Xids \ {x} : db'.conf[y] = db.conf[y]

(* Client c has a new job, and nothing else is new. *)
NewJob(c) == JobsNow' = [JobsNow EXCEPT ![c] = JobsNow'[c]]
SameLines == LinesNow' = LinesNow /\ db'.xid = db.xid

LEMMA JobNow ==
    ASSUME NEW c \in Clients
    PROVE  JobsNow[c] = JobOf(proc[c]) /\ JobsNow'[c] = JobOf(proc'[c])
<1>1. JobsNow[c] = Job(c) /\ JobsNow'[c] = Job(c)'
  BY Zenon DEF JobsNow
<1>2. QED  BY <1>1, JobIs

LEMMA LinesAre == \A x \in Xids : LinesNow[x] = LinesOf(db.conf[x]) /\ LinesNow'[x] = LinesOf(db'.conf[x])
  BY Zenon DEF LinesNow

LEMMA LinesSame ==
    ASSUME SameConf PROVE LinesNow' = LinesNow
  BY Zenon DEF LinesNow, SameConf

LEMMA LinesNew ==
    ASSUME NEW x \in Xids, NEW rows, NewConf(x, rows)
    PROVE  LinesNow' = [LinesNow EXCEPT ![x] = LinesOf(rows)]
<1>1. \A y \in Xids : LinesOf(db'.conf[y]) = IF y = x THEN LinesOf(rows) ELSE LinesOf(db.conf[y])
  BY DEF NewConf
<1>2. LinesNow' = [y \in Xids |-> LinesOf(db'.conf[y])]
  BY Zenon DEF LinesNow
<1>3. LinesNow = [y \in Xids |-> LinesOf(db.conf[y])]
  BY Zenon DEF LinesNow
<1>4. QED  BY <1>1, <1>2, <1>3

LEMMA JobNew ==
    ASSUME NEW c \in Clients, NEW F, Step(c, F) PROVE NewJob(c)
<1>1. \A p \in Clients \ {c} : Job(p)' = Job(p)
  BY JobIs DEF Step
<1>2. JobsNow' = [p \in Clients |-> Job(p)']
  BY Zenon DEF JobsNow
<1>3. JobsNow = [p \in Clients |-> Job(p)]
  BY Zenon DEF JobsNow
<1>4. QED  BY <1>1, <1>2, <1>3 DEF NewJob

LEMMA JobsSame ==
    ASSUME NEW c \in Clients, NewJob(c), JobsNow'[c] = JobsNow[c] PROVE JobsNow' = JobsNow
<1>1. JobsNow = [p \in Clients |-> Job(p)]
  BY Zenon DEF JobsNow
<1>2. QED  BY <1>1 DEF NewJob

LEMMA AskNext ==
    ASSUME NEW c \in Clients, NEW line \in VceLines, JobsNow[c] = Promised!Free, NewJob(c),
           JobsNow'[c] \in {Promised!Asked(line), Promised!Failed(line)}, SameLines
    PROVE  Promised!Next
<1>1. JobsNow'[c] \in Promised!Begun
  BY Zenon DEF Promised!Begun
<1>2. JobsNow[c].at = "free"
  BY JobFields
<1>3. Promised!Ask(c)
  BY <1>1, <1>2, Zenon DEF Promised!Ask, NewJob, SameLines, JobsNow, LinesNow
<1>4. QED  BY <1>3, Zenon DEF Promised!Next

LEMMA AimNext ==
    ASSUME NEW c \in Clients, NEW line, JobsNow[c] = Promised!Asked(line), NewJob(c),
           line.argv[1] \in DOMAIN db.xid, SameLines,
           JobsNow'[c] = Promised!Aimed(line, db.xid[line.argv[1]])
    PROVE  Promised!Next
<1>1. JobsNow[c].at = "asked" /\ JobsNow[c].line = line
  BY JobFields
<1>2. JobsNow' = [JobsNow EXCEPT ![c] = Promised!Aimed(JobsNow[c].line, db.xid[JobsNow[c].line.argv[1]])]
  BY <1>1 DEF NewJob
<1>3. JobsNow[c].line.argv[1] \in DOMAIN db.xid
  BY <1>1
<1>4. Promised!Aim(c)
  BY <1>1, <1>2, <1>3, Zenon DEF Promised!Aim, SameLines, JobsNow, LinesNow
<1>5. QED  BY <1>4, Zenon DEF Promised!Next

LEMMA ChangeNext ==
    ASSUME NEW c \in Clients, NEW line, NEW x, NEW g \in Garbage, JobsNow[c] = Promised!Aimed(line, x),
           line.cmd \notin Promised!Shows, line.argv[1] \in DOMAIN db.xid,
           db.xid[line.argv[1]] = x, db'.xid = db.xid, NewJob(c),
           LinesNow' = [LinesNow EXCEPT ![x] = Promised!Promise(LinesNow[x], line, g)],
           JobsNow'[c] = Promised!Done(line, {})
    PROVE  Promised!Next
<1>1. JobsNow[c].at = "aimed" /\ JobsNow[c].line = line /\ JobsNow[c].x = x
  BY JobFields
<1>2. JobsNow' = [JobsNow EXCEPT ![c] = Promised!Done(JobsNow[c].line, {})]
  BY <1>1 DEF NewJob
<1>3. /\ JobsNow[c].line.cmd \notin Promised!Shows
      /\ JobsNow[c].line.argv[1] \in DOMAIN db.xid
      /\ db.xid[JobsNow[c].line.argv[1]] = JobsNow[c].x
  BY <1>1
<1>4. \E n \in Garbage : LinesNow' = [LinesNow EXCEPT ![JobsNow[c].x] =
                            Promised!Promise(LinesNow[JobsNow[c].x], JobsNow[c].line, n)]
  BY <1>1
<1>5. Promised!Change(c)
  BY <1>1, <1>2, <1>3, <1>4, Zenon DEF Promised!Change, JobsNow, LinesNow
<1>6. QED  BY <1>5, Zenon DEF Promised!Next

LEMMA ShowNext ==
    ASSUME NEW c \in Clients, NEW line, NEW x, NEW g \in Garbage, JobsNow[c] = Promised!Aimed(line, x),
           line.cmd \in Promised!Shows, SameLines, NewJob(c),
           JobsNow'[c] = Promised!Done(line, Promised!Shown(LinesNow[x], line, g))
    PROVE  Promised!Next
<1>1. JobsNow[c].at = "aimed" /\ JobsNow[c].line = line /\ JobsNow[c].x = x
  BY JobFields
<1>2. \E n \in Garbage : JobsNow' = [JobsNow EXCEPT ![c] =
          Promised!Done(JobsNow[c].line, Promised!Shown(LinesNow[JobsNow[c].x], JobsNow[c].line, n))]
  BY <1>1 DEF NewJob
<1>3. JobsNow[c].line.cmd \in Promised!Shows
  BY <1>1
<1>4. Promised!Show(c)
  BY <1>1, <1>2, <1>3, Zenon DEF Promised!Show, SameLines, JobsNow, LinesNow
<1>5. QED  BY <1>4, Zenon DEF Promised!Next

LEMMA FailNext ==
    ASSUME NEW c \in Clients, NEW line, SameLines, NewJob(c), JobsNow'[c] = Promised!Failed(line),
           JobsNow[c] = Promised!Asked(line) \/ \E x : JobsNow[c] = Promised!Aimed(line, x)
    PROVE  Promised!Next
<1>1. JobsNow[c].at \in {"asked", "aimed"} /\ JobsNow[c].line = line
  BY JobFields
<1>2. JobsNow' = [JobsNow EXCEPT ![c] = Promised!Failed(JobsNow[c].line)]
  BY <1>1 DEF NewJob
<1>3. Promised!Fail(c)
  BY <1>1, <1>2, Zenon DEF Promised!Fail, SameLines, JobsNow, LinesNow
<1>4. QED  BY <1>3, Zenon DEF Promised!Next

LEMMA LoseNext ==
    ASSUME NEW c \in Clients, NEW line, SameLines, NewJob(c), JobsNow'[c] = Promised!Lost(line),
           \/ JobsNow[c] \in {Promised!Asked(line), Promised!Failed(line)}
           \/ \E x : JobsNow[c] \in {Promised!Aimed(line, x), Promised!Done(line, x)}
    PROVE  Promised!Next
<1>1. JobsNow[c].at \in {"asked", "aimed", "done", "failed"} /\ JobsNow[c].line = line
  BY JobFields
<1>2. JobsNow' = [JobsNow EXCEPT ![c] = Promised!Lost(JobsNow[c].line)]
  BY <1>1 DEF NewJob
<1>3. Promised!Lose(c)
  BY <1>1, <1>2, Zenon DEF Promised!Lose, SameLines, JobsNow, LinesNow
<1>4. QED  BY <1>3, Zenon DEF Promised!Next

LEMMA EndNext ==
    ASSUME NEW c \in Clients, NEW line, SameLines, NewJob(c), JobsNow'[c] = Promised!Free,
           \/ JobsNow[c] \in {Promised!Failed(line), Promised!Lost(line)}
           \/ \E T : JobsNow[c] = Promised!Done(line, T)
    PROVE  Promised!Next
<1>1. JobsNow[c].at \in {"done", "failed", "lost"}
  BY JobFields
<1>2. JobsNow' = [JobsNow EXCEPT ![c] = Promised!Free]
  BY DEF NewJob
<1>3. Promised!End(c)
  BY <1>1, <1>2, Zenon DEF Promised!End, SameLines, JobsNow, LinesNow
<1>4. QED  BY <1>3, Zenon DEF Promised!Next

(* The lines of a vserver that is created or removed. *)
RenewedAs(x, l) == [LinesNow EXCEPT ![x] = [l EXCEPT !.vx_cpuset = LinesNow[x].vx_cpuset]]

LEMMA RenewedIs ==
    ASSUME NEW x, NEW new, NEW l \in new, LinesNow' = RenewedAs(x, l)
    PROVE  LinesNow' \in Promised!Renewed(LinesNow, x, new)
<1>1. Promised!Renewed(LinesNow, x, new) = {RenewedAs(x, w) : w \in new}
  BY Zenon DEF Promised!Renewed, RenewedAs
<1>2. QED  BY <1>1

LEMMA RegistryNext ==
    ASSUME JobsNow' = JobsNow, NEW name \in Names,
           \/ \E x \in Xids : Promised!Create(name, x)
           \/ Promised!Remove(name)
           \/ \E new \in Names : Promised!Rename(name, new)
    PROVE  Promised!Next
<1>1. CASE \E x \in Xids : Promised!Create(name, x)
  BY <1>1, Zenon DEF Promised!Registry, Promised!Next, JobsNow
<1>2. CASE Promised!Remove(name)
  BY <1>2, Zenon DEF Promised!Registry, Promised!Next, JobsNow
<1>3. CASE \E new \in Names : Promised!Rename(name, new)
  BY <1>3, Zenon DEF Promised!Registry, Promised!Next, JobsNow
<1>4. QED  BY <1>1, <1>2, <1>3

LEMMA CreateNext ==
    ASSUME NEW name \in Names, NEW x \in Xids, NEW l \in FreshLines, JobsNow' = JobsNow,
           IF name \in DOMAIN db.xid THEN db.xid[name] = x ELSE \A m \in DOMAIN db.xid : db.xid[m] # x,
           db'.xid = With(db.xid, name, x), LinesNow' = RenewedAs(x, l)
    PROVE  Promised!Next
<1>1. LinesNow' \in Promised!Renewed(LinesNow, x, FreshLines)
  BY RenewedIs
<1>2. db'.xid = [m \in DOMAIN db.xid \cup {name} |-> IF m = name THEN x ELSE db.xid[m]]
  BY Zenon DEF With
<1>3. Promised!Create(name, x)
  BY <1>1, <1>2, Zenon DEF Promised!Create, LinesNow
<1>4. QED  BY <1>3, RegistryNext

LEMMA RemoveNext ==
    ASSUME NEW name \in Names, JobsNow' = JobsNow, name \in DOMAIN db.xid,
           db'.xid = Without(db.xid, {name}), LinesNow' = RenewedAs(db.xid[name], Promised!NoLines)
    PROVE  Promised!Next
<1>1. LinesNow' \in Promised!Renewed(LinesNow, db.xid[name], {Promised!NoLines})
  BY RenewedIs
<1>2. db'.xid = [m \in DOMAIN db.xid \ {name} |-> db.xid[m]]
  BY Zenon DEF Without
<1>3. Promised!Remove(name)
  BY <1>1, <1>2, Zenon DEF Promised!Remove, LinesNow
<1>4. QED  BY <1>3, RegistryNext

LEMMA RenameNext ==
    ASSUME NEW name \in Names, NEW new \in Names, JobsNow' = JobsNow, LinesNow' = LinesNow,
           name \in DOMAIN db.xid, new \notin DOMAIN db.xid,
           db'.xid = With(Without(db.xid, {name}), new, db.xid[name])
    PROVE  Promised!Next
<1>1. db'.xid = [m \in (DOMAIN db.xid \ {name}) \cup {new} |->
                    IF m = new THEN db.xid[name] ELSE db.xid[m]]
  BY DEF With, Without
<1>2. Promised!Rename(name, new)
  BY <1>1, Zenon DEF Promised!Rename, LinesNow
<1>3. QED  BY <1>2, RegistryNext

-----------------------------------------------------------------------------
(* The steps of a command of vce *)

LEMMA VceCall ==
    ASSUME NEW p, Formed(p), OfVce(p)
    PROVE  /\ LineIn(p) \in VceLines /\ p.line.argv \in Seq(STRING)
           /\ p.call.method \notin {"invalid", "usage"} /\ IsConf(p.call.method) /\ CallFits(p.call)
           /\ \E g \in Garbage : p.call = Vce(p.line.cmd, p.line.argv, g)
           /\ p.call.params.name[2] = p.line.argv[1]
           /\ p.line.cmd \notin Promised!Shows => p.call.method \notin Reads
<1>1. Made(p) /\ p.line.tool = "vce" /\ p.line.cmd # "list"
  BY DEF Formed, OfVce
<1>2. Asked(p.line) /\ Makes(p.call, p.line) /\ CallFits(p.call)
  BY <1>1, MadeFits DEF Made
<1>3. PICK g \in Garbage : p.call = Vce(p.line.cmd, p.line.argv, g)
  BY <1>1, <1>2 DEF Makes, CallOf
<1>4. p.call.method \notin {"invalid", "usage"}
  BY <1>2 DEF Makes
<1>5. LineIn(p) \in VceLines /\ p.line.argv \in Seq(STRING)
  BY <1>1, <1>2 DEF Asked, LineIn
<1>6. IsConf(p.call.method)
  BY <1>1, <1>3, <1>4, VceFits DEF ConfFits
<1>7. /\ p.call.params.name[2] = p.line.argv[1]
      /\ p.line.cmd \notin Promised!Shows => p.call.method \notin Reads
  BY <1>1, <1>3, <1>4, VceNames
<1>8. QED  BY <1>2, <1>3, <1>4, <1>5, <1>6, <1>7

(* Up to its statement a configuration method goes on, finds the xid of    *)
(* its name, or answers with a fault.                                      *)
Proceeds(c) ==
    \/ proc[c].at \in {"calling", "checked"} /\ proc'[c].at \in {"checked", "begun"}
    \/ /\ proc[c].at = "begun" /\ proc'[c].at = "looked"
       /\ proc'[c].xid = vxdb_getxid(db, proc[c].call.params.name[2]) /\ proc'[c].xid # 0
    \/ proc'[c].at = "answered" /\ proc'[c].fault # "none"

LEMMA ConfProceeds ==
    ASSUME FormatInv, LockInv, NEW c \in Clients, Daemon(c) \/ Lost(c), ~Exit(c), ~Execute(c),
           IsConf(proc[c].call.method)
    PROVE  Proceeds(c)
<1>0. Shape /\ FlowOK(proc[c], held[c], db)
  BY DEF FormatInv, LockInv
<1>1. ASSUME NEW id, id # "none", Refuse(c, id) PROVE Proceeds(c)
  BY <1>0, <1>1, RefuseStep DEF Proceeds
<1>2. ASSUME NEW r, r.fault # "none", Answer(c, r) PROVE Proceeds(c)
  BY <1>0, <1>2, AnswerStep DEF Proceeds
<1>3. CASE method_default(c) \/ Lost(c)
  <2>1. Refuse(c, "NO_SUCH_METHOD") \/ Refuse(c, "LOST")
    BY <1>3, Zenon DEF method_default, Lost
  <2>2. QED  BY <1>1, <2>1
<1>4. CASE method_init(c)
  <2>1. \/ \E r : r.fault # "none" /\ Answer(c, r)
        \/ proc' = [proc EXCEPT ![c].at = IF Method(c) \in M_LOCK THEN "checked" ELSE "begun"]
    BY <1>4, Zenon DEF method_init
  <2>2. CASE proc' = [proc EXCEPT ![c].at = IF Method(c) \in M_LOCK THEN "checked" ELSE "begun"]
    <3>1. proc[c].at = "calling"
      BY <1>4, Zenon DEF method_init
    <3>2. proc'[c].at \in {"checked", "begun"}
      BY <1>0, <2>2 DEF Shape, ProcFields, Idle
    <3>3. QED  BY <3>1, <3>2 DEF Proceeds
  <2>3. QED  BY <1>2, <2>1, <2>2
<1>5. CASE method_lock(c)
  <2>1. proc[c].at = "checked" /\ (Refuse(c, "MEBUSY") \/ proc' = [proc EXCEPT ![c].at = "begun"])
    BY <1>5, Zenon DEF method_lock
  <2>2. CASE proc' = [proc EXCEPT ![c].at = "begun"]
    <3>1. proc'[c].at = "begun"
      BY <1>0, <2>2 DEF Shape, ProcFields, Idle
    <3>2. QED  BY <2>1, <3>1 DEF Proceeds
  <2>3. QED  BY <1>1, <2>1, <2>2
<1>6. CASE Lookup(c)
  <2> DEFINE xid == vxdb_getxid(db, Params(c).name[2])
  <2>1. /\ proc[c].at = "begun"
        /\ \/ \E id : id # "none" /\ Refuse(c, id)
           \/ Refuse(c, "MENOVPS")
           \/ xid # 0 /\ proc' = [proc EXCEPT ![c].at = "looked", ![c].xid = xid]
    BY <1>6, Zenon DEF Lookup
  <2>2. CASE xid # 0 /\ proc' = [proc EXCEPT ![c].at = "looked", ![c].xid = xid]
    <3> HIDE DEF xid
    <3>1. proc'[c].at = "looked" /\ proc'[c].xid = xid
      BY <1>0, <2>2 DEF Shape, ProcFields, Idle
    <3>2. QED  BY <2>1, <2>2, <3>1 DEF Proceeds, xid, Params
  <2>3. QED  BY <1>1, <2>1, <2>2
<1>7. CASE Body(c)
  BY <1>7 DEF Body, Method
<1>8. CASE GroupList(c) \/ GroupMember(c) \/ GroupEnd(c)
  <2>1. proc[c].call.method \in DOMAIN Inner
    BY <1>0, <1>8 DEF GroupList, GroupMember, GroupEnd, FlowOK, Method
  <2>2. QED  BY <2>1, Kinds
<1>9. QED
  BY <1>3, <1>4, <1>5, <1>6, <1>7, <1>8 DEF Daemon

(* Its statement was refused, or has read, or has written what was asked. *)
Fulfilled(c, g) ==
    LET p == proc[c]
        line == LineIn(p)
        w == LinesOf(db.conf[p.xid])
    IN \/ SameConf /\ JobOf(proc'[c]) \in {Promised!Failed(line), Promised!Lost(line)}
       \/ /\ line.cmd \in Promised!Shows /\ SameConf
          /\ JobOf(proc'[c]) = Promised!Done(line, Promised!Shown(w, line, g))
       \/ /\ line.cmd \notin Promised!Shows
          /\ JobOf(proc'[c]) = Promised!Done(line, {})
          /\ \E rows : /\ NewConf(p.xid, rows) /\ Visible(rows)
                       /\ LinesOf(rows) = Promised!Promise(w, line, g)

LEMMA ExecuteKept ==
    ASSUME ExactLimits, FormatInv, LockInv, \A x \in Xids : Visible(db.conf[x]),
           NEW c \in Clients, Execute(c), OfVce(proc[c])
    PROVE  db'.xid = db.xid /\ \E g \in Garbage : Fulfilled(c, g)
<1> DEFINE p == proc[c]
           k == p.call
           x == p.xid
           line == LineIn(p)
           result == ConfMethod(k.method, db.conf[x], k.params)
           r == [fault |-> result.fault, answer |-> result.answer,
                 next |-> [db EXCEPT !.conf[x] = result.next]]
<1>1. /\ Shape /\ Formed(p) /\ p.at = "looked" /\ DbOK(db)
      /\ IsConf(k.method) /\ x \in Xids
  BY DEF FormatInv, LockInv, FlowOK, Execute
<1>2. line \in VceLines /\ p.line.argv \in Seq(STRING) /\ CallFits(k) /\ k.method \notin {"invalid", "usage"}
  BY <1>1, VceCall
<1>3. PICK g \in Garbage : k = Vce(p.line.cmd, p.line.argv, g)
  BY <1>1, VceCall
<1>4. /\ line.cmd = p.line.cmd /\ line.argv = p.line.argv
      /\ line = [cmd |-> line.cmd, argv |-> line.argv]
      /\ p.line.tool = "vce" /\ line.cmd # "list"
  BY DEF OfVce, LineIn
<1>5. k = Vce(line.cmd, line.argv, g)
  BY <1>3, <1>4
<1>6. RowsOK(db.conf[x]) /\ Visible(db.conf[x]) /\ DOMAIN db = DbFields /\ DOMAIN db.conf = Xids
  BY <1>1 DEF DbOK, RegistryOK
<1>7. SUFFICES db'.xid = db.xid /\ Fulfilled(c, g)
  OBVIOUS
<1>8. ASSUME Step(c, Work \ {"members"}), proc'[c].at = "answered"
      PROVE  proc'[c].call = k /\ OfVce(proc'[c]) /\ LineIn(proc'[c]) = line
  <2>1. {"line", "call"} \subseteq ProcFields \ (Work \ {"members"})
    BY DEF ProcFields, Idle, Work
  <2>2. proc'[c].line = p.line /\ proc'[c].call = k
    BY <1>8, <2>1 DEF Step
  <2>3. QED  BY <1>8, <2>2 DEF OfVce, LineIn
<1>9. ASSUME Step(c, Work \ {"members"}), proc'[c].at = "answered", proc'[c].fault # "none"
      PROVE  JobOf(proc'[c]) \in {Promised!Failed(line), Promised!Lost(line)}
  <2>1. OfVce(proc'[c]) /\ LineIn(proc'[c]) = line
    BY <1>8, <1>9
  <2> HIDE DEF line
  <2>2. QED  BY <1>9, <2>1 DEF JobOf, Answers
<1>10. CASE Refuse(c, "MEVXDB")
  <2>1. /\ db' = db /\ proc'[c].fault = "MEVXDB" /\ proc'[c].at = "answered"
        /\ Step(c, Work \ {"members"})
    BY <1>1, <1>10, RefuseStep
  <2>2. QED  BY <1>9, <2>1 DEF Fulfilled, SameConf
<1>11. CASE Answer(c, r)
  <2>1. /\ Step(c, Work \ {"members"}) /\ proc'[c].at = "answered"
        /\ proc'[c].fault = result.fault /\ proc'[c].answer = result.answer
    <3>1. r.fault = result.fault /\ r.answer = result.answer
      OBVIOUS
    <3> HIDE DEF r
    <3>2. QED  BY <1>1, <1>11, <3>1, AnswerStep
  <2>2. NewConf(x, result.next) /\ db'.xid = db.xid
    <3>1. db' = r.next
      BY <1>11, Zenon DEF Answer
    <3>2. db' = [db EXCEPT !.conf[x] = result.next]
      BY <3>1
    <3> HIDE DEF result, x, p
    <3>3. QED  BY <1>1, <1>6, <3>2 DEF NewConf, DbFields
  <2>3. proc'[c].call = k /\ OfVce(proc'[c]) /\ LineIn(proc'[c]) = line
    BY <1>8, <2>1
  <2>4. ASSUME result.next = db.conf[x] PROVE SameConf
    BY <2>2, <2>4 DEF NewConf, SameConf
  <2>5. ASSUME result.fault = "none"
        PROVE  JobOf(proc'[c]) = Promised!Done(line, Tagged(line.cmd, Printed(k.reply, result.answer)))
    <3>1. Decodes(k.reply, result.answer)
      BY <1>1, <1>2, <2>5 DEF CallFits, Suits
    <3>2. Answers(proc'[c])
      BY <2>1, <2>3, <2>5, <3>1 DEF Answers
    <3>3. proc'[c].line.cmd = line.cmd
      BY <2>3 DEF LineIn
    <3> HIDE DEF result, k, p, line
    <3>4. QED  BY <2>1, <2>3, <3>2, <3>3 DEF JobOf
  <2> HIDE DEF line, k, x
  <2>6. CASE result.fault # "none"
    <3>1. result.next = db.conf[x]
      BY <1>1, <2>6, FaultsKeep
    <3>2. JobOf(proc'[c]) \in {Promised!Failed(line), Promised!Lost(line)}
      BY <1>9, <2>1, <2>6
    <3>3. QED  BY <2>2, <2>4, <3>1, <3>2 DEF Fulfilled, line
  <2>7. CASE result.fault = "none" /\ line.cmd \in Promised!Shows
    <3>1. GetKept(line, g, k) /\ k.method \in Reads
      BY <1>2, <1>4, <1>5, <2>7, VceShows
    <3>2. result.next = db.conf[x]
      BY <3>1, ReadsKeep
    <3>3. Tagged(line.cmd, Printed(k.reply, result.answer)) = Promised!Shown(LinesOf(db.conf[x]), line, g)
      BY <1>6, <2>7, <3>1, Zenon DEF GetKept
    <3>4. JobOf(proc'[c]) = Promised!Done(line, Promised!Shown(LinesOf(db.conf[x]), line, g))
      BY <2>5, <2>7, <3>3, Zenon
    <3>5. QED  BY <2>2, <2>4, <2>7, <3>2, <3>4, Zenon DEF Fulfilled, line, x
  <2>8. CASE result.fault = "none" /\ line.cmd \notin Promised!Shows
    <3>1. ChangeKept(line, g, k) /\ k.reply = Ignored
      BY <1>2, <1>4, <1>5, <2>8, VceChanges
    <3>2. /\ LinesOf(result.next) = Promised!Promise(LinesOf(db.conf[x]), line, g)
          /\ Visible(result.next)
      BY <1>6, <2>8, <3>1, Zenon DEF ChangeKept
    <3>3. Printed(Ignored, result.answer) = {}
      BY DEF Printed, Ignored
    <3>4. Tagged(line.cmd, {}) = {}
      BY DEF Tagged
    <3>5. JobOf(proc'[c]) = Promised!Done(line, {})
      BY <2>5, <2>8, <3>1, <3>3, <3>4, Zenon
    <3>6. QED  BY <2>2, <2>8, <3>2, <3>5, Zenon DEF Fulfilled, line, x
  <2>9. QED  BY <2>6, <2>7, <2>8
<1>12. QED  BY <1>10, <1>11, Zenon DEF Execute, Method, Params

-----------------------------------------------------------------------------
(* The methods that are not vce's *)

Created(name, x) ==
    /\ IF name \in DOMAIN db.xid THEN db.xid[name] = x ELSE \A m \in DOMAIN db.xid : db.xid[m] # x
    /\ db'.xid = With(db.xid, name, x)
    /\ \E rows : NewConf(x, rows) /\ Renewable(db.conf[x], rows)

Removed(name) ==
    /\ name \in DOMAIN db.xid /\ db'.xid = Without(db.xid, {name})
    /\ \E rows : /\ NewConf(db.xid[name], rows) /\ Visible(rows)
                 /\ LinesOf(rows) = [Promised!NoLines EXCEPT
                                       !.vx_cpuset = LinesOf(db.conf[db.xid[name]]).vx_cpuset]

Renamed(name, new) ==
    /\ SameConf /\ name \in DOMAIN db.xid /\ new \notin DOMAIN db.xid
    /\ db'.xid = With(Without(db.xid, {name}), new, db.xid[name])

(* The registry stays, or a vserver is created, removed or renamed. *)
Registered ==
    \/ SameConf /\ db'.xid = db.xid
    \/ \E name \in Names : \/ \E x \in Xids : Created(name, x)
                           \/ Removed(name)
                           \/ \E new \in Names : Renamed(name, new)

LEMMA CreateRegisters ==
    ASSUME KnownLines, DbOK(db), \A x \in Xids : Visible(db.conf[x]),
           NEW q, NEW user, q.name[2] \in Names, db' = m_vx_create(db, q, user).next
    PROVE  Registered
<1>1. DOMAIN db = DbFields /\ DOMAIN db.conf = Xids /\ \A x \in Xids : RowsOK(db.conf[x])
  BY DEF DbOK, RegistryOK
<1>2. CASE db' = db
  BY <1>2 DEF SameConf, Registered
<1>3. CASE db' # db
  <2>1. PICK x \in Xids, t \in DOMAIN Templates :
           \E vdir : CreatedFrom(db, db', q.name[2], x, vdir, Templates[t])
    BY <1>3, CreateIs
  <2> DEFINE rows == create_vxdb_entries(db.conf[x], Templates[t])
             name == q.name[2]
  <2>2. ValidTemplate(Templates[t]) /\ \E vdir : db' = Inserted(db, name, x, vdir, rows)
    BY <2>1 DEF CreatedFrom
  <2>3. vxdb_getxid(db, name) \in {0, x} /\ (vxdb_getxid(db, name) = 0 => \A n \in DOMAIN db.xid : db.xid[n] # x)
    BY <2>1 DEF CreatedFrom
  <2>4. Renewable(db.conf[x], rows)
    BY <1>1, <2>2, RowsRenewed
  <2> HIDE DEF rows, name
  <2>5. db'.conf = [db.conf EXCEPT ![x] = rows] /\ db'.xid = With(db.xid, name, x)
    BY <1>1, <2>2 DEF Inserted, DbFields
  <2>6. NewConf(x, rows)
    BY <1>1, <2>5 DEF NewConf
  <2>7. db.xid \in [DOMAIN db.xid -> Xids]
    BY DEF DbOK, RegistryOK
  <2>8. IF name \in DOMAIN db.xid THEN db.xid[name] = x ELSE \A m \in DOMAIN db.xid : db.xid[m] # x
    BY <2>3, <2>7, NoXid DEF vxdb_getxid
  <2>9. Created(name, x)
    BY <2>4, <2>5, <2>6, <2>8 DEF Created
  <2>10. QED  BY <2>9 DEF Registered, name
<1>4. QED  BY <1>2, <1>3

LEMMA RemoveRegisters ==
    ASSUME KnownLines, DbOK(db), \A x \in Xids : Visible(db.conf[x]),
           NEW q, q.name[2] \in Names, db' = m_vx_remove(db, q).next
    PROVE  Registered
<1> DEFINE name == q.name[2]
           x == db.xid[name]
           rows == [NoRows EXCEPT !.vx_cpuset = db.conf[x].vx_cpuset]
<1>1. DOMAIN db = DbFields /\ DOMAIN db.conf = Xids /\ \A y \in Xids : RowsOK(db.conf[y])
  BY DEF DbOK, RegistryOK
<1>2. CASE db' = db
  BY <1>2 DEF SameConf, Registered
<1>3. \/ db' = db
      \/ /\ vxdb_getxid(db, name) # 0 /\ db'.conf = [db.conf EXCEPT ![x] = rows]
         /\ db'.xid = Without(db.xid, {name})
  BY <1>1 DEF m_vx_remove, Named, Checked, Refused, Changed, DbFields
<1>4. CASE /\ vxdb_getxid(db, name) # 0 /\ db'.conf = [db.conf EXCEPT ![x] = rows]
           /\ db'.xid = Without(db.xid, {name})
  <2>1. x \in Xids /\ name \in DOMAIN db.xid
    BY <1>4 DEF vxdb_getxid, DbOK, RegistryOK
  <2>2. Renewable(db.conf[x], rows)
    BY <1>1, <2>1, RowsRenewed
  <2>3. RowsOK(NoRows)
    BY DEF RowsOK, NoRows, Empty
  <2>4. LinesOf(rows) = [Promised!NoLines EXCEPT !.vx_cpuset = LinesOf(db.conf[x]).vx_cpuset]
    BY <2>3, CpusetLines, NoRowsShow
  <2> HIDE DEF rows
  <2>5. NewConf(x, rows)
    BY <1>1, <1>4, <2>1 DEF NewConf
  <2>6. Visible(rows)
    BY <2>2 DEF Renewable
  <2>7. Removed(name)
    BY <1>4, <2>1, <2>4, <2>5, <2>6, Zenon DEF Removed
  <2>8. QED  BY <2>7, Zenon DEF Registered
<1>5. QED  BY <1>2, <1>3, <1>4

LEMMA RenameRegisters ==
    ASSUME DbOK(db), NEW q, q.name[2] \in Names, db' = m_vx_rename(db, q).next
    PROVE  Registered
<1> DEFINE p == Fields(q)
           name == q.name[2]
           new == p.newname
<1>1. DOMAIN db = DbFields /\ db.xid \in [DOMAIN db.xid -> Xids]
  BY DEF DbOK, RegistryOK
<1>2. CASE db' = db
  BY <1>2 DEF SameConf, Registered
<1>3. \/ db' = db
      \/ /\ Decomposes(q, [name |-> "s", newname |-> "s"])
         /\ new \in Names /\ vxdb_getxid(db, new) = 0 /\ vxdb_getxid(db, name) # 0
         /\ db' = [db EXCEPT !.xid = With(Without(@, {p.name}), new, @[p.name])]
  BY DEF m_vx_rename, Named, Checked, Refused, Changed, validate_name
<1>4. CASE /\ Decomposes(q, [name |-> "s", newname |-> "s"])
           /\ new \in Names /\ vxdb_getxid(db, new) = 0 /\ vxdb_getxid(db, name) # 0
           /\ db' = [db EXCEPT !.xid = With(Without(@, {p.name}), new, @[p.name])]
  <2>1. p.name = name
    BY <1>4 DEF Decomposes, Fields
  <2>2. db'.xid = With(Without(db.xid, {name}), new, db.xid[name]) /\ SameConf
    BY <1>1, <1>4, <2>1 DEF DbFields, SameConf
  <2>3. new \in Names /\ vxdb_getxid(db, new) = 0 /\ vxdb_getxid(db, name) # 0
    BY <1>4
  <2> HIDE DEF name, new, p
  <2>4. name \in DOMAIN db.xid /\ new \notin DOMAIN db.xid
    BY <1>1, <2>3, NoXid DEF vxdb_getxid
  <2>5. Renamed(name, new)
    BY <2>2, <2>4 DEF Renamed
  <2>6. QED  BY <2>3, <2>5 DEF Registered, name
<1>5. QED  BY <1>2, <1>3, <1>4

LEMMA BodyRegisters ==
    ASSUME KnownLines, FormatInv, LockInv, \A x \in Xids : Visible(db.conf[x]),
           NEW c \in Clients, Body(c)
    PROVE  Registered
<1> DEFINE q == Params(c)
           m == Method(c)
           user == proc[c].user
<1>1. /\ proc[c].at = "begun" /\ ~IsConf(m) /\ m \notin DOMAIN Inner
      /\ FlowOK(proc[c], held[c], db) /\ DbOK(db) /\ Shape
  BY DEF Body, LockInv, FormatInv
<1>2. m \in OneStep /\ (m \in M_LOCK => q.name[2] \in Names)
  BY <1>1 DEF FlowOK, OneStep, Method, Params
<1>3. CASE Refuse(c, "MEVXDB")
  BY <1>1, <1>3, RefuseStep DEF SameConf, Registered
<1>4. ASSUME NEW r \in Outcomes, NEW k \in Counters, Answer(c, VcdMethod(m, db, q, user, r, k))
      PROVE  Registered
  <2>1. db' = VcdMethod(m, db, q, user, r, k).next
    BY <1>4 DEF Answer
  <2> HIDE DEF m, q, user
  <2>2. CASE m = "vx.create"
    BY <1>1, <1>2, <2>1, <2>2, Lockers, CreateRegisters DEF VcdMethod
  <2>3. CASE m = "vx.remove"
    BY <1>1, <1>2, <2>1, <2>3, Lockers, RemoveRegisters DEF VcdMethod
  <2>4. CASE m = "vx.rename"
    BY <1>1, <1>2, <2>1, <2>4, Lockers, RenameRegisters DEF VcdMethod
  <2>5. CASE m \notin {"vx.create", "vx.remove", "vx.rename"}
    <3>1. Quiet(db, db')
      BY <1>1, <1>2, <2>1, <2>5, QuietKeeps
    <3>2. QED  BY <1>1, <3>1, QuietChanges DEF SameConf, Registered
  <2>6. QED  BY <2>2, <2>3, <2>4, <2>5
<1>5. QED  BY <1>3, <1>4, Zenon DEF Body

-----------------------------------------------------------------------------
(* Every step is one of VceSpec, or shows its users nothing new *)

VisibleInv == \A x \in Xids : Visible(db.conf[x])
Proper == VisibleInv' /\ (Promised!Next \/ UNCHANGED <<LinesNow, db.xid, JobsNow>>)

LEMMA SameProper ==
    ASSUME VisibleInv, SameConf, db'.xid = db.xid, JobsNow' = JobsNow \/ Promised!Next
    PROVE  Proper
<1>1. VisibleInv'
  BY DEF VisibleInv, SameConf
<1>2. LinesNow' = LinesNow
  BY LinesSame
<1>3. QED  BY <1>1, <1>2 DEF Proper

LEMMA StillProper ==
    ASSUME VisibleInv, SameConf, db'.xid = db.xid, proc' = proc PROVE Proper
<1>1. \A c \in Clients : Job(c)' = Job(c)
  BY JobIs
<1>2. JobsNow' = JobsNow
  BY <1>1, Zenon DEF JobsNow
<1>3. QED  BY <1>2, SameProper

LEMMA IdleAt == Idle.at = "idle"
  BY Zenon DEF Idle

LEMMA MainProper ==
    ASSUME FormatInv, FormatInv', VisibleInv, SameConf, db'.xid = db.xid, NEW c \in Clients, main(c)
    PROVE  Proper
<1> DEFINE p == proc'[c]
<1>1. Shape /\ Formed(p) /\ proc[c].at = "idle"
  BY DEF FormatInv, main, Started
<1>2. Step(c, ProcFields)
  BY <1>1, MainStep
<1>3. JobsNow[c] = Promised!Free /\ JobsNow'[c] = JobOf(p) /\ NewJob(c)
  BY <1>1, <1>2, JobNow, JobNew DEF JobOf, OfVce
<1> HIDE DEF p
<1>4. CASE ~OfVce(p)
  BY <1>3, <1>4, JobsSame, SameProper DEF JobOf
<1>5. CASE OfVce(p)
  <2>1. p.at \in {"calling", "answered"} /\ (p.at = "answered" => p.fault = "TRANSPORT")
    <3>1. p = Idle => ~OfVce(p)
      BY IdleAt DEF OfVce
    <3>2. QED  BY <1>1, <1>5, <3>1, MainStep DEF p
  <2>2. LineIn(p) \in VceLines
    BY <1>1, <1>5, VceCall
  <2>3. JobOf(p) \in {Promised!Asked(LineIn(p)), Promised!Failed(LineIn(p))}
    BY <1>5, <2>1 DEF JobOf, Answers
  <2>4. SameLines
    BY LinesSame DEF SameLines
  <2>5. Promised!Next
    BY <1>3, <2>2, <2>3, <2>4, AskNext
  <2>6. QED  BY <2>5, SameProper
<1>6. QED  BY <1>4, <1>5

LEMMA ReceiveProper ==
    ASSUME FormatInv, VisibleInv, SameConf, db'.xid = db.xid, NEW c \in Clients, Receive(c)
    PROVE  Proper
<1> DEFINE p == proc[c]
<1>1. Shape /\ p.at = "answered"
  BY DEF FormatInv, Receive
<1>2. Step(c, ProcFields) /\ proc'[c] = Idle
  BY <1>1, ReceiveStep
<1>3. JobsNow[c] = JobOf(p) /\ JobsNow'[c] = Promised!Free /\ NewJob(c)
  BY <1>2, IdleAt, JobNow, JobNew DEF JobOf, OfVce
<1> HIDE DEF p
<1>4. CASE ~OfVce(p)
  BY <1>3, <1>4, JobsSame, SameProper DEF JobOf
<1>5. CASE OfVce(p)
  <2>1. \/ JobOf(p) \in {Promised!Failed(LineIn(p)), Promised!Lost(LineIn(p))}
        \/ \E T : JobOf(p) = Promised!Done(LineIn(p), T)
    BY <1>1, <1>5 DEF JobOf
  <2>2. SameLines
    BY LinesSame DEF SameLines
  <2>3. Promised!Next
    BY <1>3, <2>1, <2>2, EndNext
  <2>4. QED  BY <2>3, SameProper
<1>6. QED  BY <1>4, <1>5

(* cmd_login is no command of vce. *)
LEMMA AskProper ==
    ASSUME FormatInv, VisibleInv, SameConf, db'.xid = db.xid, NEW c \in Clients, AskVdir(c)
    PROVE  Proper
<1>1. Shape /\ proc[c].line.tool = "vcc"
  BY DEF FormatInv, AskVdir, Login
<1>2. Step(c, {"at", "got", "call"})
  BY <1>1, AskStep
<1>3. "line" \in ProcFields \ {"at", "got", "call"}
  BY DEF ProcFields, Idle
<1>4. proc'[c].line.tool = "vcc"
  BY <1>1, <1>2, <1>3 DEF Step
<1>5. JobsNow'[c] = JobsNow[c] /\ NewJob(c)
  BY <1>1, <1>2, <1>4, JobNow, JobNew DEF JobOf, OfVce
<1>6. QED  BY <1>5, JobsSame, SameProper

LEMMA WorkKeepsLine ==
    ASSUME NEW c \in Clients, Step(c, Work), proc[c].at # "idle", proc'[c].at # "idle"
    PROVE  /\ OfVce(proc'[c]) = OfVce(proc[c]) /\ LineIn(proc'[c]) = LineIn(proc[c])
           /\ proc'[c].call = proc[c].call
<1>1. {"line", "call"} \subseteq ProcFields \ Work
  BY DEF ProcFields, Idle, Work
<1>2. proc'[c].line = proc[c].line /\ proc'[c].call = proc[c].call
  BY <1>1 DEF Step
<1>3. QED  BY <1>2 DEF OfVce, LineIn

LEMMA WorkProper ==
    ASSUME FormatInv, LockInv, VisibleInv, SameConf, db'.xid = db.xid,
           NEW c \in Clients, Daemon(c) \/ Lost(c), ~Exit(c), ~Execute(c)
    PROVE  Proper
<1> DEFINE p == proc[c]
           q == proc'[c]
           line == LineIn(p)
<1>1. Shape /\ Formed(p)
  BY DEF FormatInv
<1>2. /\ Step(c, Work) /\ q.at # "idle"
      /\ p.at \in {"calling", "checked", "begun", "looked", "looping", "answered"}
      /\ p.at = "answered" => Lost(c)
  BY <1>1, DaemonStep
<1>3. OfVce(q) = OfVce(p) /\ LineIn(q) = line /\ q.call = p.call
  BY <1>2, WorkKeepsLine
<1>4. JobsNow[c] = JobOf(p) /\ JobsNow'[c] = JobOf(q) /\ NewJob(c)
  BY <1>2, JobNow, JobNew
<1>5. CASE ~OfVce(p)
  BY <1>3, <1>4, <1>5, JobsSame, SameProper DEF JobOf
<1>6. CASE OfVce(p)
  <2>1. IsConf(p.call.method) /\ p.call.params.name[2] = line.argv[1]
    <3>1. IsConf(p.call.method) /\ p.call.params.name[2] = p.line.argv[1]
      BY <1>1, <1>6, VceCall
    <3>2. QED  BY <3>1 DEF LineIn
  <2>2. Proceeds(c)
    BY <2>1, ConfProceeds
  <2>3. SameLines
    BY LinesSame DEF SameLines
  <2>4. CASE p.at \in {"calling", "checked"} /\ q.at \in {"checked", "begun"}
    <3> HIDE DEF p, q, line
    <3>1. JobOf(q) = JobOf(p)
      BY <1>3, <1>6, <2>4 DEF JobOf, line
    <3>2. QED  BY <1>4, <3>1, JobsSame, SameProper
  <2>5. CASE /\ p.at = "begun" /\ q.at = "looked"
             /\ q.xid = vxdb_getxid(db, p.call.params.name[2]) /\ q.xid # 0
    <3> HIDE DEF p, q
    <3>1. line.argv[1] \in DOMAIN db.xid /\ q.xid = db.xid[line.argv[1]]
      BY <2>1, <2>5 DEF vxdb_getxid
    <3>2. JobOf(p) = Promised!Asked(line) /\ JobOf(q) = Promised!Aimed(line, q.xid)
      BY <1>3, <1>6, <2>5 DEF JobOf
    <3> HIDE DEF line
    <3>3. Promised!Next
      BY <1>4, <2>3, <3>1, <3>2, AimNext
    <3>4. QED  BY <3>3, SameProper
  <2>6. CASE q.at = "answered" /\ q.fault # "none" /\ ~Lost(c)
    <3> HIDE DEF p, q
    <3>1. JobOf(q) \in {Promised!Failed(line), Promised!Lost(line)}
      BY <1>3, <1>6, <2>6 DEF JobOf, Answers
    <3>2. JobOf(p) = Promised!Asked(line) \/ JobOf(p) = Promised!Aimed(line, p.xid)
      BY <1>2, <1>6, <2>6 DEF JobOf
    <3> HIDE DEF line
    <3>3. Promised!Next
      BY <1>4, <2>3, <3>1, <3>2, FailNext, LoseNext
    <3>4. QED  BY <3>3, SameProper
  <2>7. CASE Lost(c)
    <3>1. p.fault # "LOST" /\ q.at = "answered" /\ q.fault = "LOST"
      BY <1>1, <2>7, RefuseStep DEF Lost
    <3> HIDE DEF p, q
    <3>2. JobOf(q) = Promised!Lost(line)
      BY <1>3, <1>6, <3>1 DEF JobOf, Answers
    <3>3. \/ JobOf(p) \in {Promised!Asked(line), Promised!Failed(line)}
          \/ \E x : JobOf(p) \in {Promised!Aimed(line, x), Promised!Done(line, x)}
      BY <1>2, <1>6, <3>1 DEF JobOf
    <3> HIDE DEF line
    <3>4. Promised!Next
      BY <1>4, <2>3, <3>2, <3>3, LoseNext
    <3>5. QED  BY <3>4, SameProper
  <2>8. QED  BY <2>2, <2>4, <2>5, <2>6, <2>7 DEF Proceeds
<1>7. QED  BY <1>5, <1>6

LEMMA ExecuteProper ==
    ASSUME ExactLimits, FormatInv, LockInv, VisibleInv, NEW c \in Clients, Execute(c)
    PROVE  Proper
<1> DEFINE p == proc[c]
           line == LineIn(p)
           x == p.xid
<1>1. /\ Shape /\ Formed(p) /\ p.at = "looked" /\ IsConf(p.call.method) /\ x \in Xids
      /\ p.call.method \in M_LOCK => vxdb_getxid(db, p.call.params.name[2]) = x
      /\ \A y \in Xids : Visible(db.conf[y])
  BY DEF FormatInv, LockInv, FlowOK, Execute, VisibleInv
<1>2. OfVce(p)
  BY <1>1, MadeFits DEF Formed, ByVce, OfVce
<1>3. Step(c, Work)
  <2>1. \E r : Answer(c, r)
    BY Zenon DEF Execute, Refuse
  <2>2. QED  BY <1>1, <2>1, AnswerStep DEF Step
<1>4. /\ JobsNow[c] = Promised!Aimed(line, x) /\ JobsNow'[c] = JobOf(proc'[c])
      /\ NewJob(c) /\ LinesNow[x] = LinesOf(db.conf[x])
  BY <1>1, <1>2, <1>3, JobNow, JobNew, LinesAre DEF JobOf
<1>5. db'.xid = db.xid /\ \E g \in Garbage : Fulfilled(c, g)
  BY <1>1, <1>2, ExecuteKept
<1>6. PICK g \in Garbage : Fulfilled(c, g)
  BY <1>5
<1>7. SameConf => SameLines
  BY <1>5, LinesSame DEF SameLines
<1>8. CASE SameConf /\ JobOf(proc'[c]) \in {Promised!Failed(line), Promised!Lost(line)}
  <2> HIDE DEF line, x
  <2>1. Promised!Next
    BY <1>4, <1>7, <1>8, FailNext, LoseNext
  <2>2. QED  BY <1>5, <1>8, <2>1, SameProper
<1>9. CASE /\ line.cmd \in Promised!Shows /\ SameConf
           /\ JobOf(proc'[c]) = Promised!Done(line, Promised!Shown(LinesOf(db.conf[x]), line, g))
  <2> HIDE DEF line, x
  <2>1. Promised!Next
    BY <1>4, <1>7, <1>9, ShowNext
  <2>2. QED  BY <1>5, <1>9, <2>1, SameProper
<1>10. ASSUME NEW rows, line.cmd \notin Promised!Shows, JobOf(proc'[c]) = Promised!Done(line, {}),
              NewConf(x, rows), Visible(rows), LinesOf(rows) = Promised!Promise(LinesOf(db.conf[x]), line, g)
       PROVE  Proper
  <2>1. p.call.params.name[2] = line.argv[1] /\ p.call.method \notin Reads
    <3>1. /\ p.call.params.name[2] = p.line.argv[1]
          /\ p.line.cmd \notin Promised!Shows => p.call.method \notin Reads
      BY <1>1, <1>2, VceCall
    <3>2. QED  BY <1>10, <3>1 DEF LineIn
  <2>2. vxdb_getxid(db, line.argv[1]) = x /\ x # 0
    BY <1>1, <2>1, Lockers, NoXid
  <2> HIDE DEF line, x
  <2>3. line.argv[1] \in DOMAIN db.xid /\ db.xid[line.argv[1]] = x
    BY <2>2 DEF vxdb_getxid
  <2>4. LinesNow' = [LinesNow EXCEPT ![x] = Promised!Promise(LinesNow[x], line, g)]
    BY <1>1, <1>4, <1>10, LinesNew
  <2>5. Promised!Next
    BY <1>4, <1>5, <1>10, <2>3, <2>4, ChangeNext
  <2>6. VisibleInv'
    BY <1>1, <1>10 DEF VisibleInv, NewConf
  <2>7. QED  BY <2>5, <2>6 DEF Proper
<1>11. QED  BY <1>6, <1>8, <1>9, <1>10, Zenon DEF Fulfilled

LEMMA BodyProper ==
    ASSUME KnownLines, FormatInv, LockInv, VisibleInv, NEW c \in Clients, Body(c)
    PROVE  Proper
<1> DEFINE p == proc[c]
<1>1. /\ Shape /\ Formed(p) /\ p.at = "begun" /\ ~IsConf(p.call.method) /\ DbOK(db)
      /\ \A x \in Xids : Visible(db.conf[x])
  BY DEF FormatInv, LockInv, VisibleInv, Body, Method
<1>2. Step(c, Work) /\ proc'[c].at = "answered"
  <2>1. \E r : Answer(c, r)
    BY Zenon DEF Body, Refuse
  <2>2. QED  BY <1>1, <2>1, AnswerStep DEF Step
<1>3. ~OfVce(p) /\ ~OfVce(proc'[c])
  <2>1. ~OfVce(p)
    BY <1>1, VceCall
  <2>2. QED  BY <1>1, <1>2, <2>1, WorkKeepsLine
<1>4. JobsNow' = JobsNow
  BY <1>2, <1>3, JobNow, JobNew, JobsSame DEF JobOf
<1>5. Registered
  BY <1>1, BodyRegisters
<1>6. CASE SameConf /\ db'.xid = db.xid
  BY <1>4, <1>6, SameProper
<1>7. ASSUME NEW x \in Xids, NEW rows, NewConf(x, rows), Visible(rows) PROVE VisibleInv'
  BY <1>1, <1>7 DEF NewConf, VisibleInv
<1>8. ASSUME NEW x \in Xids, NEW rows, NEW l, NewConf(x, rows),
             LinesOf(rows) = [l EXCEPT !.vx_cpuset = LinesOf(db.conf[x]).vx_cpuset]
      PROVE  LinesNow' = RenewedAs(x, l)
  BY <1>8, LinesNew, LinesAre DEF RenewedAs
<1>9. ASSUME NEW name \in Names, NEW x \in Xids, Created(name, x) PROVE Proper
  <2>1. PICK rows : NewConf(x, rows) /\ Renewable(db.conf[x], rows)
    BY <1>9 DEF Created
  <2>2. PICK l \in FreshLines : LinesOf(rows) = [l EXCEPT !.vx_cpuset = LinesOf(db.conf[x]).vx_cpuset]
    BY <2>1, Zenon DEF Renewable
  <2>3. LinesNow' = RenewedAs(x, l)
    BY <1>8, <2>1, <2>2
  <2>4. Promised!Next
    BY <1>4, <1>9, <2>3, CreateNext DEF Created
  <2>5. QED  BY <1>7, <2>1, <2>4 DEF Proper, Renewable
<1>10. ASSUME NEW name \in Names, Removed(name) PROVE Proper
  <2> DEFINE x == db.xid[name]
  <2>1. PICK rows : /\ NewConf(x, rows) /\ Visible(rows)
                    /\ LinesOf(rows) = [Promised!NoLines EXCEPT !.vx_cpuset = LinesOf(db.conf[x]).vx_cpuset]
    BY <1>10, Zenon DEF Removed
  <2>2. name \in DOMAIN db.xid /\ x \in Xids /\ db'.xid = Without(db.xid, {name})
    BY <1>1, <1>10 DEF Removed, DbOK, RegistryOK
  <2>3. LinesNow' = RenewedAs(x, Promised!NoLines)
    BY <1>8, <2>1, <2>2
  <2>4. Promised!Next
    BY <1>4, <2>2, <2>3, RemoveNext
  <2>5. QED  BY <1>7, <2>1, <2>2, <2>4 DEF Proper
<1>11. ASSUME NEW name \in Names, NEW new \in Names, Renamed(name, new) PROVE Proper
  <2>1. Promised!Next
    BY <1>4, <1>11, LinesSame, RenameNext DEF Renamed
  <2>2. VisibleInv'
    BY <1>1, <1>11 DEF Renamed, SameConf, VisibleInv
  <2>3. QED  BY <2>1, <2>2 DEF Proper
<1>12. QED  BY <1>5, <1>6, <1>9, <1>10, <1>11, Zenon DEF Registered

LEMMA PromiseStep ==
    ASSUME ExactLimits, KnownLines
    PROVE  LockInv /\ FormatInv /\ FormatInv' /\ VisibleInv /\ [Next]_vars => Proper
<1> SUFFICES ASSUME LockInv, FormatInv, FormatInv', VisibleInv, [Next]_vars PROVE Proper
  OBVIOUS
<1>1. Shape /\ DbOK(db)
  BY DEF FormatInv, LockInv
<1>2. ASSUME NEW c \in Clients, Program(c) \/ Daemon(c) \/ Lost(c), ~Execute(c), ~Body(c)
      PROVE  Proper
  <2>1. SameConf /\ db'.xid = db.xid
    BY <1>1, <1>2, SameStep DEF SameRows, SameConf
  <2>2. CASE getopt(c) \/ vxpasswd(c) \/ Exit(c)
    BY <2>1, <2>2, StillProper DEF getopt, vxpasswd, Exit
  <2>3. CASE ~Exit(c) /\ (Daemon(c) \/ Lost(c))
    BY <1>2, <2>1, <2>3, WorkProper
  <2>4. QED
    BY <1>2, <2>1, <2>2, <2>3, MainProper, AskProper, ReceiveProper DEF Program
<1>3. ASSUME Guest \/ Terminated \/ UNCHANGED vars PROVE Proper
  <2>1. CASE UNCHANGED vars
    BY <2>1, StillProper DEF vars, SameConf
  <2>2. CASE Guest
    <3>1. proc' = proc /\ \E x : db' = [db EXCEPT !.up = @ \ {x}]
      BY <2>2, Zenon DEF Guest
    <3>2. SameConf /\ db'.xid = db.xid
      BY <1>1, <3>1 DEF SameConf, DbOK, DbFields
    <3>3. QED  BY <3>1, <3>2, StillProper
  <2>3. QED  BY <1>3, <2>1, <2>2 DEF Terminated
<1>4. QED
  BY <1>2, <1>3, ExecuteProper, BodyProper, Zenon DEF Next

LEMMA PromiseInit ==
    ASSUME KnownLines
    PROVE  Init => VisibleInv /\ Promised!Init
<1> SUFFICES ASSUME Init PROVE VisibleInv /\ Promised!Init
  OBVIOUS
<1>1. db = InitialDb /\ proc = [c \in Clients |-> Idle]
  BY DEF Init
<1>2. VisibleInv
  BY <1>1, Zenon DEF VisibleInv, KnownLines
<1>3. [x \in Xids |-> LinesOf(db.conf[x])] = InitialLines
  BY <1>1, Zenon DEF KnownLines
<1>4. \A c \in Clients : Job(c) = Promised!Free
  BY <1>1, IdleAt, JobIs DEF JobOf, OfVce
<1>5. [c \in Clients |-> Job(c)] = [c \in Clients |-> Promised!Free]
  BY <1>4
<1>6. db.xid = InitialDb.xid
  BY <1>1
<1>7. QED  BY <1>2, <1>3, <1>5, <1>6, Zenon DEF Promised!Init

(* vce, the network and vcd together keep the promise of vce's usage text, *)
(* for any sessions of any clients, any templates and any outcome in the   *)
(* kernel.  Each step of the system is one of VceSpec for the command line *)
(* that this client was given, or changes nothing that a user sees: a      *)
(* command ends with success only after its change to the vserver it       *)
(* names, or with all the lines of that vserver, and with a fault only if  *)
(* it has changed nothing.  The lines in the beginning and of a new        *)
(* vserver are right, and the limits asked for can be given back.          *)
THEOREM PromiseKept ==
    ASSUME ExactLimits, KnownLines
    PROVE  Spec => KeepsPromise
<1>1. Init => VisibleInv /\ Promised!Init
  BY PromiseInit
<1>2. LockInv /\ FormatInv /\ FormatInv' /\ VisibleInv /\ [Next]_vars =>
         VisibleInv' /\ (Promised!Next \/ UNCHANGED <<LinesNow, db.xid, JobsNow>>)
  BY PromiseStep DEF Proper
<1>3. UNCHANGED <<LinesNow, db.xid, JobsNow>> =>
         UNCHANGED <<[x \in Xids |-> LinesOf(db.conf[x])], db.xid, [c \in Clients |-> Job(c)]>>
  BY DEF LinesNow, JobsNow
<1>4. QED
  BY <1>1, <1>2, <1>3, FormatInvariant, PTL DEF Spec, KeepsPromise, Promised!Spec
=============================================================================
