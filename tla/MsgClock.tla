------------------------------ MODULE MsgClock ------------------------------
(***************************************************************************)
(* The digital clock built on messages (user/msg_clock): the tasks READ,    *)
(* CLOCK, CHRONO, WRITE and MASTER of clock.c, the three servers CLKTSK     *)
(* (cmdclk.c), CHRTSK (cmdcrn.c) and DSPTSK (dispclk.c) between them, and   *)
(* the keyboard and screen processes.                                       *)
(*                                                                         *)
(* A message call is a step, and so is the work between two of them.  A     *)
(* task that sends waits until its message is received, so it has at most   *)
(* one message under way.  The state begins when the tasks of clock.c have  *)
(* started (the run script waits a second before it starts the keyboard).   *)
(* What the display shows is left out: WRITE tells the chain that ends it   *)
(* from the others, and no task waits for the screen.                       *)
(***************************************************************************)
EXTENDS ClockRules, Integers, Sequences

CONSTANTS
  Keys,           \* what the user may type
  MaxKeys,        \* bound on the keys typed before the last "f"
  KbdCap,         \* bytes in the mailbox KEYBRD, 1000 in the source
  NoMsg

ASSUME MsgAssumption == KbdCap \in Nat \ {0} /\ MaxKeys \in Nat

Server == [c \in Consumer |-> IF c = "CLOCK" THEN "CLKTSK" ELSE "CHRTSK"]
Tasks == Consumer \cup {"READ", "WRITE", "MASTER", "KBRTSK", "SCRTSK",
                        "CLKTSK", "CHRTSK", "DSPTSK"}

VARIABLES
  parallel,       \* TRUE: several CPUs, FALSE: a task runs until it waits
  pc,             \* where each task is
  out,            \* the message each task is sending, or waits to be answered
  kbd, typed, resumed,
  run,            \* READ: the processes that reported
  ch, to,         \* READ: the command it puts and the server it puts it to
  status,         \* Clockstatus and Chronostatus
  got,            \* the servers' local command
  buffered,       \* CHRTSK: the command that came while the final time showed
  ending,         \* CLOCK and CHRONO: the command was "F"
  knows,          \* who has had its first message to a server answered
  text,           \* the static chains hours and times: "time" or "END"
  ptr             \* DSPTSK and WRITE: whose chain the pointer they have is

serveVars == <<status, got, buffered>>
readVars == <<run, ch, to>>
keyVars == <<kbd, typed, resumed>>
showVars == <<text, ptr>>
msgVars == <<parallel, pc, out, keyVars, readVars, serveVars, ending, knows,
             showVars>>

MsgInit ==
  /\ parallel \in BOOLEAN
  /\ pc = [t \in Tasks |-> CASE t = "READ" -> "receive"
                             [] t \in Consumer -> "sync"
                             [] t = "WRITE" -> "get"
                             [] t = "MASTER" -> "suspended"
                             [] OTHER -> "hello"]
  /\ out = [t \in Tasks |-> NoMsg]
  /\ kbd = << >> /\ typed = 0 /\ resumed = FALSE
  /\ run = {} /\ ch = NoMsg /\ to = "CLOCK"
  /\ status = FirstStatus
  /\ got = [c \in Consumer |-> NoMsg] /\ buffered = NoMsg
  /\ ending = [c \in Consumer |-> FALSE]
  /\ knows = {}
  /\ text = [c \in Consumer |-> "time"]
  /\ ptr = [t \in {"DSPTSK", "WRITE"} |-> NoMsg]

-----------------------------------------------------------------------------
\* The message calls.  rt_send and rt_rpc block the sender; a received message
\* frees the sender of an rt_send, while that of an rt_rpc stays until rt_return.
\* A task that was deleted holds no sender.
Goto(t, at) == pc' = [pc EXCEPT ![t] = at]
Free(t) == out[t] = NoMsg
Ended(t) == pc[t] = "end" /\ Free(t)
Mail(dest, body) == [dest |-> dest, body |-> body]
rt_send(t, dest, body) ==
  out' = IF pc[dest] = "end" THEN out ELSE [out EXCEPT ![t] = Mail(dest, body)]
Sends(s, t) == out[s] # NoMsg /\ out[s].dest = t
rt_receive(s) == out' = [out EXCEPT ![s] = NoMsg]

\* The first call of a client: an rt_rpc that names its role, answered when all
\* clients of the server have called.  Later calls skip it: ackn is the server,
\* and once the server is gone the rt_rpc to nobody returns at once.
Known(t, srv) == <<t, srv>> \in knows /\ out[t] = NoMsg
Introduce(t, srv) ==
  /\ <<t, srv>> \notin knows /\ out[t] = NoMsg
  /\ out' = [out EXCEPT ![t] = Mail(srv, "rpc")]
  /\ knows' = knows \cup {<<t, srv>>}
  /\ UNCHANGED <<parallel, pc, keyVars, readVars, serveVars, ending, showVars>>

Clients(srv) == IF srv = "DSPTSK" THEN Consumer \cup {"WRITE"}
                ELSE {"READ"} \cup {c \in Consumer : Server[c] = srv}

\* The loop of a server until all its clients have called, and its rt_returns.
Hello(srv) ==
  /\ pc[srv] = "hello"
  /\ \A t \in Clients(srv) : Sends(t, srv)
  /\ out' = [t \in Tasks |-> IF t \in Clients(srv) THEN NoMsg ELSE out[t]]
  /\ Goto(srv, IF srv = "DSPTSK" THEN "waiting" ELSE "serve")
  /\ UNCHANGED <<parallel, keyVars, readVars, serveVars, ending, knows, showVars>>

-----------------------------------------------------------------------------
\* keybrd.c and screen.c.
mbx_send(c) == Len(kbd) < KbdCap /\ kbd' = Append(kbd, c)
mbx_send_if(c) == kbd' = IF Len(kbd) < KbdCap THEN Append(kbd, c) ELSE kbd

KeyTyped(k) ==
  /\ pc["KBRTSK"] = "keys" /\ run = {"K", "D"}
  /\ \/ k = "f" /\ Goto("KBRTSK", "r") /\ typed' = 0 /\ UNCHANGED kbd
     \/ /\ k # "f" /\ typed < MaxKeys
        /\ mbx_send_if(k) /\ typed' = typed + 1 /\ UNCHANGED pc
  /\ UNCHANGED <<parallel, out, resumed, readVars, serveVars, ending, knows,
                 showVars>>

KeyNext == [hello |-> "keys", r |-> "c", c |-> "f", f |-> "resume"]
KeySend ==
  /\ pc["KBRTSK"] \in DOMAIN KeyNext
  /\ mbx_send(IF pc["KBRTSK"] = "hello" THEN "k" ELSE pc["KBRTSK"])
  /\ Goto("KBRTSK", KeyNext[pc["KBRTSK"]])
  /\ UNCHANGED <<parallel, out, typed, resumed, readVars, serveVars, ending,
                 knows, showVars>>

KeyResume ==
  /\ pc["KBRTSK"] = "resume"
  /\ resumed' = TRUE
  /\ Goto("KBRTSK", "leave")
  /\ UNCHANGED <<parallel, out, kbd, typed, readVars, serveVars, ending, knows,
                 showVars>>

KeyLeave ==
  /\ pc["KBRTSK"] = "leave" /\ pc["MASTER"] = "end"
  /\ pc' = [pc EXCEPT !["KBRTSK"] = "end", !["SCRTSK"] = "end"]
  /\ UNCHANGED <<parallel, out, keyVars, readVars, serveVars, ending, knows,
                 showVars>>

ScreenHello ==
  /\ pc["SCRTSK"] = "hello" /\ mbx_send("d")
  /\ Goto("SCRTSK", "loop")
  /\ UNCHANGED <<parallel, out, typed, resumed, readVars, serveVars, ending,
                 knows, showVars>>

-----------------------------------------------------------------------------
\* ClockChrono_Read.  "N" and "P" change what is shown and delay READ.
toupper == [t |-> "T", r |-> "R", h |-> "H", m |-> "M", s |-> "S", c |-> "C",
            i |-> "I", e |-> "E", n |-> "N", p |-> "P", k |-> "K", d |-> "D",
            f |-> "F"]

ReadKey ==
  /\ pc["READ"] = "receive" /\ Free("READ") /\ kbd # << >>
  /\ kbd' = Tail(kbd)
  /\ LET key == toupper[Head(kbd)]
     IN  \/ /\ key \in Command
            /\ ch' = key
            /\ to' = IF key \in ClockCommands THEN "CLOCK" ELSE "CHRONO"
            /\ Goto("READ", "put")
            /\ UNCHANGED run
         \/ key \in {"N", "P"} /\ UNCHANGED <<pc, readVars>>
         \/ /\ key \in {"K", "D"}
            /\ run' = run \cup {key}
            /\ Goto("READ", IF run' = {"K", "D"} THEN "CLOCK" ELSE "receive")
            /\ UNCHANGED <<ch, to>>
  /\ UNCHANGED <<parallel, out, typed, resumed, serveVars, ending, knows, showVars>>

\* Both processes are there: CLOCK and then CHRONO may start.
ReadStart ==
  /\ pc["READ"] \in Consumer /\ Free("READ")
  /\ rt_send("READ", pc["READ"], "KD")
  /\ Goto("READ", IF pc["READ"] = "CLOCK" THEN "CHRONO" ELSE "receive")
  /\ UNCHANGED <<parallel, keyVars, readVars, serveVars, ending, knows, showVars>>

\* CommandClock_Put and CommandChrono_Put: the introduction, the test of the
\* status and the rt_send.
PutIntroduce == pc["READ"] = "put" /\ Introduce("READ", Server[to])

\* Where READ goes after a Put: "F" is for both servers, then the task ends.
PutOver ==
  Goto("READ", IF ch = "F" THEN "end" ELSE "receive") /\ ch' = NoMsg /\ to' = "CLOCK"
EndsChronoOnly == PutOver
PutDone ==
  \/ ch = "F" /\ to = "CHRONO" /\ Goto("READ", "put") /\ to' = "CLOCK" /\ UNCHANGED ch
  \/ ~ (ch = "F" /\ to = "CHRONO") /\ PutOver

PutSend ==
  \/ /\ pc["READ"] = "send"
     /\ rt_send("READ", Server[to], ch) /\ PutDone
  \/ /\ pc["READ"] = "put" /\ Known("READ", Server[to]) /\ ~ parallel
     /\ Accepts(to, status[to], ch)
     /\ rt_send("READ", Server[to], ch) /\ PutDone

PutTest ==
  /\ pc["READ"] = "put" /\ Known("READ", Server[to])
  /\ \/ ~ Accepts(to, status[to], ch) /\ PutOver
     \/ parallel /\ Accepts(to, status[to], ch) /\ Goto("READ", "send")
                 /\ UNCHANGED <<ch, to>>
  /\ UNCHANGED out

Put ==
  /\ PutTest \/ PutSend
  /\ UNCHANGED <<parallel, keyVars, run, serveVars, ending, knows, showVars>>

-----------------------------------------------------------------------------
\* CommandClock_task and CommandChrono_task.  The command: the one set aside, the
\* one READ sends, or while running that of one more unit of time.
Default(c) == IF c = "CLOCK" THEN "R" ELSE "C"
SetAside(c) == c = "CHRONO" /\ status[c] = "stoppedInitial" /\ buffered # NoMsg

\* A server answers READ's command with the new status and passes it on; on several
\* CPUs READ may test the status before it is new.
Forward(c, cmd) ==
  /\ status' = [status EXCEPT ![c] = After(c, @, cmd)]
  /\ Goto(Server[c], IF cmd = "F" THEN "end" ELSE "serve")
Learn(c, cmd, freed) ==
  \/ /\ ~ parallel /\ Forward(c, cmd)
     /\ out' = [freed EXCEPT ![Server[c]] = Mail(c, cmd)] /\ UNCHANGED got
  \/ /\ parallel /\ got' = [got EXCEPT ![c] = cmd]
     /\ Goto(Server[c], "forward") /\ out' = freed /\ UNCHANGED status

Serve(c) ==
  /\ pc[Server[c]] = "serve" /\ Free(Server[c]) /\ status[c] # "stoppedFinal"
  /\ \/ SetAside(c) /\ Learn(c, buffered, out) /\ buffered' = NoMsg
     \/ /\ ~ SetAside(c) /\ Sends("READ", Server[c])
        /\ Learn(c, out["READ"].body, [out EXCEPT !["READ"] = NoMsg])
        /\ UNCHANGED buffered
     \/ /\ status[c] = "running" /\ ~ Sends("READ", Server[c])
        /\ Learn(c, Default(c), out)
        /\ UNCHANGED buffered
  /\ UNCHANGED <<parallel, keyVars, readVars, ending, knows, showVars>>

ServeForward(c) ==
  /\ pc[Server[c]] = "forward"
  /\ Forward(c, got[c]) /\ rt_send(Server[c], c, got[c])
  /\ got' = [got EXCEPT ![c] = NoMsg]
  /\ UNCHANGED <<parallel, keyVars, readVars, buffered, ending, knows, showVars>>

\* The final time shows for five seconds or until a command comes; the command
\* waits until the chronometer was reset.
ServeFinal ==
  /\ pc["CHRTSK"] = "serve" /\ Free("CHRTSK") /\ status["CHRONO"] = "stoppedFinal"
  /\ status' = [status EXCEPT !["CHRONO"] = "stoppedInitial"]
  /\ Goto("CHRTSK", "timed")
  /\ UNCHANGED <<parallel, out, keyVars, readVars, got, buffered, ending, knows,
                 showVars>>

ServeTimed ==
  /\ pc["CHRTSK"] = "timed"
  /\ \/ /\ Sends("READ", "CHRTSK")
        /\ buffered' = out["READ"].body
        /\ out' = [out EXCEPT !["READ"] = NoMsg, !["CHRTSK"] = Mail("CHRONO", "R")]
     \/ /\ ~ Sends("READ", "CHRTSK")
        /\ rt_send("CHRTSK", "CHRONO", "R") /\ UNCHANGED buffered
  /\ Goto("CHRTSK", "serve")
  /\ UNCHANGED <<parallel, keyVars, readVars, status, got, ending, knows, showVars>>

-----------------------------------------------------------------------------
\* ClockChrono_Clock and ClockChrono_Chrono: wait for READ, show the first time.
Sync(c) ==
  /\ pc[c] = "sync" /\ Sends("READ", c)
  /\ rt_receive("READ")
  /\ Goto(c, "show")
  /\ UNCHANGED <<parallel, keyVars, readVars, serveVars, ending, knows, showVars>>

\* The switch: the time is shown when it was set, when a second is complete, and
\* for an intermediate, final or reset time.  "F": the clock shows a last chain.
AfterCommand(c, cmd) ==
  CASE cmd = "F" -> IF c = "CLOCK" THEN {"show"} ELSE {"end"}
    [] cmd = Default(c) -> {"show", "get"}
    [] cmd = "T" -> {"get"}
    [] OTHER -> {"show"}

GetIntroduce(c) == pc[c] = "get" /\ Introduce(c, Server[c])

Get(c) ==
  /\ pc[c] = "get" /\ Known(c, Server[c]) /\ Sends(Server[c], c)
  /\ ending' = [ending EXCEPT ![c] = out[Server[c]].body = "F"]
  /\ rt_receive(Server[c])
  /\ \E at \in AfterCommand(c, out[Server[c]].body) : Goto(c, at)
  /\ UNCHANGED <<parallel, keyVars, readVars, serveVars, knows, showVars>>

\* Display_PutHour and Display_PutTimes: the introduction, the copy into the
\* static chain, and an rt_send_if, which sends only if DSPTSK is waiting.
ShowIntroduce(c) == pc[c] = "show" /\ Introduce(c, "DSPTSK")

ShowCopy(c) ==
  /\ pc[c] = "show" /\ Known(c, "DSPTSK")
  /\ text' = [text EXCEPT ![c] = IF ending[c] THEN "END" ELSE "time"]
  /\ Goto(c, "offer")
  /\ UNCHANGED <<parallel, out, keyVars, readVars, serveVars, ending, knows, ptr>>

ShowOffer(c) ==
  /\ pc[c] = "offer"
  /\ LET next == IF ending[c] THEN "end" ELSE "get"
     IN  \/ /\ pc["DSPTSK"] = "waiting"
            /\ ptr' = [ptr EXCEPT !["DSPTSK"] = c]
            /\ rt_send("DSPTSK", "WRITE", c)
            /\ pc' = [pc EXCEPT ![c] = next, !["DSPTSK"] = "check"]
         \/ /\ pc["DSPTSK"] # "waiting"
            /\ Goto(c, next) /\ UNCHANGED <<out, ptr>>
  /\ UNCHANGED <<parallel, keyVars, readVars, serveVars, ending, knows, text>>

-----------------------------------------------------------------------------
\* Display_task passes the pointer on as it gets it (ShowOffer), and looks at the
\* chain once WRITE has received the pointer.
DisplayCheck ==
  /\ pc["DSPTSK"] = "check" /\ Free("DSPTSK")
  /\ Goto("DSPTSK", IF text[ptr["DSPTSK"]] = "END" THEN "end" ELSE "waiting")
  /\ ptr' = [ptr EXCEPT !["DSPTSK"] = NoMsg]
  /\ UNCHANGED <<parallel, out, keyVars, readVars, serveVars, ending, knows, text>>

\* ClockChrono_Write with Display_Get.
WriteIntroduce == pc["WRITE"] = "get" /\ Introduce("WRITE", "DSPTSK")

WriteGet ==
  /\ pc["WRITE"] = "get" /\ Known("WRITE", "DSPTSK") /\ Sends("DSPTSK", "WRITE")
  /\ ptr' = [ptr EXCEPT !["WRITE"] = out["DSPTSK"].body]
  /\ rt_receive("DSPTSK")
  /\ Goto("WRITE", "read")
  /\ UNCHANGED <<parallel, keyVars, readVars, serveVars, ending, knows, text>>

WriteRead ==
  /\ pc["WRITE"] = "read"
  /\ \/ text[ptr["WRITE"]] = "END" /\ Goto("WRITE", "end") /\ rt_receive("DSPTSK")
     \/ text[ptr["WRITE"]] # "END" /\ Goto("WRITE", "get") /\ UNCHANGED out
  /\ ptr' = [ptr EXCEPT !["WRITE"] = NoMsg]
  /\ UNCHANGED <<parallel, keyVars, readVars, serveVars, ending, knows, text>>

\* main: once resumed it waits for all seven tasks.
MasterJoin ==
  /\ pc["MASTER"] = "suspended" /\ resumed
  /\ \A t \in Tasks \ {"MASTER", "KBRTSK", "SCRTSK"} : Ended(t)
  /\ Goto("MASTER", "end")
  /\ UNCHANGED <<parallel, out, keyVars, readVars, serveVars, ending, knows,
                 showVars>>

-----------------------------------------------------------------------------
Keyboard == KeySend \/ KeyResume \/ KeyLeave
Read == ReadKey \/ ReadStart \/ PutIntroduce \/ Put
Serves(c) == \/ Hello(Server[c]) \/ Serve(c) \/ ServeForward(c)
             \/ c = "CHRONO" /\ (ServeFinal \/ ServeTimed)
Work(c) == \/ Sync(c) \/ GetIntroduce(c) \/ Get(c)
           \/ ShowIntroduce(c) \/ ShowCopy(c) \/ ShowOffer(c)
Display == Hello("DSPTSK") \/ DisplayCheck
Write == WriteIntroduce \/ WriteGet \/ WriteRead

Finished == pc["KBRTSK"] = "end" /\ UNCHANGED msgVars

MsgNext ==
  \/ Keyboard \/ ScreenHello \/ Read \/ Display \/ Write \/ MasterJoin \/ Finished
  \/ \E k \in Keys : KeyTyped(k)
  \/ \E c \in Consumer : Serves(c) \/ Work(c)

MsgSpec == MsgInit /\ [][MsgNext]_msgVars

\* A task that is ready runs.
MsgFairSpec ==
  /\ MsgSpec
  /\ WF_msgVars(Keyboard) /\ WF_msgVars(ScreenHello) /\ WF_msgVars(Read)
  /\ WF_msgVars(Display) /\ WF_msgVars(Write) /\ WF_msgVars(MasterJoin)
  /\ \A c \in Consumer : WF_msgVars(Serves(c)) /\ WF_msgVars(Work(c))

-----------------------------------------------------------------------------
\* A server passes on only commands that fit the status it has then, on one CPU:
\* the test in CommandClock_Put and CommandChrono_Put is never out of date.
Fits(c, cmd) ==
  \/ cmd = "F"
  \/ c = "CLOCK" /\ cmd = "R" /\ status[c] = "running"
  \/ c = "CLOCK" /\ cmd \in {"T", "H", "M", "S"} /\ status[c] = "stopped"
  \/ c = "CHRONO" /\ cmd \in {"C", "I"} /\ status[c] = "running"
  \/ c = "CHRONO" /\ cmd = "E" /\ status[c] = "stoppedFinal"
  \/ c = "CHRONO" /\ cmd = "R" /\ status[c] = "stoppedInitial"
CommandsFit ==
  ~ parallel => \A c \in Consumer :
    ~ Free(Server[c]) => Fits(c, out[Server[c]].body)

\* "f" ends the tasks that take commands, whatever state the clock and the
\* chronometer are in and whatever the display does.
CommandTasksEnd ==
  pc["KBRTSK"] = "r" ~>
    \A t \in {"READ", "CLKTSK", "CHRTSK", "CLOCK", "CHRONO"} : Ended(t)

\* "f-end this" says the menu: the keyboard process ends once all tasks have.
EndCommandEnds == parallel /\ pc["KBRTSK"] = "r" ~> pc["KBRTSK"] = "end"
=============================================================================
