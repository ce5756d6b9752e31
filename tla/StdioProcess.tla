---------------------------- MODULE StdioProcess ----------------------------
(***************************************************************************)
(* One probe of a stdio server (performHandshake and teardownStdioServer   *)
(* of internal/engine/stdio_prober.go, stdio_process_unix.go): the prober, *)
(* the process tree of the command, and the deadline, whose goroutine      *)
(* kills the process group.  The tree is a wrapper and the server it       *)
(* forks, in one group; stdout and stderr end when the last of them does.  *)
(***************************************************************************)
EXTENDS Naturals, FiniteSets

CONSTANTS
    MethodCount     \* methods of the handshake

ASSUME StdioAssumption == MethodCount \in Nat \ {0}

VARIABLES
    doing,      \* the prober: its step
    read,       \* answers read
    owed,       \* requests the server has not answered
    replies,    \* answers in the pipe, "good" or "error"
    alive,      \* the tree: subset of {"wrapper", "server"}
    stdin,      \* "open" or "closed"
    deadline,   \* the probe's context: "live" or "over"
    wrong,      \* history: the server did something wrong
    verdict     \* the class of the result, "open" until then

stdioVars == <<doing, read, owed, replies, alive, stdin, deadline, wrong, verdict>>
Tree == {"wrapper", "server"}

StdioInit ==
    /\ doing = "start" /\ read = 0 /\ owed = 0 /\ replies = <<>>
    /\ alive = {} /\ stdin = "open" /\ deadline = "live"
    /\ wrong = FALSE /\ verdict = "open"

(* cmd.Start; a context that is over refuses it.                           *)
StartServer ==
    /\ doing = "start"
    /\ \/ /\ deadline = "live"
          /\ alive' \in {{"wrapper"}, Tree} /\ doing' = "write" /\ UNCHANGED <<wrong, verdict>>
       \/ /\ deadline = "live"
          /\ verdict' = "config" /\ wrong' = TRUE /\ doing' = "done" /\ UNCHANGED alive
       \/ /\ deadline = "over"
          /\ verdict' = "timeout" /\ doing' = "done" /\ UNCHANGED <<alive, wrong>>
    /\ UNCHANGED <<read, owed, replies, stdin, deadline>>

(* Every exit path goes through the teardown.                              *)
Conclude(class) == verdict' = class /\ doing' = "closing"

(* writeRPCFrame: nobody reads any more, and the error is the pipe's.      *)
WriteRequest ==
    /\ doing = "write"
    /\ IF alive = {} THEN Conclude("protocol") /\ UNCHANGED owed
       ELSE owed' = owed + 1 /\ doing' = "read" /\ UNCHANGED verdict
    /\ UNCHANGED <<read, replies, alive, stdin, deadline, wrong>>

(* readRPCResponseByID: the answer, or the end of the pipe; an error while *)
(* the context is over is the deadline's.                                  *)
ReadResponse ==
    /\ doing = "read"
    /\ \/ /\ replies # <<>> /\ read' = read + 1 /\ replies' = <<>>
          /\ IF replies[1] = "error" THEN Conclude("protocol")
             ELSE IF read + 1 = MethodCount THEN Conclude("none")
             ELSE doing' = "write" /\ UNCHANGED verdict
       \/ /\ replies = <<>> /\ alive = {}
          /\ Conclude(IF deadline = "over" THEN "timeout" ELSE "protocol")
          /\ UNCHANGED <<read, replies>>
       \/ deadline = "over" /\ replies # <<>> /\ Conclude("timeout") /\ UNCHANGED <<read, replies>>
    /\ UNCHANGED <<owed, alive, stdin, deadline, wrong>>

(* teardownStdioServer: close stdin, ...                                   *)
CloseStdin ==
    /\ doing = "closing"
    /\ stdin' = "closed" /\ doing' = "grace"
    /\ UNCHANGED <<read, owed, replies, alive, deadline, wrong, verdict>>

(* Mutant of KillGroup: the direct child only.                             *)
KillChild ==
    /\ doing = "grace"
    /\ alive' = alive \ {"wrapper"}
    /\ doing' = "done"
    /\ UNCHANGED <<read, owed, replies, stdin, deadline, wrong, verdict>>

(* ... wait for stderr to end or the grace to pass, kill the group, wait.  *)
KillGroup ==
    /\ doing = "grace"
    /\ alive' = {}
    /\ doing' = "done"
    /\ UNCHANGED <<read, owed, replies, stdin, deadline, wrong, verdict>>

(* The deadline: cmd.Cancel kills the group.                               *)
Deadline ==
    /\ deadline = "live" /\ doing # "done"
    /\ deadline' = "over" /\ alive' = {}
    /\ UNCHANGED <<doing, read, owed, replies, stdin, wrong, verdict>>

(* The server: answers, or with an error; a process of the tree ends (a    *)
(* wrapper may, once it has forked).                                       *)
ServerAnswers ==
    /\ alive # {} /\ owed > 0
    /\ \E a \in {"good", "error"} :
          replies' = <<a>> /\ wrong' = (wrong \/ a = "error")
    /\ owed' = owed - 1
    /\ UNCHANGED <<doing, read, alive, stdin, deadline, verdict>>

ServerDies ==
    /\ alive # {}
    /\ \E x \in alive : alive' = alive \ {x}
    /\ wrong' = (wrong \/ (stdin = "open" /\ alive' = {}))
    /\ UNCHANGED <<doing, read, owed, replies, stdin, deadline, verdict>>

ProberStep == StartServer \/ WriteRequest \/ ReadResponse \/ CloseStdin \/ KillGroup
StdioNext == ProberStep \/ Deadline \/ ServerAnswers \/ ServerDies

(* The prober goes on, and time passes; the server may do nothing at all.  *)
StdioFairness == WF_stdioVars(ProberStep) /\ WF_stdioVars(Deadline)
StdioSpec == StdioInit /\ [][StdioNext]_stdioVars /\ StdioFairness
-----------------------------------------------------------------------------
(* What a probe says has its cause, and what it started is gone: "none"    *)
(* takes an answer to every method, a protocol error a server that did     *)
(* something wrong or that the deadline cut off, and a probe that is done  *)
(* has no process left (performHandshake, teardownStdioServer).            *)
ProbeAccountable ==
    /\ doing = "done" => alive = {}
    /\ verdict = "none" => read = MethodCount
    /\ verdict = "protocol" => wrong \/ deadline = "over"

(* A deadline during a write, without that excuse: there the kill makes    *)
(* the pipe's error the server's.                                          *)
DeadlineNeverBlames == verdict = "protocol" => wrong

(* A probe ends, whatever the server does not answer, and leaves no        *)
(* process behind on any of its exits: not the wrapper, not the server it  *)
(* forked (issue 44, teardownStdioServer).                                 *)
ProbeEnds == doing # "start" ~> [](doing = "done" /\ alive = {})
=============================================================================
