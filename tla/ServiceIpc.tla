----------------------------- MODULE ServiceIpc -----------------------------
(***************************************************************************)
(* Commands from the peer's processes to the Linux service: run_command of *)
(* src/rustlib/src/linux/ipc.rs on one side; the accept loops, the streams *)
(* (src/rustlib/src/bin/obscura/service/os/linux/ipc.rs), the command loop *)
(* (service/mod.rs) and the commands (manager_cmd.rs) on the other.        *)
(*                                                                         *)
(* A connection carries one command and its response; a retry is another   *)
(* connection.  Each stream is a task and so is each command, and a stream *)
(* hands its request to the loop by a rendezvous.  The processes at both   *)
(* ends may die at any time.                                               *)
(***************************************************************************)
EXTENDS Naturals

CONSTANTS
  Conn,        (* connections                                                *)
  Accesses,    (* for each: group (the process may use the main socket),     *)
               (* member (the user was added to the group since), none       *)
  MaxStarts    (* bound: starts of the service                               *)

ASSUME IpcConstants ==
  Accesses \subseteq [Conn -> {"group", "member", "none"}] /\ MaxStarts \in Nat

VARIABLES
  access,     (* one of Accesses                                             *)
  service,    (* down, listening (not dispatching yet), up                   *)
  starts,     (* number of its starts                                        *)
  ending,     (* TerminateProcess has set its timer                          *)
  upgraded,   (* the service's version is not the application's              *)
  happened,   (* what the long polls wait for happened                       *)
  cmd,        (* the command: ping, poll (a GetStatus or GetExitList),       *)
              (* terminate, garbage (cannot be decoded)                      *)
  peer,       (* the client: idle, main, live, header, waiting, done, gone   *)
  result,     (* what its user is told                                       *)
  stream,     (* handle_stream: none, main, live, reading, handing, waiting, *)
              (* closing, closed                                             *)
  header,     (* the header sent to the client: none, granted, denied        *)
  task,       (* the command's task: none, running, finished                 *)
  response,   (* the command whose response was sent to the client, or none  *)
  ran         (* history: number of times the command was started            *)

ipcVars == <<access, service, starts, ending, upgraded, happened, cmd, peer, result, stream, header,
             task, response, ran>>

serviceVars == <<access, service, starts, ending, upgraded, happened>>

IpcInit ==
  /\ access \in Accesses
  /\ service = "down" /\ starts = 0 /\ ending = FALSE /\ upgraded \in BOOLEAN
  /\ happened = FALSE
  /\ cmd \in [Conn -> {"ping", "poll", "terminate", "garbage"}]
  /\ peer = [c \in Conn |-> "idle"] /\ result = [c \in Conn |-> "none"]
  /\ stream = [c \in Conn |-> "none"] /\ header = [c \in Conn |-> "none"]
  /\ task = [c \in Conn |-> "none"] /\ response = [c \in Conn |-> "none"]
  /\ ran = [c \in Conn |-> 0]

Gone(c) == peer[c] \in {"done", "gone"}
To(f, c, v) == [f EXCEPT ![c] = v]

-----------------------------------------------------------------------------
(* The client: run_command *)

Tell(c, r) == peer' = To(peer, c, "done") /\ result' = To(result, c, r)

Begin(c) ==
  /\ peer[c] = "idle" /\ peer' = To(peer, c, "main")
  /\ UNCHANGED <<serviceVars, cmd, result, stream, header, task, response, ran>>

(* connect_and_read_header, on the main socket first.  A second failure is  *)
(* reported as the first.                                                   *)
Connect(c) ==
  /\ peer[c] \in {"main", "live"}
  /\ CASE service = "down" ->
            Tell(c, IF peer[c] = "main" THEN "no listener" ELSE "permission") /\ UNCHANGED stream
       [] service # "down" /\ peer[c] = "main" /\ access[c] # "group" ->
            peer' = To(peer, c, "live") /\ UNCHANGED <<stream, result>>
       [] OTHER ->
            /\ stream' = To(stream, c, peer[c])
            /\ peer' = To(peer, c, "header") /\ UNCHANGED result
  /\ UNCHANGED <<serviceVars, cmd, header, task, response, ran>>

ReadIpcHeader(c) ==
  /\ peer[c] = "header" /\ header[c] # "none"
  /\ IF header[c] = "denied" THEN Tell(c, "permission")
     ELSE IF upgraded THEN Tell(c, "version")
     ELSE peer' = To(peer, c, "waiting") /\ UNCHANGED result
  /\ UNCHANGED <<serviceVars, cmd, stream, header, task, response, ran>>

ReadResponse(c) ==
  /\ peer[c] = "waiting" /\ response[c] # "none"
  /\ Tell(c, response[c])
  /\ UNCHANGED <<serviceVars, cmd, stream, header, task, response, ran>>

(* The stream ends without a header or a response. *)
ReadNothing(c) ==
  /\ stream[c] = "closed"
  /\ \/ peer[c] = "header" /\ header[c] = "none"
     \/ peer[c] = "waiting" /\ response[c] = "none"
  /\ Tell(c, IF peer[c] = "header" /\ access[c] # "group" THEN "permission" ELSE "other")
  /\ UNCHANGED <<serviceVars, cmd, stream, header, task, response, ran>>

ClientDies(c) ==
  /\ peer[c] \in {"header", "waiting"} /\ peer' = To(peer, c, "gone")
  /\ UNCHANGED <<serviceVars, cmd, result, stream, header, task, response, ran>>

ClientStep(c) == Connect(c) \/ ReadIpcHeader(c) \/ ReadResponse(c) \/ ReadNothing(c)

-----------------------------------------------------------------------------
(* The service: handle_stream *)

FaultyWriteHeader(c) ==
  /\ stream[c] \in {"main", "live"}
  /\ header' = To(header, c, "granted") /\ stream' = To(stream, c, "reading")
  /\ UNCHANGED <<serviceVars, cmd, peer, result, task, response, ran>>

(* may_access_with_fresh_groups is asked on the live-groups socket only. *)
WriteHeader(c) ==
  /\ stream[c] \in {"main", "live"}
  /\ IF stream[c] = "live" /\ access[c] = "none"
     THEN header' = To(header, c, "denied") /\ stream' = To(stream, c, "closed")
     ELSE header' = To(header, c, "granted") /\ stream' = To(stream, c, "reading")
  /\ UNCHANGED <<serviceVars, cmd, peer, result, task, response, ran>>

(* The whole request is read before the loop is offered it. *)
ReadRequest(c) ==
  /\ stream[c] = "reading" /\ (peer[c] = "waiting" \/ Gone(c))
  /\ stream' = To(stream, c, IF peer[c] = "waiting" THEN "handing" ELSE "closed")
  /\ UNCHANGED <<serviceVars, cmd, peer, result, header, task, response, ran>>

(* The response wins over the client hanging up. *)
WriteResponse(c) ==
  /\ stream[c] = "waiting" /\ task[c] = "finished"
  /\ IF Gone(c) THEN stream' = To(stream, c, "closed") /\ UNCHANGED response
     ELSE stream' = To(stream, c, "closing") /\ response' = To(response, c, cmd[c])
  /\ UNCHANGED <<serviceVars, cmd, peer, result, header, task, ran>>

(* The command goes on when its client hung up. *)
SeeHangUp(c) ==
  /\ stream[c] = "waiting" /\ task[c] # "finished" /\ Gone(c)
  /\ stream' = To(stream, c, "closed")
  /\ UNCHANGED <<serviceVars, cmd, peer, result, header, task, response, ran>>

SeeEnd(c) ==
  /\ stream[c] = "closing" /\ Gone(c)
  /\ stream' = To(stream, c, "closed")
  /\ UNCHANGED <<serviceVars, cmd, peer, result, header, task, response, ran>>

StreamStep(c) == WriteHeader(c) \/ ReadRequest(c) \/ WriteResponse(c) \/ SeeHangUp(c) \/ SeeEnd(c)

(* The loop takes a request.  next_manager_command answers one that it      *)
(* cannot decode; every other runs in a task of its own.                    *)
FaultyDispatch(c) ==
  /\ service = "up" /\ stream[c] = "handing"
  /\ \A d \in Conn : task[d] # "running"
  /\ stream' = To(stream, c, "waiting")
  /\ IF cmd[c] = "garbage" THEN task' = To(task, c, "finished") /\ UNCHANGED ran
     ELSE task' = To(task, c, "running") /\ ran' = To(ran, c, ran[c] + 1)
  /\ UNCHANGED <<serviceVars, cmd, peer, result, header, response>>

Dispatch(c) ==
  /\ service = "up" /\ stream[c] = "handing"
  /\ stream' = To(stream, c, "waiting")
  /\ IF cmd[c] = "garbage" THEN task' = To(task, c, "finished") /\ UNCHANGED ran
     ELSE task' = To(task, c, "running") /\ ran' = To(ran, c, ran[c] + 1)
  /\ UNCHANGED <<serviceVars, cmd, peer, result, header, response>>

(* ManagerCmd::run.  A poll waits for what it asks for; TerminateProcess    *)
(* answers at once and ends the process three seconds later.                *)
RunCommand(c) ==
  /\ task[c] = "running" /\ (cmd[c] = "poll" => happened)
  /\ task' = To(task, c, "finished")
  /\ ending' = (ending \/ cmd[c] = "terminate")
  /\ UNCHANGED <<access, service, starts, upgraded, happened, cmd, peer, result, stream, header,
                 response, ran>>

-----------------------------------------------------------------------------
(* The service process *)

(* The sockets are bound before the manager is made and the loop runs. *)
StartService ==
  /\ service = "down" /\ starts < MaxStarts
  /\ service' = "listening" /\ starts' = starts + 1 /\ upgraded' \in {upgraded, TRUE}
  /\ UNCHANGED <<access, ending, happened, cmd, peer, result, stream, header, task, response, ran>>

StartLoop ==
  /\ service = "listening" /\ service' = "up"
  /\ UNCHANGED <<access, starts, ending, upgraded, happened, cmd, peer, result, stream, header, task,
                 response, ran>>

(* A response that was written can still be read. *)
EndService ==
  /\ service # "down" /\ service' = "down"
  /\ ending' = FALSE
  /\ stream' = [c \in Conn |-> IF stream[c] = "none" THEN "none" ELSE "closed"]
  /\ task' = [c \in Conn |-> IF task[c] = "running" THEN "none" ELSE task[c]]
  /\ UNCHANGED <<access, starts, upgraded, happened, cmd, peer, result, header, response, ran>>

(* Only polls look at it. *)
Happens ==
  /\ ~happened /\ (\E c \in Conn : cmd[c] = "poll") /\ happened' = TRUE
  /\ UNCHANGED <<access, service, starts, ending, upgraded, cmd, peer, result, stream, header, task,
                 response, ran>>

IpcNext ==
  \/ \E c \in Conn : Begin(c) \/ ClientStep(c) \/ ClientDies(c) \/ StreamStep(c)
                       \/ Dispatch(c) \/ RunCommand(c)
  \/ StartService \/ StartLoop \/ EndService \/ Happens

-----------------------------------------------------------------------------
(* A response is the command's own; no command runs twice, and none for a   *)
(* client without access; who is refused is told so or, if the service went *)
(* away, that it cannot be reached.                                         *)
AnswerIsOwn(c) ==
  /\ ran[c] <= 1 /\ (ran[c] = 1 => access[c] # "none")
  /\ result[c] = cmd[c] => ran[c] = 1 \/ cmd[c] = "garbage"
  /\ result[c] = "permission" => access[c] # "group"

(* Whoever calls the service is told a result, its own command's if any: a  *)
(* short command's even while long polls wait, a long poll's once what it   *)
(* waits for happened (handle_stream, src/rustlib/src/bin/obscura/service/  *)
(* os/linux/ipc.rs).                                                        *)
EveryCallIsAnswered ==
  \A c \in Conn :
    peer[c] # "idle" /\ (cmd[c] # "poll" \/ happened) ~> Gone(c) /\ AnswerIsOwn(c)
=============================================================================
