---------------------------- MODULE DebugBundles ----------------------------
(***************************************************************************)
(* Debug bundles on Linux: GuiDebugBundler of src/rustlib/src/linux/       *)
(* debug_bundle.rs in the application, and the service's part of a bundle  *)
(* (src/rustlib/src/manager.rs, src/rustlib/src/debug_bundle/service.rs).  *)
(*                                                                         *)
(* The service writes a directory of its own, opens it to the user and     *)
(* answers with a token; the application copies the directory and has it   *)
(* deleted by the token.  What goes wrong on the way, a file that cannot   *)
(* be written or a program that never ends, must not keep the bundle from  *)
(* being finished.  Either process may die.                                *)
(*                                                                         *)
(* The application has two directories for a bundle: its work directory,   *)
(* and in it the staging directory.  It removes only the staging           *)
(* directory: the work directory is where the archive stays, and it stays  *)
(* as well when there is no archive.                                       *)
(***************************************************************************)
EXTENDS Naturals

CONSTANTS
  Bundle,       (* calls of GuiDebugBundler::create                        *)
  MaxMishaps    (* bound: deaths of processes and failures that matter     *)

ASSUME BundleConstants == MaxMishaps \in Nat

VARIABLES
  create,       (* each: idle, claimed, collecting, ok, failed, rejected,  *)
                (* died                                                    *)
  inProgress,   (* DebugBundleStatus.in_progress                           *)
  workDir,      (* the application's work directory: none, made (nothing   *)
                (* but staging or part of an archive in it), archive       *)
  staging,      (* the application's staging directory exists              *)
  tasks,        (* the application's debug tasks: none, answer, timeout    *)
  asks,         (* collect_service_bundle: create, copy, delete, over, and *)
                (* waiting for one of the commands                         *)
  job,          (* the service's command for the bundle: idle, info,       *)
                (* mkdir, populate, open, register, forget, remove, ok,    *)
                (* failed                                                  *)
  dir,          (* the service's directory: none, private, open            *)
  tokens,       (* service_debug_bundles                                   *)
  hangs,        (* the sides with a program that never ends                *)
  lost,         (* history: nobody is left to have a directory deleted, or *)
                (* deleting it failed                                      *)
  mishaps       (* counts the mishaps                                      *)

bundleVars ==
  <<create, inProgress, workDir, staging, tasks, asks, job, dir, tokens, hangs, lost, mishaps>>

BundleInit ==
  /\ create = [b \in Bundle |-> "idle"] /\ inProgress = FALSE
  /\ workDir = [b \in Bundle |-> "none"]
  /\ staging = [b \in Bundle |-> FALSE] /\ tasks = [b \in Bundle |-> "none"]
  /\ asks = [b \in Bundle |-> "create"] /\ job = [b \in Bundle |-> "idle"]
  /\ dir = [b \in Bundle |-> "none"]
  /\ tokens = {} /\ hangs \in SUBSET {"ui", "service"}
  /\ lost = [b \in Bundle |-> FALSE] /\ mishaps = 0

Put(f, b, v) == f' = [f EXCEPT ![b] = v]

Mishap == mishaps < MaxMishaps /\ mishaps' = mishaps + 1

uiVars == <<create, inProgress, workDir, staging, tasks, asks>>
serviceSide == <<job, dir, tokens>>

-----------------------------------------------------------------------------
(* The application: create and create_combined_debug_bundle *)
Claim(b) ==
  /\ create[b] = "idle"
  /\ IF inProgress THEN Put(create, b, "rejected") /\ UNCHANGED inProgress
     ELSE Put(create, b, "claimed") /\ inProgress' = TRUE
  /\ UNCHANGED <<workDir, staging, tasks, asks, serviceSide, hangs, lost, mishaps>>

(* The status leaves "in progress" on success and on failure. *)
FaultyEndStatus(b, outcome) ==
  Put(create, b, outcome) /\ inProgress' = (inProgress /\ outcome # "ok")

EndStatus(b, outcome) == Put(create, b, outcome) /\ inProgress' = FALSE

(* make_private_temp_dir for the work directory, then create_dir for       *)
(* staging: if the second one fails, the work directory stays.             *)
MakeStaging(b) ==
  /\ create[b] = "claimed"
  /\ \/ /\ Put(create, b, "collecting") /\ Put(workDir, b, "made") /\ Put(staging, b, TRUE)
        /\ UNCHANGED <<inProgress, mishaps>>
     \/ /\ Mishap /\ EndStatus(b, "failed") /\ UNCHANGED staging
        /\ \E made \in {"none", "made"} : Put(workDir, b, made)
  /\ UNCHANGED <<tasks, asks, serviceSide, hangs, lost>>

FaultyResultOf(side) == IF side \in hangs THEN "none" ELSE "answer"

(* run_debug_task: each ends with its program or with its time limit. *)
ResultOf(side) == IF side \in hangs THEN "timeout" ELSE "answer"

RunDebugTasks(b) ==
  /\ create[b] = "collecting" /\ tasks[b] = "none"
  /\ Put(tasks, b, ResultOf("ui"))
  /\ UNCHANGED <<create, inProgress, workDir, staging, asks, serviceSide, hangs, lost, mishaps>>

(* A command reaches the service, or it cannot be sent. *)
SendCommand(b) ==
  /\ create[b] = "collecting" /\ asks[b] \in {"create", "delete"}
  /\ \/ /\ Put(job, b, IF asks[b] = "create" THEN "info" ELSE "forget")
        /\ Put(asks, b, IF asks[b] = "create" THEN "creating" ELSE "deleting")
        /\ UNCHANGED <<lost, mishaps>>
     \/ /\ Mishap /\ Put(asks, b, "over") /\ Put(lost, b, asks[b] = "delete")
        /\ UNCHANGED job
  /\ UNCHANGED <<create, inProgress, workDir, staging, tasks, dir, tokens, hangs>>

ReadAnswer(b) ==
  /\ create[b] = "collecting" /\ asks[b] \in {"creating", "deleting"} /\ job[b] \in {"ok", "failed"}
  /\ Put(asks, b, IF job[b] = "ok" /\ asks[b] = "creating" THEN "copy" ELSE "over")
  /\ Put(job, b, "idle")
  /\ UNCHANGED <<create, inProgress, workDir, staging, tasks, dir, tokens, hangs, lost, mishaps>>

FaultyCopyServiceBundle(b) ==
  /\ create[b] = "collecting" /\ asks[b] = "copy"
  /\ \/ Put(asks, b, "delete") /\ UNCHANGED mishaps
     \/ Mishap /\ Put(asks, b, "over")
  /\ UNCHANGED <<create, inProgress, workDir, staging, tasks, serviceSide, hangs, lost>>

(* try_copy_dir_contents_recursive skips what it cannot copy. *)
CopyServiceBundle(b) ==
  /\ create[b] = "collecting" /\ asks[b] = "copy" /\ Put(asks, b, "delete")
  /\ UNCHANGED <<create, inProgress, workDir, staging, tasks, serviceSide, hangs, lost, mishaps>>

(* All three parts have been joined: zip_and_remove_dir, which removes the  *)
(* staging directory, if it can, whether zipping succeeded or not, and      *)
(* never the work directory around it.                                      *)
ZipAndRemove(b) ==
  /\ create[b] = "collecting" /\ asks[b] = "over" /\ tasks[b] # "none"
  /\ \E zipped, removed \in BOOLEAN :
       /\ EndStatus(b, IF zipped THEN "ok" ELSE "failed")
       /\ IF zipped THEN Put(workDir, b, "archive") ELSE UNCHANGED workDir
       /\ Put(staging, b, ~removed) /\ Put(lost, b, lost[b] \/ ~removed)
       /\ IF zipped /\ removed THEN UNCHANGED mishaps ELSE Mishap
  /\ UNCHANGED <<tasks, asks, serviceSide, hangs>>

-----------------------------------------------------------------------------
(* The service: a step of its command, in the state at, which leads to s *)
Works(b, at, s) ==
  /\ job[b] = at /\ Put(job, b, s)
  /\ UNCHANGED <<uiVars, hangs>>

(* get_debug_info: DNS and HTTP tasks, each with the time limit *)
GetDebugInfo(b) ==
  /\ ResultOf("service") # "none" /\ Works(b, "info", "mkdir")
  /\ UNCHANGED <<dir, tokens, lost, mishaps>>

Mkdir(b) ==
  /\ \/ Works(b, "mkdir", "populate") /\ Put(dir, b, "private") /\ UNCHANGED mishaps
     \/ Works(b, "mkdir", "failed") /\ Mishap /\ UNCHANGED dir
  /\ UNCHANGED <<tokens, lost>>

(* populate_service_debug_bundle: best effort, file by file *)
Populate(b) ==
  /\ ResultOf("service") # "none" /\ Works(b, "populate", "open")
  /\ UNCHANGED <<dir, tokens, lost, mishaps>>

(* make_user_readable: the directory itself comes last.  If that fails, it  *)
(* stays, without a token.                                                  *)
MakeUserReadable(b) ==
  /\ \/ Works(b, "open", "register") /\ Put(dir, b, "open") /\ UNCHANGED <<lost, mishaps>>
     \/ Works(b, "open", "failed") /\ Mishap /\ Put(lost, b, TRUE) /\ UNCHANGED dir
  /\ UNCHANGED <<tokens>>

Register(b) ==
  /\ Works(b, "register", "ok") /\ tokens' = tokens \cup {b}
  /\ UNCHANGED <<dir, lost, mishaps>>

(* delete_service_debug_bundle: the token goes first *)
ForgetToken(b) ==
  /\ Works(b, "forget", IF b \in tokens THEN "remove" ELSE "failed")
  /\ tokens' = tokens \ {b}
  /\ UNCHANGED <<dir, lost, mishaps>>

RemoveDir(b) ==
  /\ \/ Works(b, "remove", "ok") /\ Put(dir, b, "none") /\ UNCHANGED <<lost, mishaps>>
     \/ Works(b, "remove", "failed") /\ Mishap /\ Put(lost, b, TRUE) /\ UNCHANGED dir
  /\ UNCHANGED <<tokens>>

-----------------------------------------------------------------------------
(* The application ends in the middle of a bundle; the service goes on.     *)
GuiDies ==
  /\ Mishap /\ inProgress /\ inProgress' = FALSE
  /\ LET Cut(b) == create[b] \in {"claimed", "collecting"}
     IN /\ create' = [b \in Bundle |-> IF Cut(b) THEN "died" ELSE create[b]]
        /\ lost' = [b \in Bundle |-> lost[b] \/ Cut(b)]
  /\ UNCHANGED <<workDir, staging, tasks, asks, serviceSide, hangs>>

(* The service forgets its tokens; who waits for it is told of an error.    *)
ServiceDies ==
  /\ Mishap /\ tokens' = {}
  /\ job' = [b \in Bundle |-> IF job[b] \in {"idle", "ok"} THEN job[b] ELSE "failed"]
  /\ lost' = [b \in Bundle |-> lost[b] \/ dir[b] # "none"]
  /\ UNCHANGED <<uiVars, dir, hangs>>

BundleStep(b) ==
  \/ MakeStaging(b) \/ RunDebugTasks(b) \/ SendCommand(b) \/ ReadAnswer(b)
  \/ CopyServiceBundle(b) \/ ZipAndRemove(b)
  \/ GetDebugInfo(b) \/ Mkdir(b) \/ Populate(b) \/ MakeUserReadable(b) \/ Register(b)
  \/ ForgetToken(b) \/ RemoveDir(b)

BundleNext == (\E b \in Bundle : Claim(b) \/ BundleStep(b)) \/ GuiDies \/ ServiceDies

-----------------------------------------------------------------------------
(* What an ended bundle leaves.  Its staging directory and the service's   *)
(* directory are gone, unless a process died, opening the service's        *)
(* directory to the user failed or deleting one of the two failed.  Its    *)
(* work directory holds the archive exactly when the caller is told so; a  *)
(* failed bundle may leave it behind without an archive, for good, since   *)
(* no code removes it.                                                     *)
CleanedUp(b) ==
  create[b] \in {"ok", "failed"} =>
    /\ lost[b] \/ (~staging[b] /\ dir[b] = "none")
    /\ create[b] = "ok" <=> workDir[b] = "archive"

(* A bundle that was begun is finished whatever program hangs and whichever *)
(* part fails, so that the next may begin; and then it has left nothing but *)
(* its archive, or, if it failed, its work directory, with the exceptions   *)
(* of CleanedUp (GuiDebugBundler::create and create_combined_debug_bundle,  *)
(* src/rustlib/src/linux/debug_bundle.rs).                                  *)
EveryBundleIsFinished == inProgress ~> ~inProgress /\ \A b \in Bundle : CleanedUp(b)
=============================================================================
