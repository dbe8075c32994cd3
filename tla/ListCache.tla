------------------------------ MODULE ListCache ------------------------------
(***************************************************************************)
(* What the configuration caches of the API server's answers: the list of  *)
(* exits (that of the relays is kept in the same way), fetched under a     *)
(* lock and revalidated by its ETag, and the account information, fetched  *)
(* under none (src/rustlib/src/client_state.rs, config/cached.rs).  The    *)
(* desktop application follows the list by its version                     *)
(* (manager.rs get_exit_list, linux/exit_list_watch.rs).                   *)
(*                                                                         *)
(* The server is external: its list changes, and has a higher number then. *)
(* It may leave out the ETag.                                              *)
(***************************************************************************)
EXTENDS Naturals, FiniteSets

CONSTANTS
  Caller,    (* commands and tasks that fetch              *)
  User,      (* accounts                                   *)
  Empty,     (* Option::None                               *)
  MaxServed  (* bound: changes of what the server answers, *)
             (* and logins                                 *)

(* config/cached.rs: an ETag, or a random version in its place *)
Version == [etag : BOOLEAN, id : Nat]

ASSUME ListConstants ==
  /\ IsFiniteSet(Caller) /\ Empty \notin Caller \cup User \cup Nat \cup Version
  /\ MaxServed \in Nat

VARIABLES
  serverList,  (* the number of the server's list                        *)
  user,        (* Config.account_id                                      *)
  list,        (* cached_exits: its number and Version, or Empty          *)
  isFresh,     (* its staleness is below the freshness asked for         *)
  listLock,    (* who holds exit_update_lock                             *)
  at,          (* where each caller is                                   *)
  prev,        (* the list it found cached                               *)
  reply,       (* the server's answer to it                              *)
  since,       (* history: the server's list when it asked               *)
  info,        (* cached_account_status: whose it is, or Empty            *)
  guiKnown,    (* known_version of the application's poller              *)
  guiList,     (* the list it shows                                      *)
  infoRaced,   (* history: account information was under way at a login  *)
  newest,      (* history: the newest list cached since the last login   *)
  served       (* number of changes and logins so far                    *)

listVars == <<serverList, user, list, isFresh, listLock, at, prev, reply, since,
              info, guiKnown, guiList, infoRaced, newest, served>>

outside == <<serverList, user, infoRaced, served>>
gui     == <<guiKnown, guiList>>

LaterOf(a, b) == IF a >= b THEN a ELSE b

ListInit ==
  /\ serverList = 1 /\ user = Empty
  /\ list = Empty /\ isFresh = FALSE /\ listLock = Empty
  /\ at = [c \in Caller |-> "idle"]
  /\ prev = [c \in Caller |-> Empty] /\ reply = [c \in Caller |-> Empty]
  /\ since = [c \in Caller |-> 0]
  /\ info = Empty
  /\ guiKnown = Empty /\ guiList = Empty
  /\ infoRaced = FALSE /\ newest = 0 /\ served = 0

-----------------------------------------------------------------------------
(* Version and ConfigCached *)

ETag(n)       == [etag |-> TRUE, id |-> n]
Artificial(n) == [etag |-> FALSE, id |-> n]

(* Version::artificial: a random one, so one that nothing else has *)
Versions(ls) == {l.version : l \in ls \ {Empty}}
InUse  == Versions({list} \cup {prev[c] : c \in Caller}) \cup {guiKnown}
Unused == Artificial(CHOOSE n \in 1..(Cardinality(Caller) + 3) : Artificial(n) \notin InUse)

(* etag() of the list found: the number it stands for, or none *)
EtagOf(l) == IF l # Empty /\ l.version.etag THEN l.version.id ELSE Empty

-----------------------------------------------------------------------------
(* maybe_update_exits *)

FaultyLock(c) ==
  /\ at[c] = "idle" /\ user # Empty
  /\ at' = [at EXCEPT ![c] = "locked"]
  /\ listLock' = c
  /\ UNCHANGED <<outside, list, isFresh, prev, reply, since, info, gui, newest>>

Lock(c) ==
  /\ at[c] = "idle" /\ user # Empty
  /\ listLock = Empty
  /\ at' = [at EXCEPT ![c] = "locked"]
  /\ listLock' = c
  /\ UNCHANGED <<outside, list, isFresh, prev, reply, since, info, gui, newest>>

Leave(c) ==
  /\ at' = [at EXCEPT ![c] = "idle"]
  /\ listLock' = Empty
  /\ prev' = [prev EXCEPT ![c] = Empty] /\ reply' = [reply EXCEPT ![c] = Empty]
  /\ since' = [since EXCEPT ![c] = 0]

ListIsFresh(c) ==
  /\ at[c] = "locked" /\ list # Empty /\ isFresh
  /\ Leave(c)
  /\ UNCHANGED <<outside, list, isFresh, info, gui, newest>>

AskForList(c) ==
  /\ at[c] = "locked" /\ (list # Empty => ~isFresh)
  /\ at' = [at EXCEPT ![c] = "asked"]
  /\ prev' = [prev EXCEPT ![c] = list]
  /\ since' = [since EXCEPT ![c] = serverList]
  /\ UNCHANGED <<outside, list, isFresh, listLock, reply, info, gui, newest>>

(* The server has no body for a list whose ETag it is asked about. *)
ServeList(c) ==
  /\ at[c] = "asked"
  /\ at' = [at EXCEPT ![c] = "answered"]
  /\ \E etag \in {serverList, Empty} :
       reply' = [reply EXCEPT ![c] =
         [body |-> IF EtagOf(prev[c]) = serverList THEN Empty ELSE serverList, etag |-> etag]]
  /\ UNCHANGED <<outside, list, isFresh, listLock, prev, since, info, gui, newest>>

ListFails(c) ==
  /\ at[c] \in {"locked", "asked", "answered"}
  /\ Leave(c)
  /\ UNCHANGED <<outside, list, isFresh, info, gui, newest>>

VersionOf(etag, otherwise) == IF etag = Empty THEN otherwise ELSE ETag(etag)

(* revalidated, and new.  The state may have changed since prev was read.   *)
FaultyNewList(c) ==
  IF reply[c].body = Empty
  THEN [n |-> prev[c].n, version |-> VersionOf(reply[c].etag, prev[c].version)]
  ELSE [n |-> reply[c].body, version |-> VersionOf(reply[c].etag, Artificial(0))]

NewList(c) ==
  IF reply[c].body = Empty
  THEN [n |-> prev[c].n, version |-> VersionOf(reply[c].etag, prev[c].version)]
  ELSE [n |-> reply[c].body, version |-> VersionOf(reply[c].etag, Unused)]

StoreList(c) ==
  /\ at[c] = "answered"
  /\ list' = NewList(c) /\ isFresh' = TRUE
  /\ newest' = LaterOf(newest, list'.n)
  /\ Leave(c)
  /\ UNCHANGED <<outside, info, gui>>

-----------------------------------------------------------------------------
(* get_account_info: a request, and then update_account_info *)

AskForInfo(c) ==
  /\ at[c] = "idle" /\ user # Empty
  /\ at' = [at EXCEPT ![c] = "info"]
  /\ reply' = [reply EXCEPT ![c] = user]
  /\ UNCHANGED <<outside, list, isFresh, listLock, prev, since, info, gui, newest>>

StoreInfo(c) ==
  /\ at[c] = "info"
  /\ info' \in {reply[c], info}    (* or the request failed *)
  /\ at' = [at EXCEPT ![c] = "idle"] /\ reply' = [reply EXCEPT ![c] = Empty]
  /\ UNCHANGED <<outside, list, isFresh, listLock, prev, since, gui, newest>>

(* set_account_id resets all that is cached for the account before. *)
InfoUnderWay == \E c \in Caller : at[c] = "info"

FaultyChangeUser(u) ==
  /\ served < MaxServed /\ served' = served + 1
  /\ user # u /\ user' = u
  /\ list' = Empty /\ isFresh' = FALSE
  /\ newest' = 0 /\ infoRaced' = InfoUnderWay
  /\ UNCHANGED <<serverList, listLock, at, prev, reply, since, info, gui>>

ChangeUser(u) ==
  /\ served < MaxServed /\ served' = served + 1
  /\ user # u /\ user' = u
  /\ list' = Empty /\ isFresh' = FALSE /\ info' = Empty
  /\ newest' = 0 /\ infoRaced' = InfoUnderWay
  /\ UNCHANGED <<serverList, listLock, at, prev, reply, since, gui>>

-----------------------------------------------------------------------------
(* The server, time, and the application *)

ServerChanges ==
  /\ served < MaxServed /\ served' = served + 1
  /\ serverList' = serverList + 1
  /\ UNCHANGED <<user, list, isFresh, listLock, at, prev, reply, since, info, gui,
                 infoRaced, newest>>

ListAges ==
  /\ isFresh /\ isFresh' = FALSE
  /\ UNCHANGED <<outside, list, listLock, at, prev, reply, since, info, gui, newest>>

(* get_exit_list waits for a list of another version than the known one.    *)
ListArrives ==
  /\ list # Empty /\ list.version # guiKnown
  /\ guiKnown' = list.version /\ guiList' = list.n
  /\ UNCHANGED <<outside, list, isFresh, listLock, at, prev, reply, since, info, newest>>

ListNext ==
  \/ \E c \in Caller :
       \/ Lock(c) \/ ListIsFresh(c) \/ AskForList(c) \/ ServeList(c) \/ ListFails(c) \/ StoreList(c)
       \/ AskForInfo(c) \/ StoreInfo(c)
  \/ \E u \in User \cup {Empty} : ChangeUser(u)
  \/ ServerChanges \/ ListAges \/ ListArrives

-----------------------------------------------------------------------------
(* No list is replaced by an older one, whatever order answers come in; an  *)
(* update brings a list as new as the server's when it was asked; who knows *)
(* the version of the list has the list.  Cached account information is the *)
(* user's own, unless some was under way when the user logged in            *)
(* (update_account_info does not know whose it is:                          *)
(* src/rustlib/src/client_state.rs line 764).                               *)
CachesAreRight ==
  /\ list # Empty =>
       /\ list.n = newest
       /\ guiKnown = list.version => guiList = list.n
  /\ \A c \in Caller : at[c] = "answered" => NewList(c).n >= since[c]
  /\ info # Empty /\ ~infoRaced => info = user
=============================================================================
