------------------------------ MODULE Wrapper ------------------------------
(***************************************************************************)
(* xnbd-wrapper (xnbd_wrapper.c): the super-server that keeps a table of   *)
(* disk images, saves it in a database file, and forks an xnbd-server for  *)
(* every client.  The main thread waits in epoll for signals, control      *)
(* connections and clients; each control connection has a manager thread   *)
(* that reads commands; the table, the database file and the counters are  *)
(* under one mutex.  A critical section that only touches memory is one    *)
(* step; one that writes a file or a socket (saving, listing) keeps the    *)
(* mutex from one step to another, so that everything else, and fork(),    *)
(* may happen meanwhile.  A child has the memory of its parent as it was   *)
(* at fork().                                                              *)
(***************************************************************************)
EXTENDS Integers, FiniteSets, Functions

CONSTANTS
  Names,         \* export names
  Files,         \* image files
  Hosts,         \* remote hosts of proxied images
  Lines,         \* thread -> the command lines its control client may send
  Threads,       \* control connections
  Clients,       \* connections of NBD clients
  None,          \* NULL
  OldImages,     \* what the database file may hold at first
  MAX_NSRVS, MAX_CTL_CONNS,
  OneAtATime,    \* no command runs beside a bgctl-switch or a bgctl-reconnect
  MaxCommands, MaxStarts   \* bounds on the environment

ASSUME BoundsAssumption ==
  /\ MAX_NSRVS \in Nat /\ MAX_CTL_CONNS \in Nat
  /\ MaxCommands \in Nat /\ MaxStarts \in Nat
ASSUME SetsAssumption ==
  /\ IsFiniteSet(Threads) /\ IsFiniteSet(Clients) /\ IsFiniteSet(Names)
  /\ None \notin Names \cup Files \cup Hosts \cup Threads \cup Clients
  /\ "main" \notin Threads

VARIABLES
  p_disk_dict,        \* name -> t_disk_data
  images_added_ever,
  mutex,              \* its holder
  database,           \* the file at dbpath; no file is the same as one without images
  backup,             \* the file dbpath.prev
  failed,             \* the last save failed
  main,               \* where the main thread is
  accepted,           \* the client main has just accepted
  thread,             \* manager threads
  mgr_threads,
  child,              \* the processes forked for clients
  p_server_pid_set, child_process_count,
  sigchld, sigterm,   \* signals waiting in signalfd
  bounds              \* commands and starts so far

tableVars == <<p_disk_dict, images_added_ever>>
fileVars == <<database, backup, failed>>
mainVars == <<main, accepted, sigterm>>
threadVars == <<thread, mgr_threads>>
childVars == <<child, p_server_pid_set, sigchld>>
vars == <<tableVars, mutex, fileVars, mainVars, threadVars, childVars,
          child_process_count, bounds>>

-----------------------------------------------------------------------------
(* The table, the threads and the children                                 *)

\* bitmap stands for bitmap_image and control_socket_path: set and cleared together
Image == [file : Files, host : Hosts \cup {None}, bitmap : BOOLEAN]
Empty == [n \in {} |-> None]
target(f) == [file |-> f, host |-> None, bitmap |-> FALSE]
proxied(f, h) == [file |-> f, host |-> h, bitmap |-> TRUE]
Images(dict) == [n \in DOMAIN dict |-> dict[n].image]

NoLine == [cmd |-> "none", arg |-> None, file |-> None, host |-> None]
NoThread == [pc |-> "none", line |-> NoLine, arg |-> None, copy |-> None]
NoChild == [pc |-> "none", dict |-> Empty, locked |-> FALSE, copy |-> None]

Up == main \notin {"exited", "failed"}
Busy(t) == thread[t].pc \notin {"none", "prompt"}
Changing == {"bgctl-switch", "bgctl-reconnect"}
Bgctl == Changing \cup {"bgctl-query", "bgctl-cache-all"}
MayRun(t, line) ==
  OneAtATime => \A u \in Threads \ {t} :
    Busy(u) => {line.cmd, thread[u].line.cmd} \cap Changing = {}

Goto(t, p) == thread' = [thread EXCEPT ![t].pc = p]
\* report_return_code() and the next turn of the loop
Report(t) == thread' = [thread EXCEPT ![t] = [@ EXCEPT !.pc = "prompt", !.line = NoLine, !.copy = None]]
Dies(c) == /\ child' = [child EXCEPT ![c] = [NoChild EXCEPT !.pc = "dead"]]
           /\ sigchld' = TRUE

Init ==
  /\ p_disk_dict = Empty /\ images_added_ever = 0
  /\ mutex = None
  /\ \E old \in OldImages : database = [state |-> "whole", images |-> old]
  /\ backup = Empty /\ failed = FALSE
  /\ main = "exited" /\ accepted = None /\ sigterm = FALSE
  /\ thread = [t \in Threads |-> NoThread] /\ mgr_threads = 0
  /\ child = [c \in Clients |-> NoChild]
  /\ p_server_pid_set = {} /\ child_process_count = 0 /\ sigchld = FALSE
  /\ bounds = [commands |-> 0, starts |-> 0]

-----------------------------------------------------------------------------
(* Manager threads: start_filemgr_thread()                                 *)

\* fgets() fails, or "quit": count_mgr_threads(-1)
Quit(t) ==
  /\ Up /\ thread[t].pc = "prompt" /\ mutex = None
  /\ mgr_threads' = mgr_threads - 1
  /\ thread' = [thread EXCEPT ![t] = NoThread]
  /\ UNCHANGED <<tableVars, mutex, fileVars, mainVars, childVars, child_process_count, bounds>>

\* where the branches of the loop lead
FirstStep(line) ==
  CASE line.cmd = "save" -> "save"
    [] line.cmd = "list" -> "list"
    [] line.cmd \in Bgctl -> "lookup"
    [] OTHER -> "run"

\* A line is read.  A connection is followed from its first line on, when its
\* thread has counted itself and is not over the limit.  sscanf() leaves arg as
\* it was when the line has no argument.
Command(t, line) ==
  /\ Up /\ thread[t].pc \in {"none", "prompt"} /\ bounds.commands < MaxCommands
  /\ mgr_threads' = IF thread[t].pc = "none" THEN mgr_threads + 1 ELSE mgr_threads
  /\ mgr_threads' <= MAX_CTL_CONNS
  /\ MayRun(t, line)
  /\ bounds' = [bounds EXCEPT !.commands = @ + 1]
  /\ thread' = [thread EXCEPT ![t] =
       [pc |-> FirstStep(line), line |-> line,
        arg |-> IF line.arg = None THEN @.arg ELSE line.arg, copy |-> None]]
  /\ UNCHANGED <<tableVars, mutex, fileVars, mainVars, childVars, child_process_count>>

\* the arguments of the two commands that add an image
NewImage(line) ==
  IF line.cmd = "add-proxy" THEN proxied(line.file, line.host) ELSE target(line.file)

\* The image file opens or not, whatever the mutex; then the table is searched.
add_diskimg(t) ==
  LET l == thread[t].line IN
  /\ Up /\ thread[t].pc = "run" /\ l.cmd \in {"add-target", "add-proxy"} /\ mutex = None
  /\ \/ /\ l.arg \notin DOMAIN p_disk_dict
        /\ p_disk_dict' = [n \in DOMAIN p_disk_dict \cup {l.arg} |->
             IF n = l.arg THEN [index |-> images_added_ever, image |-> NewImage(l)] ELSE p_disk_dict[n]]
        /\ images_added_ever' = images_added_ever + 1
        /\ Goto(t, "save")
     \/ /\ Report(t)   \* XNBD_NOT_ADDING_TWICE, XNBD_IMAGE_ACCESS_ERROR
        /\ UNCHANGED tableVars
  /\ UNCHANGED <<mutex, fileVars, mainVars, mgr_threads, childVars, child_process_count, bounds>>

\* what the three delete commands remove, by number, file name or export name
Deleted(t) ==
  LET arg == thread[t].arg IN
  {n \in DOMAIN p_disk_dict :
     CASE thread[t].line.cmd = "del" -> p_disk_dict[n].index + 1 = arg
       [] thread[t].line.cmd = "del-file" -> p_disk_dict[n].image.file = arg
       [] OTHER -> n = arg}

del_diskimg_Unsaved(t) ==
  /\ Up /\ thread[t].pc = "run" /\ thread[t].line.cmd \in {"del", "del-file", "del-exportname"}
  /\ mutex = None
  /\ p_disk_dict' = Restrict(p_disk_dict, DOMAIN p_disk_dict \ Deleted(t))
  /\ Report(t)
  /\ UNCHANGED <<images_added_ever, mutex, fileVars, mainVars, mgr_threads, childVars, child_process_count, bounds>>

\* The database is saved only if something was removed.
del_diskimg(t) ==
  /\ Up /\ thread[t].pc = "run" /\ thread[t].line.cmd \in {"del", "del-file", "del-exportname"}
  /\ mutex = None
  /\ p_disk_dict' = Restrict(p_disk_dict, DOMAIN p_disk_dict \ Deleted(t))
  /\ IF Deleted(t) = {} THEN Report(t) ELSE Goto(t, "save")
  /\ UNCHANGED <<images_added_ever, mutex, fileVars, mainVars, mgr_threads, childVars, child_process_count, bounds>>

\* SIGTERM to the process group, or to the wrapper alone
perform_shutdown(t) ==
  LET all == thread[t].line.cmd = "shutdown"
      hit == {c \in Clients : child[c].pc \in {"nego", "lookup", "serving"}} IN
  /\ Up /\ thread[t].pc = "run" /\ thread[t].line.cmd \in {"shutdown", "orphan"}
  /\ sigterm' = TRUE
  /\ child' = [c \in Clients |-> IF all /\ c \in hit THEN [NoChild EXCEPT !.pc = "dead"] ELSE child[c]]
  /\ sigchld' = (sigchld \/ (all /\ hit # {}))
  /\ Report(t)
  /\ UNCHANGED <<tableVars, mutex, fileVars, main, accepted, mgr_threads, p_server_pid_set, child_process_count, bounds>>

\* The mutex is held while the list is written to the control client.
list_diskimg(t) ==
  /\ Up
  /\ \/ /\ thread[t].pc = "list" /\ mutex = None
        /\ mutex' = t
        /\ Goto(t, "listing")
     \/ /\ thread[t].pc = "listing"
        /\ mutex' = None
        /\ Report(t)
  /\ UNCHANGED <<tableVars, fileVars, mainVars, mgr_threads, childVars, child_process_count, bounds>>

-----------------------------------------------------------------------------
(* Saving: dump_registered_images_UNLOCKED() under the mutex               *)

\* who saves: a manager thread, or main in its SIGTERM branch
Saving(who, p) == IF who = "main" THEN main = p ELSE thread[who].pc = p
Saved(who, p) ==
  /\ main' = IF who = "main" THEN p ELSE main
  /\ thread' = IF who = "main" THEN thread
               ELSE IF p = "saving" THEN [thread EXCEPT ![who].pc = p]
               ELSE [thread EXCEPT ![who] = [@ EXCEPT !.pc = "prompt", !.line = NoLine, !.copy = None]]

\* The file is opened and checked, and truncated to nothing ...
Truncate(who) ==
  /\ Up /\ Saving(who, "save") /\ mutex = None
  /\ \/ /\ mutex' = who
        /\ database' = [state |-> "partial", images |-> Empty]
        /\ Saved(who, "saving")
        /\ UNCHANGED failed
     \/ /\ failed' = TRUE   \* the caller goes on as if it were saved
        /\ Saved(who, "destroy")
        /\ UNCHANGED <<mutex, database>>
  /\ UNCHANGED <<tableVars, backup, accepted, sigterm, mgr_threads, childVars, child_process_count, bounds>>

\* ... and then written.  An image without bitmap is written without that attribute.
dump_registered_images(who) ==
  /\ Up /\ Saving(who, "saving")
  /\ mutex' = None
  /\ \/ /\ database' = [state |-> "whole", images |-> Images(p_disk_dict)]
        /\ failed' = FALSE
     \/ /\ failed' = TRUE
        /\ UNCHANGED database
  /\ Saved(who, "destroy")
  /\ UNCHANGED <<tableVars, backup, accepted, sigterm, mgr_threads, childVars, child_process_count, bounds>>

-----------------------------------------------------------------------------
(* bgctl commands: handle_bgctl_command() and what follows it              *)

\* the proxies of the registration p_disk_dict had under this number
Proxies(index) == {c \in Clients : child[c].pc = "serving" /\ child[c].copy = index}

\* get_disk_data_for() copies the entry; without a proxy that serves it there
\* is no control socket; otherwise xnbd-bgctl is forked and counted.
handle_bgctl_command(t) ==
  LET n == thread[t].line.arg
      found == n \in DOMAIN p_disk_dict IN
  /\ Up /\ thread[t].pc = "lookup" /\ mutex = None
  /\ IF found /\ p_disk_dict[n].image.host # None /\ Proxies(p_disk_dict[n].index) # {}
     THEN /\ thread' = [thread EXCEPT ![t] = [@ EXCEPT !.pc = "bgctl", !.copy = p_disk_dict[n].index]]
          /\ child_process_count' = child_process_count + 1
     ELSE /\ Report(t)
          /\ UNCHANGED child_process_count
  /\ UNCHANGED <<tableVars, mutex, fileVars, mainVars, mgr_threads, childVars, bounds>>

waitpid_bgctl_Uncounted(t) ==
  LET cmd == thread[t].line.cmd IN
  /\ Up /\ thread[t].pc = "bgctl" /\ mutex = None
  /\ \/ Report(t)
     \/ Proxies(thread[t].copy) # {} /\ cmd \in Changing /\ Goto(t, "settle")
  /\ UNCHANGED <<tableVars, mutex, fileVars, mainVars, mgr_threads, childVars, child_process_count, bounds>>

\* xnbd-bgctl ends and is waited for.  It can succeed only if a proxy serves
\* the image; a switch makes a target of that proxy.
waitpid_bgctl(t) ==
  LET cmd == thread[t].line.cmd IN
  /\ Up /\ thread[t].pc = "bgctl" /\ mutex = None
  /\ child_process_count' = child_process_count - 1
  /\ \/ /\ Report(t)
        /\ UNCHANGED child
     \/ \E c \in Proxies(thread[t].copy) :
          /\ child' = IF cmd = "bgctl-switch" THEN [child EXCEPT ![c].copy = None] ELSE child
          /\ IF cmd \in Changing THEN Goto(t, "settle") ELSE Report(t)
  /\ UNCHANGED <<tableVars, mutex, fileVars, mainVars, mgr_threads, p_server_pid_set, sigchld, bounds>>

Settled_HostStays(t, image) ==
  IF thread[t].line.cmd = "bgctl-switch"
  THEN [image EXCEPT !.bitmap = FALSE]
  ELSE [image EXCEPT !.host = thread[t].line.host]

\* mark_proxy_mode_ended() and update_proxy_settings(): the entry is looked up again
Settled(t, image) ==
  IF thread[t].line.cmd = "bgctl-switch"
  THEN target(image.file)
  ELSE [image EXCEPT !.host = thread[t].line.host]

settle(t) ==
  LET n == thread[t].line.arg IN
  /\ Up /\ thread[t].pc = "settle" /\ mutex = None
  /\ p_disk_dict' = IF n \in DOMAIN p_disk_dict
                    THEN [p_disk_dict EXCEPT ![n].image = Settled(t, @)]
                    ELSE p_disk_dict
  /\ Goto(t, "save")
  /\ UNCHANGED <<images_added_ever, mutex, fileVars, mainVars, mgr_threads, childVars, child_process_count, bounds>>

-----------------------------------------------------------------------------
(* Clients: the tcp branch of main() and the child it forks                *)

Limit_Over == child_process_count > MAX_NSRVS

Limit == child_process_count >= MAX_NSRVS

\* Over the limit the connection is closed at once.
Accept ==
  /\ main = "wait" /\ mutex = None /\ ~Limit
  /\ \E c \in Clients : child[c].pc = "none"
  /\ main' = "fork" /\ accepted' = CHOOSE c \in Clients : child[c].pc = "none"
  /\ UNCHANGED <<tableVars, mutex, fileVars, threadVars, childVars, sigterm, child_process_count, bounds>>

Fork_NoInsert ==
  /\ main = "fork"
  /\ child' = [child EXCEPT ![accepted] =
       [pc |-> "nego", dict |-> p_disk_dict, locked |-> mutex # None, copy |-> None]]
  /\ main' = "count"
  /\ UNCHANGED <<tableVars, mutex, fileVars, accepted, threadVars, p_server_pid_set, sigchld, sigterm, child_process_count, bounds>>

\* The child has the table and the mutex as they are now.
Fork ==
  /\ main = "fork"
  /\ child' = [child EXCEPT ![accepted] =
       [pc |-> "nego", dict |-> p_disk_dict, locked |-> mutex # None, copy |-> None]]
  /\ p_server_pid_set' = p_server_pid_set \cup {accepted}
  /\ main' = "count"
  /\ UNCHANGED <<tableVars, mutex, fileVars, accepted, threadVars, sigchld, sigterm, child_process_count, bounds>>

Count ==
  /\ main = "count" /\ mutex = None
  /\ child_process_count' = child_process_count + 1
  /\ main' = "wait" /\ accepted' = None
  /\ UNCHANGED <<tableVars, mutex, fileVars, threadVars, childVars, sigterm, bounds>>

\* nbd_negotiate_v2_server_phase0(): the client names an export, and only its
\* entry matters from now on; or the client is gone
Negotiate(c) ==
  /\ child[c].pc = "nego"
  /\ \/ /\ \E n \in Names :
             child' = [child EXCEPT ![c] = [@ EXCEPT !.pc = "lookup", !.dict = Restrict(@, {n} \cap DOMAIN @)]]
        /\ UNCHANGED sigchld
     \/ Dies(c)
  /\ UNCHANGED <<tableVars, mutex, fileVars, mainVars, threadVars, p_server_pid_set, child_process_count, bounds>>

\* The arguments of xnbd-server end at the first that is NULL.
AllArguments(image) == image.host # None => image.bitmap

\* get_disk_data_for() in the child, whose mutex is the one it was forked with;
\* then the disk size is asked for and sent, and xnbd-server takes over.
exec_xnbd_server(c) ==
  /\ child[c].pc = "lookup" /\ ~child[c].locked
  /\ \/ /\ \E disk_data \in Range(child[c].dict) :
             /\ AllArguments(disk_data.image)
             /\ child' = [child EXCEPT ![c] = [NoChild EXCEPT !.pc = "serving",
                  !.copy = IF disk_data.image.host # None THEN disk_data.index ELSE None]]
        /\ UNCHANGED sigchld
     \/ Dies(c)
  /\ UNCHANGED <<tableVars, mutex, fileVars, mainVars, threadVars, p_server_pid_set, child_process_count, bounds>>

ServerEnds(c) ==
  /\ child[c].pc = "serving"
  /\ Dies(c)
  /\ UNCHANGED <<tableVars, mutex, fileVars, mainVars, threadVars, p_server_pid_set, child_process_count, bounds>>

-----------------------------------------------------------------------------
(* Signals, exit and start                                                 *)

\* waitpid(WNOHANG) on every pid of the set
Zombies == {c \in p_server_pid_set : child[c].pc = "dead"}
waitpid_nohang ==
  /\ main = "wait" /\ sigchld /\ mutex = None
  /\ sigchld' = FALSE
  /\ p_server_pid_set' = p_server_pid_set \ Zombies
  /\ child_process_count' = child_process_count - Cardinality(Zombies)
  /\ child' = [c \in Clients |-> IF c \in Zombies THEN NoChild ELSE child[c]]
  /\ UNCHANGED <<tableVars, mutex, fileVars, mainVars, threadVars, bounds>>

\* SIGTERM or SIGINT, from a command or from outside: auto_save() first
Term ==
  /\ main = "wait" /\ sigterm
  /\ main' = "save"
  /\ UNCHANGED <<tableVars, mutex, fileVars, accepted, sigterm, threadVars, childVars, child_process_count, bounds>>

\* g_hash_table_destroy(): the threads run on, with a table that was freed
Destroy ==
  /\ main = "destroy" /\ mutex = None
  /\ p_disk_dict' = Empty
  /\ main' = "exit"
  /\ UNCHANGED <<images_added_ever, mutex, fileVars, accepted, sigterm, threadVars, childVars, child_process_count, bounds>>

\* exit(), or the process is killed at any moment.  The children live on by
\* themselves and are not followed any more.
Stop ==
  /\ main' = "exited" /\ mutex' = None /\ sigterm' = FALSE /\ accepted' = None
  /\ p_disk_dict' = Empty /\ images_added_ever' = 0
  /\ thread' = [t \in Threads |-> NoThread] /\ mgr_threads' = 0
  /\ p_server_pid_set' = {} /\ child_process_count' = 0 /\ sigchld' = FALSE
  /\ child' = [c \in Clients |-> NoChild]
  /\ UNCHANGED <<fileVars, bounds>>
Exit == main = "exit" /\ Stop
Killed == Up /\ bounds.starts < MaxStarts /\ Stop

\* load_database_json() refuses a database with an attribute missing
Loadable(images) == \A n \in DOMAIN images : images[n].host # None => images[n].bitmap

\* The first database was written by another run of the wrapper.
ASSUME OldImagesAssumption ==
  \A old \in OldImages : /\ DOMAIN old \subseteq Names /\ old \in [DOMAIN old -> Image]
                         /\ Loadable(old)

Backup_Never(skipped) == backup

\* the .prev file
Backup(skipped) == IF skipped = {} THEN backup ELSE database.images

\* images_added_ever after the images were loaded through add_diskimg()
LoadedEver(loaded) == Cardinality(loaded)

\* load_database_file_or_abort(): an image whose file does not open is skipped,
\* and then the file is kept as .prev and written anew.
Start ==
  /\ main = "exited" /\ bounds.starts < MaxStarts
  /\ bounds' = [bounds EXCEPT !.starts = @ + 1]
  /\ IF database.state = "partial" \/ ~Loadable(database.images)
     THEN /\ main' = "failed"
          /\ UNCHANGED <<tableVars, fileVars>>
     ELSE \E skipped \in SUBSET DOMAIN database.images :
          LET loaded == DOMAIN database.images \ skipped
              order == CHOOSE f \in [loaded -> 0 .. Cardinality(loaded) - 1] : IsInjective(f) IN
          /\ p_disk_dict' = [n \in loaded |-> [index |-> order[n], image |-> database.images[n]]]
          /\ images_added_ever' = LoadedEver(loaded)
          /\ backup' = Backup(skipped)
          /\ database' = IF skipped = {} THEN database
                         ELSE [state |-> "whole", images |-> Images(p_disk_dict')]
          /\ main' = "wait" /\ failed' = FALSE
  /\ UNCHANGED <<mutex, accepted, sigterm, threadVars, childVars, child_process_count>>

-----------------------------------------------------------------------------
ThreadStep(t) ==
  \/ add_diskimg(t) \/ del_diskimg(t) \/ perform_shutdown(t)
  \/ list_diskimg(t) \/ handle_bgctl_command(t) \/ waitpid_bgctl(t) \/ settle(t)
Save(who) == Truncate(who) \/ dump_registered_images(who)
MainStep ==
  \/ Fork \/ Count \/ waitpid_nohang \/ Term \/ Destroy \/ Exit
Environment ==
  \/ \E t \in Threads : Quit(t) \/ \E line \in Lines[t] : Command(t, line)
  \/ \E c \in Clients : Negotiate(c) \/ ServerEnds(c)
  \/ Accept \/ Killed \/ Start

Next ==
  \/ Environment \/ MainStep
  \/ \E t \in Threads : ThreadStep(t)
  \/ \E c \in Clients : exec_xnbd_server(c)
  \/ \E who \in Threads \cup {"main"} : Save(who)

Spec == Init /\ [][Next]_vars

\* Every thread and process that can go on does; nothing is assumed of clients.
FairSpec ==
  /\ Spec
  /\ WF_vars(MainStep \/ Save("main"))
  /\ WF_vars(\E t \in Threads : ThreadStep(t) \/ Save(t))
  /\ WF_vars(\E c \in Clients : exec_xnbd_server(c))

-----------------------------------------------------------------------------
(* Properties                                                              *)

Entries == [index : Nat, image : Image]
IsTable(f, S) == DOMAIN f \subseteq Names /\ f \in [DOMAIN f -> S]
ChildStates == {"none", "nego", "lookup", "serving", "dead"}
MainStates == {"wait", "fork", "count", "save", "saving", "destroy", "exit", "exited", "failed"}
ThreadStates == {"none", "prompt", "run", "list", "listing", "lookup",
                 "bgctl", "settle", "save", "saving"}

\* Every variable keeps its type: the table and the file map export names to
\* images, the counters are natural numbers, the mutex has one holder.
TypeOK ==
  /\ IsTable(p_disk_dict, Entries) /\ images_added_ever \in Nat
  /\ mutex \in Threads \cup {"main", None}
  /\ database.state \in {"partial", "whole"} /\ IsTable(database.images, Image)
  /\ IsTable(backup, Image) /\ failed \in BOOLEAN
  /\ main \in MainStates /\ accepted \in Clients \cup {None} /\ sigterm \in BOOLEAN
  /\ \A t \in Threads : thread[t].pc \in ThreadStates /\ thread[t].line \in Lines[t] \cup {NoLine}
  /\ mgr_threads \in 0 .. Cardinality(Threads)
  /\ \A c \in Clients : child[c].pc \in ChildStates /\ IsTable(child[c].dict, Entries)
  /\ p_server_pid_set \subseteq Clients /\ child_process_count \in Nat /\ sigchld \in BOOLEAN

\* The processes counted are the ones that run: the servers in the pid set, but
\* for the one main has forked and not counted yet, and one xnbd-bgctl for each
\* manager thread that waits for one (ChangeLog: "Make sure no zombie servers are
\* left behind").
Waiting == {t \in Threads : thread[t].pc = "bgctl"}
CountExact ==
  child_process_count = Cardinality(p_server_pid_set) - (IF main = "count" THEN 1 ELSE 0)
                        + Cardinality(Waiting)

\* Never more than MAX_NSRVS servers are children of the wrapper, although the
\* limit is read in one critical section and the count raised in another, while
\* manager threads count their own children up and down.
ServersBounded == Cardinality(p_server_pid_set) <= MAX_NSRVS

\* A number in the list names one registration: no two images share one, and a
\* number is never given again ("Keep disk indices constant during runtime").
IndexUnique ==
  /\ \A n \in DOMAIN p_disk_dict : p_disk_dict[n].index < images_added_ever
  /\ \A m, n \in DOMAIN p_disk_dict : p_disk_dict[m].index = p_disk_dict[n].index => m = n

\* When no command is between its change and its save, and no save failed, the
\* database file holds the table: what a client was told is done survives a kill.
Unsaved == {"save", "saving"}
DatabaseCurrent ==
  /\ main \in {"wait", "fork", "count", "destroy"}
  /\ \A t \in Threads : thread[t].pc \notin Unsaved
  /\ ~failed
  => database.images = Images(p_disk_dict)

\* The wrapper refuses to start only over a database that it was stopped, or
\* failed, in the middle of writing ("That file is loaded during start-up").
StartsAgain == main = "failed" => database.state = "partial"

\* An image loses its remote host, or gets another, only by a bgctl command that
\* was given for this very registration, not for one of the same name before it.
ChangesOwn ==
  [][\A n \in DOMAIN p_disk_dict \cap DOMAIN p_disk_dict' :
       /\ p_disk_dict[n].index = p_disk_dict'[n].index
       /\ p_disk_dict[n].image # p_disk_dict'[n].image
       => \E t \in Threads : /\ thread[t].pc = "settle" /\ thread'[t].pc = "save"
                             /\ thread[t].copy = p_disk_dict[n].index]_vars

\* What the database held when the wrapper was started is registered again, or
\* else is in the .prev file.
StartKeeps ==
  [][main = "exited" /\ main' = "wait" =>
       \A n \in DOMAIN database.images :
         \/ n \in DOMAIN p_disk_dict' /\ p_disk_dict'[n].image = database.images[n]
         \/ n \in DOMAIN backup' /\ backup'[n] = database.images[n]]_vars

\* A client that named its export is served or disconnected, and a server that
\* ended is waited for, whatever the number of SIGCHLD that were merged into one;
\* unless the wrapper stops, or the child was forked while another thread held
\* the mutex.
Unsettled(c) ==
  \/ child[c].pc = "lookup" /\ ~child[c].locked
  \/ child[c].pc = "dead"
ClientsSettled == \A c \in Clients : Unsettled(c) ~> ~Unsettled(c)

\* Every client that named its export is served or disconnected.
ClientIndirected ==
  \A c \in Clients : child[c].pc = "lookup" ~> child[c].pc # "lookup"

\* A control client gets the return code of its command, unless the wrapper stops.
CommandsAnswered ==
  \A t \in Threads : Busy(t) /\ Up ~> ~Busy(t) \/ ~Up
=============================================================================
