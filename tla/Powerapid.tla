------------------------------ MODULE Powerapid ------------------------------
(***************************************************************************)
(* powerapid, the PowerAPI control daemon, with its clients, its two       *)
(* threads, the sysfs files it arbitrates and its restarts.                *)
(*                                                                         *)
(* The main thread (daemon/powerapid.c, main) accepts connections, reads   *)
(* requests, answers some itself and queues the set requests; on the loss  *)
(* of a connection it rolls the changes of that client back.  The worker   *)
(* thread (daemon/pwrapi_worker.c) takes the set requests from the queue,  *)
(* keeps the change lists and writes the winning value to the file.        *)
(* Nothing but the queue is locked, so the two threads interleave on the   *)
(* lists; what a data race or a freed socket_info_t may do is a            *)
(* nondeterministic choice (a lost list update, or a segmentation fault).  *)
(***************************************************************************)
EXTENDS PwrapiSet, FiniteSets

CONSTANTS
    Conns,             \* the connections, each used once
    Paths,             \* the sysfs paths that can be set
    Values,            \* the attribute values
    Attr,              \* Attr[p]: the PWR_AttrName that path p belongs to
    InitFile,          \* the values in the files before the daemon ever ran
    Root,              \* the connections whose peer has uid 0
    ResourceManager,   \* the connections whose context has role PWR_ROLE_RM
    Permitted,         \* the connections whose uid the permission file lists
    ReqTypes,          \* the kinds of request that clients send
    MaxClientSockets,  \* MAX_CLIENT_SOCKETS
    RestartFlag,       \* the daemon is started with -r/--restart
    MaxReqs,           \* bound: requests per connection
    MaxSignals,        \* bound: SIGTERM and SIGINT
    MaxBoots,          \* bound: starts of the daemon
    MaxCrashes,        \* bound: SIGKILL, a failing allocation, power loss
    ClientsDie,        \* a client may die while it waits for an answer
    Faults,            \* system calls on files and sockets may fail
    ClockTies,         \* two readings of the clock may be equal
    NULL,              \* the null pointer
    NAMED              \* the listening socket

ASSUME PowerapidAssumption ==
    /\ IsFiniteSet(Conns)
    /\ NULL \notin Conns /\ NAMED \notin Conns /\ NAMED # NULL
    /\ Values \subseteq Int /\ Values # {} /\ Paths # {}
    /\ Attr \in [Paths -> AttrNames] /\ InitFile \in [Paths -> Values]
    /\ Root \subseteq Conns /\ ResourceManager \subseteq Conns
    /\ Permitted \subseteq Conns
    /\ ReqTypes \subseteq {"AUTH", "SET", "LOGLVL", "DUMP", "BAD"}
    /\ MaxClientSockets \in Nat /\ MaxReqs \in Nat /\ MaxSignals \in Nat
    /\ MaxBoots \in Nat /\ MaxCrashes \in Nat
    /\ RestartFlag \in BOOLEAN /\ ClientsDie \in BOOLEAN
    /\ Faults \in BOOLEAN /\ ClockTies \in BOOLEAN

ASSUME NullIsNoRecord ==
    /\ NULL \notin [own : Conns \cup {NULL}, val : Values, ts : Nat]
    /\ NULL \notin [type : ReqTypes, path : Paths, val : Values]

VARIABLES
    \* clients and the socket buffers
    cli,          \* cli[c]: "new", "idle", "waiting" or "gone"
    reqs,         \* reqs[c]: number of requests sent
    up,           \* up[c]: the request not yet read by the daemon, or NULL
    down,         \* down[c]: the responses not yet read by the client
    closed,       \* closed[c]: the daemon has closed its end
    backlog,      \* connections waiting to be accepted
    \* main thread
    mpc,          \* where the main thread is
    sel,          \* the sockets of select_sockets still to be looked at
    cur,          \* the socket being destructed or dumped to, or NULL
    daemon_run,
    incoming,     \* incoming_sockets, the named socket aside
    num_client_sockets,
    sk,           \* sk[c]: socket_info_t "none", "open" or "freed"
    authed,       \* authed[c]: skinfo->role has been specified
    fdOf,         \* fdOf[c]: skinfo->sockid
    seqnum,       \* seqnum[c]: skinfo->seqnum
    \* change lists
    all_changes, my_changes, def_values, clock,
    \* worker thread
    wpc, item, work_queue,
    \* persistent state
    file, dirty, allow, admin_down,
    \* environment counters
    nsig, nboot, ncrash,
    \* history: the persistent value of each path, whether the threads have
    \* met in the lists, the paths whose winning value was taken out and not
    \* replaced, the paths whose last write failed
    orig, raced, displaced, unwritten

clientVars == <<cli, reqs>>
wireVars   == <<up, down, closed, backlog>>
mainVars   == <<mpc, sel, cur, daemon_run>>
sockVars   == <<incoming, num_client_sockets, sk, authed, fdOf>>
regVars    == <<all_changes, my_changes, def_values, clock>>
workVars   == <<wpc, item, work_queue>>
diskVars   == <<dirty, allow, admin_down>>
fileVars   == <<file, displaced, unwritten>>
envVars    == <<nsig, nboot, ncrash>>
vars == <<clientVars, wireVars, mainVars, sockVars, seqnum, regVars, workVars,
          diskVars, fileVars, envVars, orig, raced>>

-----------------------------------------------------------------------------
(* Data                                                                    *)

Entry   == [own : Conns \cup {NULL}, val : Values, ts : Nat]
Request == [type : ReqTypes, path : Paths, val : Values]
Item    == [own : Conns \cup {NULL}, path : Paths, val : Values, ts : Nat]
RetCode == {"SUCCESS", "FAILURE", "INVALID", "NO_PERM"}
\* to: the connection whose request is answered
Response == [ret : RetCode, seq : Nat, to : Conns]

MainPc   == {"boot", "paused", "check", "presel", "select", "scan", "destruct",
             "dump", "stop", "join", "reset", "final", "exited", "dead"}
WorkerPc == {"none", "loop", "pop", "def", "old", "top", "done"}

\* The item worker_stop pushes: it has no socket.
StopItem == [own |-> NULL, path |-> CHOOSE p \in Paths : TRUE,
             val |-> CHOOSE v \in Values : TRUE, ts |-> 0]

\* The requests clients send; only a set request has a path and a value.
Sendable == {r \in Request : r.type = "SET"
                \/ (r.path = StopItem.path /\ r.val = StopItem.val)}

Alive == mpc \notin {"boot", "paused", "exited", "dead"}

TypeOK ==
    /\ cli \in [Conns -> {"new", "idle", "waiting", "gone"}]
    /\ reqs \in [Conns -> Nat]
    /\ up \in [Conns -> Request \cup {NULL}]
    /\ down \in [Conns -> Seq(Response)]
    /\ closed \in [Conns -> BOOLEAN]
    /\ backlog \subseteq Conns
    /\ mpc \in MainPc
    /\ sel \subseteq Conns \cup {NAMED}
    /\ cur \in Conns \cup {NULL}
    /\ daemon_run \in BOOLEAN
    /\ incoming \subseteq Conns
    /\ num_client_sockets \in Nat
    /\ sk \in [Conns -> {"none", "open", "freed"}]
    /\ authed \in [Conns -> BOOLEAN]
    /\ fdOf \in [Conns -> Nat]
    /\ seqnum \in [Conns -> Nat]
    /\ all_changes \in [Paths -> Seq(Entry)]
    /\ my_changes \in [Conns -> [Paths -> Entry \cup {NULL}]]
    /\ def_values \in [Paths -> Entry \cup {NULL}]
    /\ clock \in Nat
    /\ wpc \in WorkerPc
    /\ item \in Item
    /\ work_queue \in Seq(Item)
    /\ file \in [Paths -> Values] /\ orig \in [Paths -> Values]
    /\ dirty \in BOOLEAN /\ allow \in BOOLEAN /\ admin_down \in BOOLEAN
    /\ raced \in BOOLEAN
    /\ nsig \in Nat /\ nboot \in Nat /\ ncrash \in Nat
    /\ displaced \subseteq Paths /\ unwritten \subseteq Paths

-----------------------------------------------------------------------------
(* Where the two threads can meet                                          *)

\* The worker is between taking a request and answering it.
WorkerInLists == wpc \in {"def", "old", "top"}

\* The main thread is rolling changes back or dumping the tables.
MainInLists ==
    \/ mpc = "dump"
    \/ mpc = "destruct" /\ \E p \in Paths : my_changes[cur][p] # NULL

\* Both threads are in the lists: a data race.
Overlap == WorkerInLists /\ MainInLists

\* The worker handles a request whose socket_info_t has been freed.
Dangling == WorkerInLists /\ sk[item.own] = "freed"

Racing == Overlap \/ Dangling

\* Every step records whether it was taken in a race.
NoteRace == raced' = (raced \/ Racing)

\* The threads have not met so far.
Unraced == ~ raced /\ ~ Racing

\* The results an update of a list can have: racing threads may lose it.
Updates(old, new) == IF Racing THEN {old, new} ELSE {new}

-----------------------------------------------------------------------------
(* Shared helpers                                                          *)

\* Mutant: the request is appended, as by g_slist_append.
set_append(p, l, e) == Append(l, e)

set_insert(p, l, e) == InsertSorted(Attr[p], l, e)

\* Mutant: the replaced request stays in the list.
KeepReplaced(l, o) == l

set_remove(l, o) == RemoveOwner(l, o)

is_persistent(c) == c \in Root /\ authed[c] /\ c \in ResourceManager

\* read_attr_value: the value in the file; see WorkerDefaultFails for a file
\* that cannot be read.
read_attr_value(p) == file[p]

\* Mutant: the value goes out in the unit of the API, not of sysfs.
WriteUnscaled(p, v, ok) ==
    /\ ok \/ Faults
    /\ file' = IF ok THEN [file EXCEPT ![p] = 1000 * v] ELSE file
    /\ unwritten' = IF ok THEN unwritten \ {p} ELSE unwritten \cup {p}
    /\ displaced' = IF ok THEN displaced \ {p} ELSE displaced

\* write_attr_value: the file takes the value, or the write fails and leaves
\* it as it was.
write_attr_value(p, v, ok) ==
    /\ ok \/ Faults
    /\ file' = IF ok THEN [file EXCEPT ![p] = v] ELSE file
    /\ unwritten' = IF ok THEN unwritten \ {p} ELSE unwritten \cup {p}
    /\ displaced' = IF ok THEN displaced \ {p} ELSE displaced

\* The peer that write(skinfo->sockid) reaches: the client itself, or, once
\* socket_info_t is freed and the descriptor closed, whoever has been given
\* that descriptor since.
Peers(c) == IF sk[c] = "open" THEN {c}
            ELSE {d \in incoming : fdOf[d] = fdOf[c]}

\* send_response; a peer that is gone makes write fail with EPIPE.
send_response(c, ret) ==
    /\ down' = [d \in Conns |->
                  IF d \in Peers(c) /\ cli[d] # "gone"
                  THEN Append(down[d], [ret |-> ret, seq |-> seqnum[c], to |-> c])
                  ELSE down[d]]
    /\ seqnum' = [seqnum EXCEPT ![c] = @ + 1]

\* The readings g_get_real_time can return next: only governors look at the
\* stamp, so the clock of the other attributes stands still.
Tick(p) == IF Attr[p] # "GOV" THEN {clock}
           ELSE IF ClockTies THEN {clock, clock + 1} ELSE {clock + 1}

-----------------------------------------------------------------------------
(* Clients: the socket plugin of the library (ipc_socket.c), powerapid-ctrl *)
(* and anyone else that talks to the socket.  A client sends a request and  *)
(* waits for its answer.                                                    *)

ClientConnect(c) ==
    /\ Alive /\ cli[c] = "new"
    /\ cli' = [cli EXCEPT ![c] = "idle"]
    /\ backlog' = backlog \cup {c}
    /\ UNCHANGED <<reqs, up, down, closed, mainVars, sockVars, seqnum, regVars,
                   workVars, diskVars, fileVars, envVars, orig>>
    /\ NoteRace

\* A write to a connection the daemon has closed fails, and the client gives up.
ClientSend(c, r) ==
    /\ cli[c] = "idle" /\ ~ closed[c] /\ reqs[c] < MaxReqs
    /\ cli' = [cli EXCEPT ![c] = "waiting"]
    /\ reqs' = [reqs EXCEPT ![c] = @ + 1]
    /\ up' = [up EXCEPT ![c] = r]
    /\ UNCHANGED <<down, closed, backlog, mainVars, sockVars, seqnum, regVars,
                   workVars, diskVars, fileVars, envVars, orig>>
    /\ NoteRace

ClientReceive(c) ==
    /\ cli[c] = "waiting" /\ down[c] # <<>>
    /\ cli' = [cli EXCEPT ![c] = "idle"]
    /\ down' = [down EXCEPT ![c] = Tail(@)]
    /\ UNCHANGED <<reqs, up, closed, backlog, mainVars, sockVars, seqnum, regVars,
                   workVars, diskVars, fileVars, envVars, orig>>
    /\ NoteRace

\* The client reads end-of-file.
ClientEof(c) ==
    /\ cli[c] \in {"idle", "waiting"} /\ closed[c] /\ down[c] = <<>>
    /\ cli' = [cli EXCEPT ![c] = "gone"]
    /\ UNCHANGED <<reqs, wireVars, mainVars, sockVars, seqnum, regVars,
                   workVars, diskVars, fileVars, envVars, orig>>
    /\ NoteRace

\* The client closes its context or dies; a request it has sent stays in the
\* socket buffer for the daemon to read.
ClientClose(c) ==
    /\ cli[c] \in (IF ClientsDie THEN {"idle", "waiting"} ELSE {"idle"})
    /\ cli' = [cli EXCEPT ![c] = "gone"]
    /\ down' = [down EXCEPT ![c] = <<>>]
    /\ UNCHANGED <<reqs, up, closed, backlog, mainVars, sockVars, seqnum, regVars,
                   workVars, diskVars, fileVars, envVars, orig>>
    /\ NoteRace

ClientStep ==
    \E c \in Conns :
        \/ ClientConnect(c)
        \/ \E r \in Sendable : ClientSend(c, r)
        \/ ClientReceive(c)
        \/ ClientEof(c)
        \/ ClientClose(c)

-----------------------------------------------------------------------------
(* The main thread                                                         *)

\* main() up to the select loop: check_state_dirty, restore_permissions_file,
\* worker_start and the named socket.  A dirty start without leave to restart
\* sets the node admin-down and waits for a signal.
MainBoot ==
    /\ mpc = "boot"
    /\ \/ /\ dirty /\ ~ RestartFlag /\ ~ allow
          /\ mpc' = "paused" /\ admin_down' = TRUE
          /\ UNCHANGED <<dirty, wpc, daemon_run, orig, fileVars>>
       \/ /\ ~ dirty \/ RestartFlag \/ allow
          /\ dirty' = FALSE
          /\ \/ mpc' = "check" /\ wpc' = "loop" /\ daemon_run' = TRUE
             \/ Faults /\ mpc' = "exited" /\ UNCHANGED <<wpc, daemon_run>>
          \* A start takes the values it finds as the persistent ones.
          /\ orig' = file /\ displaced' = {} /\ unwritten' = {}
          /\ UNCHANGED <<file, admin_down>>
    /\ UNCHANGED <<clientVars, wireVars, sel, cur, sockVars, seqnum, regVars,
                   item, work_queue, allow, envVars>>
    /\ NoteRace

\* while (daemon_run)
MainCheck ==
    /\ mpc = "check"
    /\ mpc' = IF daemon_run THEN "presel" ELSE "stop"
    /\ UNCHANGED <<clientVars, wireVars, sel, cur, daemon_run, sockVars, seqnum,
                   regVars, workVars, diskVars, fileVars, envVars, orig>>
    /\ NoteRace

\* The call of select(): a signal before it is not seen by it.
MainEnterSelect ==
    /\ mpc = "presel" /\ mpc' = "select"
    /\ UNCHANGED <<clientVars, wireVars, sel, cur, daemon_run, sockVars, seqnum,
                   regVars, workVars, diskVars, fileVars, envVars, orig>>
    /\ NoteRace

\* Mutant: the loop over the descriptors stops one short.
ReadyButLast ==
    {c \in incoming : (up[c] # NULL \/ cli[c] = "gone")
                         /\ fdOf[c] < Cardinality(incoming)}
        \cup (IF backlog # {} THEN {NAMED} ELSE {})

\* The sockets that have something to read, end-of-file included.
Ready == {c \in incoming : up[c] # NULL \/ cli[c] = "gone"}
            \cup (IF backlog # {} THEN {NAMED} ELSE {})

\* The return of select() with the readable sockets.
MainSelect ==
    /\ mpc = "select" /\ Ready # {}
    /\ mpc' = "scan" /\ sel' = Ready
    /\ UNCHANGED <<clientVars, wireVars, cur, daemon_run, sockVars, seqnum,
                   regVars, workVars, diskVars, fileVars, envVars, orig>>
    /\ NoteRace

\* The for loop over the descriptors is through.
MainScanned ==
    /\ mpc = "scan" /\ sel = {}
    /\ mpc' = "check"
    /\ UNCHANGED <<clientVars, wireVars, sel, cur, daemon_run, sockVars, seqnum,
                   regVars, workVars, diskVars, fileVars, envVars, orig>>
    /\ NoteRace

\* f is the lowest descriptor that is free, the one accept() returns.
LowestFreeFd(f) ==
    /\ \A d \in incoming : fdOf[d] # f
    /\ \A g \in 1 .. f - 1 : \E d \in incoming : fdOf[d] = g

\* Mutant: the limit is off by one.
FullTooLate == num_client_sockets > MaxClientSockets

\* No further client is taken.
Full == num_client_sockets >= MaxClientSockets

\* process_connect_req and abort_connect_req: the connection is refused with
\* a response and closed, ...
MainRefuse(c) ==
    /\ mpc = "scan" /\ NAMED \in sel /\ c \in backlog
    /\ \E ret \in RetCode :
          /\ \/ ret = "FAILURE" /\ Full
             \/ /\ ~ Full
                /\ \/ ret = "INVALID" /\ Faults
                   \/ ret = "NO_PERM" /\ c \notin Permitted
          /\ down' = IF cli[c] = "gone" THEN down
                     ELSE [down EXCEPT ![c] =
                             Append(@, [ret |-> ret, seq |-> 0, to |-> c])]
    /\ sel' = sel \ {NAMED}
    /\ backlog' = backlog \ {c}
    /\ closed' = [closed EXCEPT ![c] = TRUE]
    /\ up' = [up EXCEPT ![c] = NULL]
    /\ UNCHANGED <<clientVars, mpc, cur, daemon_run, sockVars, seqnum, regVars,
                   workVars, diskVars, fileVars, envVars, orig>>
    /\ NoteRace

\* ... or it becomes a client socket and the daemon's state becomes dirty, ...
MainAccept(c) ==
    /\ mpc = "scan" /\ NAMED \in sel /\ c \in backlog
    /\ ~ Full /\ c \in Permitted
    /\ sel' = sel \ {NAMED}
    /\ backlog' = backlog \ {c}
    /\ dirty' = TRUE
    /\ num_client_sockets' = num_client_sockets + 1
    /\ incoming' = incoming \cup {c}
    /\ sk' = [sk EXCEPT ![c] = "open"]
    /\ \E f \in 1 .. Cardinality(Conns) :
          LowestFreeFd(f) /\ fdOf' = [fdOf EXCEPT ![c] = f]
    /\ UNCHANGED <<clientVars, up, down, closed, mpc, cur, daemon_run, authed,
                   seqnum, regVars, workVars, allow, admin_down, fileVars,
                   envVars, orig>>
    /\ NoteRace

\* ... or accept() fails.
MainAcceptFails ==
    /\ Faults /\ mpc = "scan" /\ NAMED \in sel
    /\ sel' = sel \ {NAMED}
    /\ UNCHANGED <<clientVars, wireVars, mpc, cur, daemon_run, sockVars, seqnum,
                   regVars, workVars, diskVars, fileVars, envVars, orig>>
    /\ NoteRace

\* process_client_req reads a request; the cases of its switch follow.
MainRead(c, type) ==
    /\ mpc = "scan" /\ c \in sel
    /\ up[c] # NULL /\ up[c].type = type
    /\ sel' = sel \ {c}
    /\ up' = [up EXCEPT ![c] = NULL]
    /\ UNCHANGED <<clientVars, closed, backlog, daemon_run, incoming,
                   num_client_sockets, sk, fdOf, regVars, wpc, item, diskVars,
                   fileVars, envVars, orig>>
    /\ NoteRace

MainAuth(c) ==
    /\ MainRead(c, "AUTH")
    /\ send_response(c, IF authed[c] THEN "INVALID" ELSE "SUCCESS")
    /\ authed' = [authed EXCEPT ![c] = TRUE]
    /\ UNCHANGED <<mpc, cur, work_queue>>

\* Mutant: the main thread acknowledges what the worker will answer.
AnswerAndQueue(c) ==
    /\ MainRead(c, "SET")
    /\ work_queue' = Append(work_queue,
           [own |-> c, path |-> up[c].path, val |-> up[c].val, ts |-> 0])
    /\ send_response(c, "SUCCESS")
    /\ UNCHANGED <<mpc, cur, authed>>

\* A set request is queued for the worker, which answers it.
MainSet(c) ==
    /\ MainRead(c, "SET")
    /\ IF authed[c]
       THEN /\ work_queue' = Append(work_queue,
                  [own |-> c, path |-> up[c].path, val |-> up[c].val, ts |-> 0])
            /\ UNCHANGED <<down, seqnum>>
       ELSE send_response(c, "INVALID") /\ UNCHANGED work_queue
    /\ UNCHANGED <<mpc, cur, authed>>

\* pmlog_stderr_set_level refuses levels out of range.
MainLogLevel(c) ==
    /\ MainRead(c, "LOGLVL")
    /\ \E ret \in {"SUCCESS", "INVALID"} : send_response(c, ret)
    /\ UNCHANGED <<mpc, cur, authed, work_queue>>

\* debug_dump walks all tables before the answer goes out.
MainDump(c) ==
    /\ MainRead(c, "DUMP")
    /\ IF c \in Root
       THEN mpc' = "dump" /\ cur' = c /\ UNCHANGED <<down, seqnum>>
       ELSE send_response(c, "NO_PERM") /\ UNCHANGED <<mpc, cur>>
    /\ UNCHANGED <<authed, work_queue>>

MainDumped ==
    /\ mpc = "dump"
    /\ send_response(cur, "SUCCESS")
    /\ mpc' = "scan" /\ cur' = NULL
    /\ UNCHANGED <<clientVars, up, closed, backlog, sel, daemon_run, sockVars,
                   regVars, workVars, diskVars, fileVars, envVars, orig>>
    /\ NoteRace

MainBadRequest(c) ==
    /\ MainRead(c, "BAD")
    /\ send_response(c, "INVALID")
    /\ UNCHANGED <<mpc, cur, authed, work_queue>>

\* End-of-file, a short read or a read error: socket_destruct begins.
MainLose(c) ==
    /\ mpc = "scan" /\ c \in sel
    /\ up[c] = NULL \/ Faults
    /\ mpc' = "destruct" /\ cur' = c /\ sel' = sel \ {c}
    /\ UNCHANGED <<clientVars, wireVars, daemon_run, sockVars, seqnum, regVars,
                   workVars, diskVars, fileVars, envVars, orig>>
    /\ NoteRace

\* Mutant: the default is restored although other requests are in force.
RestoreDefault(p, gone, l) ==
    \E ok \in BOOLEAN : write_attr_value(p, EntryOf(l, NULL).val, ok)

\* Mutant: nothing is written back.
RestoreNothing(p, gone, l) == UNCHANGED fileVars

\* The value that now comes first in the list is written if it has less
\* priority than the request that is gone.
RestoreHead(p, gone, l) ==
    IF attr_value_comp(Attr[p], gone, l[1]) < 0
    THEN \E ok \in BOOLEAN : write_attr_value(p, l[1].val, ok)
    ELSE UNCHANGED fileVars

\* set_rollback for one path of my_changes.
MainRollback(p) ==
    /\ mpc \in {"destruct", "final"} /\ my_changes[cur][p] # NULL
    /\ \E l \in Updates(all_changes[p], set_remove(all_changes[p], cur)) :
          /\ l # <<>>
          /\ all_changes' = [all_changes EXCEPT ![p] = l]
          /\ RestoreHead(p, my_changes[cur][p], l)
    /\ my_changes' = [my_changes EXCEPT ![cur][p] = NULL]
    /\ UNCHANGED <<clientVars, wireVars, mainVars, sockVars, seqnum, def_values,
                   clock, workVars, diskVars, envVars, orig>>
    /\ NoteRace

\* The dirty file after one of n clients has left: only the last one takes
\* it away.
DirtyAfterClose(n) == dirty /\ n # 1

\* The end of socket_destruct, then close() and the bookkeeping of main():
\* with the last client gone the state is clean again.
MainFree ==
    /\ mpc = "destruct" /\ \A p \in Paths : my_changes[cur][p] = NULL
    /\ sk' = [sk EXCEPT ![cur] = "freed"]
    /\ closed' = [closed EXCEPT ![cur] = TRUE]
    /\ up' = [up EXCEPT ![cur] = NULL]
    /\ incoming' = incoming \ {cur}
    /\ num_client_sockets' = num_client_sockets - 1
    /\ dirty' = DirtyAfterClose(num_client_sockets)
    /\ mpc' = "scan" /\ cur' = NULL
    /\ UNCHANGED <<clientVars, down, backlog, sel, daemon_run, authed, fdOf, seqnum,
                   regVars, workVars, allow, admin_down, fileVars, envVars, orig>>
    /\ NoteRace

\* Mutant: the worker is joined without being woken up.
JoinUnawakened ==
    /\ mpc = "stop" /\ mpc' = "join"
    /\ UNCHANGED <<clientVars, wireVars, sel, cur, daemon_run, sockVars, seqnum,
                   regVars, workVars, diskVars, fileVars, envVars, orig>>
    /\ NoteRace

\* worker_stop pushes the empty item, ...
MainStop ==
    /\ mpc = "stop" /\ mpc' = "join"
    /\ work_queue' = Append(work_queue, StopItem)
    /\ UNCHANGED <<clientVars, wireVars, sel, cur, daemon_run, sockVars, seqnum,
                   regVars, wpc, item, diskVars, fileVars, envVars, orig>>
    /\ NoteRace

\* ... and joins the worker.
MainJoin ==
    /\ mpc = "join" /\ wpc = "done"
    /\ mpc' = "reset" /\ sel' = incoming
    /\ UNCHANGED <<clientVars, wireVars, cur, daemon_run, sockVars, seqnum,
                   regVars, workVars, diskVars, fileVars, envVars, orig>>
    /\ NoteRace

\* The loop that resets all attributes: socket_destruct and close for every
\* client socket.
MainReset(c) ==
    /\ mpc = "reset" /\ c \in sel
    /\ mpc' = "final" /\ cur' = c /\ sel' = sel \ {c}
    /\ UNCHANGED <<clientVars, wireVars, daemon_run, sockVars, seqnum, regVars,
                   workVars, diskVars, fileVars, envVars, orig>>
    /\ NoteRace

MainFinalFree ==
    /\ mpc = "final" /\ \A p \in Paths : my_changes[cur][p] = NULL
    /\ sk' = [sk EXCEPT ![cur] = "freed"]
    /\ closed' = [closed EXCEPT ![cur] = TRUE]
    /\ up' = [up EXCEPT ![cur] = NULL]
    /\ mpc' = "reset" /\ cur' = NULL
    /\ UNCHANGED <<clientVars, down, backlog, sel, daemon_run, incoming,
                   num_client_sockets, authed, fdOf, seqnum, regVars, workVars,
                   diskVars, fileVars, envVars, orig>>
    /\ NoteRace

\* The end of the process, whatever its cause: memory is gone, every
\* connection is closed, the files stay.
ProcessEnds(how) ==
    /\ mpc' = how /\ sel' = {} /\ cur' = NULL /\ daemon_run' = TRUE
    /\ incoming' = {} /\ num_client_sockets' = 0
    /\ sk' = [c \in Conns |-> "none"]
    /\ authed' = [c \in Conns |-> FALSE]
    /\ fdOf' = [c \in Conns |-> 0]
    /\ seqnum' = [c \in Conns |-> 0]
    /\ all_changes' = [p \in Paths |-> <<>>]
    /\ my_changes' = [c \in Conns |-> [p \in Paths |-> NULL]]
    /\ def_values' = [p \in Paths |-> NULL]
    /\ clock' = 0
    /\ wpc' = "none" /\ item' = StopItem /\ work_queue' = <<>>
    /\ up' = [c \in Conns |-> NULL]
    /\ closed' = [c \in Conns |-> closed[c] \/ cli[c] # "new"]
    /\ backlog' = {}
    /\ UNCHANGED <<clientVars, down, diskVars, fileVars, orig>>
    /\ NoteRace

\* named_socket_destruct and return from main().
MainExit ==
    /\ mpc = "reset" /\ sel = {}
    /\ ProcessEnds("exited")
    /\ UNCHANGED envVars

MainStep ==
    \/ MainBoot \/ MainCheck \/ MainEnterSelect \/ MainSelect \/ MainScanned
    \/ MainAcceptFails \/ MainDumped
    \/ \E c \in Conns :
          \/ MainRefuse(c) \/ MainAccept(c)
          \/ MainAuth(c) \/ MainSet(c) \/ MainLogLevel(c) \/ MainDump(c)
          \/ MainBadRequest(c) \/ MainLose(c) \/ MainReset(c)
    \/ \E p \in Paths : MainRollback(p)
    \/ MainFree \/ MainStop \/ MainJoin \/ MainFinalFree \/ MainExit

-----------------------------------------------------------------------------
(* The worker thread                                                       *)

\* while (daemon_run)
WorkerLoop ==
    /\ wpc = "loop"
    /\ wpc' = IF daemon_run THEN "pop" ELSE "done"
    /\ UNCHANGED <<clientVars, wireVars, mainVars, sockVars, seqnum, regVars,
                   item, work_queue, diskVars, fileVars, envVars, orig>>
    /\ NoteRace

\* g_async_queue_pop; an item without a socket only wakes the worker up.
WorkerPop ==
    /\ wpc = "pop" /\ work_queue # <<>>
    /\ item' = Head(work_queue)
    /\ work_queue' = Tail(work_queue)
    /\ wpc' = IF item'.own = NULL THEN "loop" ELSE "def"
    /\ UNCHANGED <<clientVars, wireVars, mainVars, sockVars, seqnum, regVars,
                   diskVars, fileVars, envVars, orig>>
    /\ NoteRace

HeadIs(l, o) == l # <<>> /\ l[1].own = o

\* worker_process_item, first part.  The default of the path is known and the
\* client does not change it, ...
WorkerDefaultKept ==
    /\ wpc = "def" /\ wpc' = "old"
    /\ def_values[item.path] # NULL /\ ~ is_persistent(item.own)
    /\ UNCHANGED <<clientVars, wireVars, mainVars, sockVars, seqnum, regVars,
                   item, work_queue, diskVars, fileVars, envVars, orig>>
    /\ NoteRace

\* ... or it is entered: the value in the file on the first set of the path,
\* the requested one when a resource manager run by root asks, ...
WorkerDefault ==
    LET p       == item.path
        old     == all_changes[p]
        persist == is_persistent(item.own)
    IN  /\ wpc = "def" /\ wpc' = "old"
        /\ def_values[p] = NULL \/ persist
        /\ \E t \in Tick(p) :
             LET d    == [own |-> NULL,
                          val |-> IF persist THEN item.val ELSE read_attr_value(p),
                          ts  |-> IF Attr[p] = "GOV" THEN t ELSE 0]
                 kept == IF def_values[p] = NULL THEN old ELSE set_remove(old, NULL)
             IN  /\ clock' = t
                 /\ def_values' = [def_values EXCEPT ![p] = d]
                 /\ \E l \in Updates(old, set_insert(p, kept, d)) :
                       all_changes' = [all_changes EXCEPT ![p] = l]
        /\ orig' = IF persist THEN [orig EXCEPT ![p] = item.val] ELSE orig
        /\ displaced' = IF HeadIs(old, NULL) THEN displaced \cup {p} ELSE displaced
        /\ UNCHANGED <<clientVars, wireVars, mainVars, sockVars, seqnum, my_changes,
                       item, work_queue, diskVars, file, unwritten, envVars>>
        /\ NoteRace

\* ... or the file cannot be read and the request is answered and dropped.
WorkerDefaultFails ==
    /\ Faults /\ wpc = "def" /\ wpc' = "loop"
    /\ def_values[item.path] = NULL /\ ~ is_persistent(item.own)
    /\ send_response(item.own, "FAILURE")
    /\ UNCHANGED <<clientVars, up, closed, backlog, mainVars, sockVars, regVars,
                   item, work_queue, diskVars, fileVars, envVars, orig>>
    /\ NoteRace

\* Second part: the request replaces an earlier one of the same socket.
WorkerReplace ==
    LET p   == item.path
        c   == item.own
        old == all_changes[p]
    IN  /\ wpc = "old" /\ wpc' = "top"
        /\ \E t \in Tick(p) :
             LET e    == [own |-> c, val |-> item.val,
                          ts  |-> IF Attr[p] = "GOV" THEN t ELSE 0]
                 kept == IF my_changes[c][p] = NULL THEN old ELSE set_remove(old, c)
             IN  /\ clock' = t
                 /\ item' = [item EXCEPT !.ts = e.ts]
                 /\ my_changes' = [my_changes EXCEPT ![c][p] = e]
                 /\ \E l \in Updates(old, set_insert(p, kept, e)) :
                       all_changes' = [all_changes EXCEPT ![p] = l]
        /\ displaced' = IF my_changes[c][p] # NULL /\ HeadIs(old, c)
                        THEN displaced \cup {p} ELSE displaced
        /\ UNCHANGED <<clientVars, wireVars, mainVars, sockVars, seqnum, def_values,
                       work_queue, diskVars, file, unwritten, envVars, orig>>
        /\ NoteRace

\* Last part: if no request has priority the value is written; the answer
\* says whether a write failed.
WorkerApply ==
    LET p == item.path
        c == item.own
    IN  /\ wpc = "top" /\ wpc' = "loop"
        /\ all_changes[p] # <<>>
        /\ IF attr_value_comp(Attr[p], item, all_changes[p][1]) = 0
           THEN \E ok \in BOOLEAN :
                   /\ write_attr_value(p, item.val, ok)
                   /\ send_response(c, IF ok THEN "SUCCESS" ELSE "FAILURE")
           ELSE send_response(c, "SUCCESS") /\ UNCHANGED fileVars
        /\ UNCHANGED <<clientVars, up, closed, backlog, mainVars, sockVars, regVars,
                       item, work_queue, diskVars, envVars, orig>>
        /\ NoteRace

WorkerStep ==
    \/ WorkerLoop \/ WorkerPop \/ WorkerDefaultKept \/ WorkerDefault
    \/ WorkerDefaultFails \/ WorkerReplace \/ WorkerApply

-----------------------------------------------------------------------------
(* Signals, crashes and restarts                                           *)

\* stop_daemon, the handler of SIGINT and SIGTERM.  A blocked select() returns
\* with EINTR, and so does pause(), after which the daemon exits.
Signal ==
    /\ nsig < MaxSignals /\ nsig' = nsig + 1
    /\ \/ mpc = "paused" /\ ProcessEnds("exited")
       \/ /\ Alive
          /\ daemon_run' = FALSE
          /\ mpc' = IF mpc = "select" THEN "check" ELSE mpc
          /\ UNCHANGED <<clientVars, wireVars, sel, cur, sockVars, seqnum, regVars,
                         workVars, diskVars, fileVars, orig>>
          /\ NoteRace
    /\ UNCHANGED <<nboot, ncrash>>

\* SIGKILL, exit(1) on a failed allocation or power loss.
Crash ==
    /\ Alive /\ ncrash < MaxCrashes /\ ncrash' = ncrash + 1
    /\ ProcessEnds("dead")
    /\ UNCHANGED <<nsig, nboot>>

\* A segmentation fault: a race or a freed socket_info_t may end in one, the
\* head of an empty list does.
Segv ==
    /\ \/ Racing
       \/ wpc = "top" /\ all_changes[item.path] = <<>>
       \/ /\ mpc \in {"destruct", "final"}
          /\ \E p \in Paths : /\ my_changes[cur][p] # NULL
                              /\ set_remove(all_changes[p], cur) = <<>>
    /\ ProcessEnds("dead")
    /\ UNCHANGED envVars

\* systemd (Restart=always) or the operator starts the daemon again.
Restart ==
    /\ mpc \in {"exited", "dead"} /\ nboot < MaxBoots
    /\ mpc' = "boot" /\ nboot' = nboot + 1
    /\ UNCHANGED <<clientVars, wireVars, sel, cur, daemon_run, sockVars, seqnum,
                   regVars, workVars, diskVars, fileVars, nsig, ncrash, orig>>
    /\ NoteRace

\* The operator creates POWERAPID_ALLOW_RESTART_PATH; only a start reads it.
AllowRestart ==
    /\ ~ Alive /\ dirty /\ ~ allow /\ allow' = TRUE
    /\ UNCHANGED <<clientVars, wireVars, mainVars, sockVars, seqnum, regVars,
                   workVars, dirty, admin_down, fileVars, envVars, orig>>
    /\ NoteRace

EnvStep == Signal \/ Crash \/ Segv \/ Restart \/ AllowRestart

-----------------------------------------------------------------------------
Init ==
    /\ cli = [c \in Conns |-> "new"] /\ reqs = [c \in Conns |-> 0]
    /\ up = [c \in Conns |-> NULL] /\ down = [c \in Conns |-> <<>>]
    /\ closed = [c \in Conns |-> FALSE] /\ backlog = {}
    /\ mpc = "boot" /\ sel = {} /\ cur = NULL /\ daemon_run = TRUE
    /\ incoming = {} /\ num_client_sockets = 0
    /\ sk = [c \in Conns |-> "none"] /\ authed = [c \in Conns |-> FALSE]
    /\ fdOf = [c \in Conns |-> 0] /\ seqnum = [c \in Conns |-> 0]
    /\ all_changes = [p \in Paths |-> <<>>]
    /\ my_changes = [c \in Conns |-> [p \in Paths |-> NULL]]
    /\ def_values = [p \in Paths |-> NULL] /\ clock = 0
    /\ wpc = "none" /\ item = StopItem /\ work_queue = <<>>
    /\ file = InitFile /\ orig = InitFile
    /\ dirty = FALSE /\ allow = FALSE /\ admin_down = FALSE
    /\ nsig = 0 /\ nboot = 1 /\ ncrash = 0
    /\ raced = FALSE /\ displaced = {} /\ unwritten = {}

Next == MainStep \/ WorkerStep \/ ClientStep \/ EnvStep

Spec == Init /\ [][Next]_vars

\* Both threads are scheduled, and so is a client that can read.
FairSpec == /\ Spec
            /\ WF_vars(MainStep) /\ WF_vars(WorkerStep)
            /\ \A c \in Conns : WF_vars(ClientReceive(c) \/ ClientEof(c))

-----------------------------------------------------------------------------
(* Safety                                                                  *)

\* The worker is not in the middle of a request for p.
AtRest(p) == ~ (WorkerInLists /\ item.path = p)

\* Every change list is in the order of priority that attr_value_comp defines,
\* whatever requests, replacements and rollbacks led to it, as long as the
\* two threads have not raced.
Sorted == Unraced => \A p \in Paths : SortedList(Attr[p], all_changes[p])

\* The three tables agree: a list holds exactly the default of its path and
\* the requests in the my_changes of the open sockets, each once, and never
\* requests without a default (set_rollback reads the head of the list
\* without looking whether there is one).
Registered ==
    Unraced => \A p \in Paths :
        LET l == all_changes[p]
        IN  /\ \A i, j \in DOMAIN l : l[i].own = l[j].own => i = j
            /\ Holds(l, NULL) <=> def_values[p] # NULL
            /\ Holds(l, NULL) => EntryOf(l, NULL) = def_values[p]
            /\ \A c \in Conns :
                  /\ Holds(l, c) <=> my_changes[c][p] # NULL
                  /\ Holds(l, c) => /\ EntryOf(l, c) = my_changes[c][p]
                                    /\ sk[c] = "open"
                                    /\ Holds(l, NULL)

\* A limit that was granted is kept: unless a write failed, the value in the
\* file is never weaker than any request in force (nor than the default).
LimitsKept ==
    Unraced => \A p \in Paths \ unwritten :
        /\ AtRest(p) /\ Attr[p] # "GOV"
        => \A i \in DOMAIN all_changes[p] :
              attr_value_comp(Attr[p], [val |-> file[p]], all_changes[p][i]) <= 0

\* The dirty file tells a restarted daemon the truth: without it, every file
\* holds its persistent value, also after a crash at any moment.
CleanMeansPersistent ==
    Unraced /\ ~ dirty =>
        \A p \in Paths \ (unwritten \cup displaced) : file[p] = orig[p]

\* The count of clients is right, within MAX_CLIENT_SOCKETS, and the state is
\* dirty exactly while there are any.
ClientsCounted ==
    /\ num_client_sockets = Cardinality(incoming)
    /\ num_client_sockets <= MaxClientSockets
    /\ Alive => (dirty <=> incoming # {})

\* Where a request of c, or its answer, can be.
Pending(c) ==
    (IF up[c] # NULL THEN 1 ELSE 0)
    + Cardinality({i \in DOMAIN work_queue : work_queue[i].own = c})
    + (IF WorkerInLists /\ item.own = c THEN 1 ELSE 0)
    + (IF mpc = "dump" /\ cur = c THEN 1 ELSE 0)
    + Len(down[c])

\* No request is lost or answered twice: while the connection lasts, a waiting
\* client has exactly one request or answer on its way and an idle one none,
\* and the answer carries the number of the request.
OneAnswerEach ==
    Unraced => \A c \in Conns :
        ~ closed[c] =>
            /\ cli[c] = "waiting" => Pending(c) = 1
            /\ cli[c] \in {"new", "idle"} => Pending(c) = 0
            /\ \A i \in DOMAIN down[c] : /\ down[c][i].to = c
                                         /\ down[c][i].seq = reqs[c] - 1

\* "userspace governor has highest priority, others are based upon when they
\* were requested" (pwrapi_set.c): whatever was requested, replaced and rolled
\* back, the governor in the file is userspace if anyone asks for it, and the
\* one asked for last otherwise.
NewestGovernorWins ==
    Unraced => \A p \in Paths \ (unwritten \cup displaced) :
        LET l == all_changes[p]
        IN  AtRest(p) /\ l # <<>> /\ Attr[p] = "GOV" =>
              IF \E i \in DOMAIN l : l[i].val = USERSPACE
              THEN file[p] = USERSPACE
              ELSE \E i \in DOMAIN l : /\ file[p] = l[i].val
                                       /\ \A j \in DOMAIN l : l[j].ts <= l[i].ts

-----------------------------------------------------------------------------
(* Liveness                                                                *)

\* Every client that waits gets its answer or sees the connection closed, as
\* long as the daemon is not told to stop and its threads do not race.
AnsweredWhileRunning ==
    \A c \in Conns :
        cli[c] = "waiting" ~> (cli[c] # "waiting" \/ ~ daemon_run \/ ~ Unraced)

\* After SIGTERM the daemon ends, unless it sleeps in a select() that nobody
\* wakes: the join with the worker never blocks it (its threads have not raced).
StopsWhenTold ==
    (Alive /\ ~ daemon_run)
        ~> (~ Alive \/ (mpc = "select" /\ Ready = {}) \/ ~ Unraced)

-----------------------------------------------------------------------------
(* What comments in the code say and the code does not do                  *)

\* "Clean up and close all client sockets and thereby reset all attributes to
\* their persistent values" (powerapid.c).
ResetOnExit ==
    mpc = "exited" /\ Unraced /\ unwritten = {} => file = orig

\* "roll back non-persistent changes" (pwrapi_socket.c): with all sockets
\* closed and nothing left to do, every file has its persistent value.
RolledBackWhenAlone ==
    /\ mpc = "select" /\ incoming = {} /\ work_queue = <<>> /\ ~ WorkerInLists
    /\ unwritten = {} /\ displaced = {}
    => file = orig
=============================================================================
