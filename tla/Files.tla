------------------------------- MODULE Files -------------------------------
(***************************************************************************)
(* The HAL's device list and file descriptors, from reset on: alt_main()   *)
(* calls alt_sys_init(), which registers the drivers, then                 *)
(* alt_io_redirect(), then main(), which opens, locks and closes devices.  *)
(* Two of the repository's programs call alt_sys_init() once more at the   *)
(* top of main().  One thread runs all of it, and no handler touches this  *)
(* state; only the search of the device list is split into steps, because  *)
(* it is the only part that may not end.                                   *)
(*                                                                         *)
(* A device stands for its name too.  Nothing in the repository registers  *)
(* a file system, so that a name no device has is ENODEV.                  *)
(***************************************************************************)
EXTENDS Llist, Sequences

CONSTANTS
    Registered,     \* the devices alt_sys_init() registers, in order
    Stdio,          \* ALT_STDOUT, ALT_STDIN and ALT_STDERR of system.h
    NullDev,        \* alt_dev_null
    DevList,        \* alt_dev_list, the head of the list
    NoDevice,       \* NULL
    Unknown,        \* a name no device has
    MaxFds,         \* ALT_MAX_FD
    MainReinits,    \* main() calls alt_sys_init() again
    ProgramAccess   \* the access modes the program opens devices with

ASSUME FilesAssumption ==
    /\ Registered \in Seq(STRING) /\ MainReinits \in BOOLEAN
    /\ MaxFds \in Nat \ 0 .. 2 /\ ProgramAccess \subseteq {"O_RDONLY", "O_WRONLY", "O_RDWR"}
    /\ \E k \in DOMAIN Registered : Registered[k] = Stdio
    /\ \A j, k \in DOMAIN Registered : Registered[j] = Registered[k] => j = k
    /\ \A k \in DOMAIN Registered : Registered[k] \notin {NullDev, DevList, NoDevice, Unknown}
    /\ NullDev \notin {DevList, NoDevice, Unknown}
    /\ DevList \notin {NoDevice, Unknown} /\ NoDevice # Unknown

Drivers == {Registered[k] : k \in DOMAIN Registered}
Devices == Drivers \cup {NullDev}
Names == Devices \cup {Unknown}
Nodes == Devices \cup {DevList}

Fds == 0 .. MaxFds - 1
StdFds == 0 .. 2
Access == {"O_RDONLY", "O_WRONLY", "O_RDWR"}
Flags == {"ALT_FD_EXCL", "ALT_FD_DEV", "O_NONBLOCK"}

VARIABLES
    links,          \* next and previous of every node of the device list
    fd,             \* alt_fd_list
    alt_max_fd,
    stage,          \* how far alt_main() has come
    todo,           \* devices to register, or streams to redirect
    call,           \* the arguments of the open() in progress
    cursor,         \* alt_find_dev()'s "next"
    rval            \* what the last call returned, and errno

vars == <<links, fd, alt_max_fd, stage, todo, call, cursor, rval>>

FreeFd == [dev |-> NoDevice, access |-> "O_RDONLY", flags |-> {}]
NoCall == [name |-> NoDevice, access |-> "O_RDONLY", flags |-> {}]
Ok(i) == [index |-> i, errno |-> "none"]
Fails(e) == [index |-> -1, errno |-> e]

Init == /\ links = [n \in Nodes |->
                      IF n \in Drivers THEN [next |-> NoDevice, previous |-> NoDevice]
                      ELSE IF n = DevList THEN Alone(NullDev) ELSE Alone(DevList)]
        /\ fd = [i \in Fds |-> IF i \in StdFds THEN [FreeFd EXCEPT !.dev = NullDev] ELSE FreeFd]
        /\ alt_max_fd = -1
        /\ stage = "alt_sys_init" /\ todo = Registered
        /\ call = NoCall /\ cursor = DevList /\ rval = Ok(0)

-----------------------------------------------------------------------------
(***************************************************************************)
(* Boot.                                                                   *)
(***************************************************************************)
alt_dev_reg(dev) == links' = alt_llist_insert(links, DevList, dev)

Streams == <<1, 0, 2>>
Redirected == IF MainReinits THEN "main_sys_init" ELSE "main"

alt_sys_init ==
    /\ stage \in {"alt_sys_init", "main_sys_init"}
    /\ alt_dev_reg(Head(todo))
    /\ IF Tail(todo) # <<>> THEN todo' = Tail(todo) /\ UNCHANGED stage
       ELSE IF stage = "alt_sys_init" THEN todo' = Streams /\ stage' = "alt_io_redirect"
       ELSE todo' = <<>> /\ stage' = "main"
    /\ UNCHANGED <<fd, alt_max_fd, call, cursor, rval>>

-----------------------------------------------------------------------------
(***************************************************************************)
(* The descriptor pool.                                                    *)
(***************************************************************************)
Allocated(table) == {i \in Fds : table[i].dev # NoDevice}
Lowest(S) == {i \in S : \A j \in S : i <= j}

RaisedMax(i) == IF i > alt_max_fd THEN i ELSE alt_max_fd

alt_release_fd(table, i) == IF i > 2 THEN [table EXCEPT ![i] = FreeFd] ELSE table

\* Mutant: the scan stops one short, as alt_fd_lock()'s does.
alt_file_locked_Short(table, max, i) ==
    \E j \in Fds : j < max /\ j # i /\ table[j].dev = table[i].dev /\ "ALT_FD_EXCL" \in table[j].flags

alt_file_locked(table, max, i) ==
    \E j \in Fds : j <= max /\ j # i /\ table[j].dev = table[i].dev /\ "ALT_FD_EXCL" \in table[j].flags

-----------------------------------------------------------------------------
(***************************************************************************)
(* open(): the search for the device, then everything else in one step.    *)
(***************************************************************************)
Open(name, access, flags) ==
    /\ call' = [name |-> name, access |-> access, flags |-> flags]
    /\ cursor' = links[DevList].next

alt_find_dev ==
    /\ call # NoCall /\ cursor \notin {DevList, call.name}
    /\ cursor' = links[cursor].next
    /\ UNCHANGED <<links, fd, alt_max_fd, stage, todo, call, rval>>

\* alt_open_fd(): the caller's descriptor takes over what open() returned.
alt_open_fd(table, stream, old) ==
    alt_release_fd([table EXCEPT ![stream] = table[old]], old)

\* open() returns to the program, or to alt_io_redirect().
Opened(table, result) ==
    /\ rval' = result /\ call' = NoCall /\ cursor' = DevList
    /\ IF stage = "main" THEN fd' = table /\ UNCHANGED <<stage, todo>>
       ELSE /\ fd' = IF result.index < 0 THEN table
                     ELSE alt_open_fd(table, Head(todo), result.index)
            /\ IF Tail(todo) # <<>> THEN todo' = Tail(todo) /\ UNCHANGED stage
               ELSE /\ stage' = Redirected
                    /\ todo' = IF MainReinits THEN Registered ELSE <<>>
    /\ UNCHANGED links

OpenUnknown == /\ call # NoCall /\ cursor = DevList
               /\ Opened(fd, Fails("ENODEV"))
               /\ UNCHANGED alt_max_fd

\* Mutant: a descriptor whose device turns out to be locked is kept.
Refused_Kept(table, i) == table

Refused(table, i) == alt_release_fd(table, i)

OpenFound ==
    /\ call # NoCall /\ cursor = call.name
    /\ \/ /\ Allocated(fd) = Fds
          /\ Opened(fd, Fails("EMFILE")) /\ UNCHANGED alt_max_fd
       \/ \E i \in Lowest(Fds \ Allocated(fd)) :
             LET max == RaisedMax(i)
                 table == [fd EXCEPT ![i] = [dev |-> call.name, access |-> call.access,
                                             flags |-> call.flags \cup {"ALT_FD_DEV"}]]
             IN /\ alt_max_fd' = max
                /\ IF alt_file_locked(table, max, i)
                   THEN Opened(Refused(table, i), Fails("EACCES"))
                   ELSE Opened(table, Ok(i))

\* alt_io_redirect() opens the device of the next stream.
alt_io_redirect ==
    /\ stage = "alt_io_redirect" /\ call = NoCall
    /\ Open(Stdio, IF Head(todo) = 0 THEN "O_RDONLY" ELSE "O_WRONLY", {})
    /\ UNCHANGED <<links, fd, alt_max_fd, stage, todo, rval>>

-----------------------------------------------------------------------------
(***************************************************************************)
(* The program's calls.  It uses descriptors that open() returned, and the *)
(* standard ones.                                                          *)
(***************************************************************************)
Idle == stage = "main" /\ call = NoCall

ProgramOpens ==
    /\ Idle
    /\ \E name \in Names, access \in ProgramAccess, flags \in SUBSET {"O_NONBLOCK"} :
          Open(name, access, flags)
    /\ UNCHANGED <<links, fd, alt_max_fd, stage, todo, rval>>

Returns(table, result) == /\ fd' = table /\ rval' = result
                          /\ UNCHANGED <<links, alt_max_fd, stage, todo, call, cursor>>

\* A driver that does not want to wait for its ring to drain says so, and
\* the descriptor is gone all the same.
alt_close(i) ==
    /\ Idle /\ fd[i].dev # NoDevice
    /\ \/ Returns(alt_release_fd(fd, i), Ok(0))
       \/ /\ "O_NONBLOCK" \in fd[i].flags /\ fd[i].dev # NullDev
          /\ Returns(alt_release_fd(fd, i), Fails("EWOULDBLOCK"))

\* Mutant: a grant without a look at the other descriptors.
Shared_Never(i) == FALSE

Shared(i) == \E j \in Fds : j < alt_max_fd /\ j # i /\ fd[j].dev = fd[i].dev

alt_fd_lock(i) ==
    IF Shared(i) THEN Returns(fd, Fails("EACCES"))
    ELSE Returns([fd EXCEPT ![i].flags = @ \cup {"ALT_FD_EXCL"}], Ok(0))

alt_fd_unlock(i) == Returns([fd EXCEPT ![i].flags = @ \ {"ALT_FD_EXCL"}], Ok(0))

\* A descriptor without ALT_FD_DEV passes the request to its device; none of
\* them knows these two.
alt_ioctl(i) ==
    /\ Idle /\ fd[i].dev # NoDevice
    /\ IF "ALT_FD_DEV" \in fd[i].flags THEN alt_fd_lock(i) \/ alt_fd_unlock(i)
       ELSE Returns(fd, Fails("ENOTTY"))

\* F_SETFL replaces the flags fcntl() may change, and no other.
alt_fcntl(i) ==
    /\ Idle /\ fd[i].dev # NoDevice
    /\ \E flags \in SUBSET {"O_NONBLOCK"} :
          Returns([fd EXCEPT ![i].flags = (@ \ {"O_NONBLOCK"}) \cup flags], Ok(0))

Next == \/ alt_sys_init \/ alt_io_redirect
        \/ alt_find_dev \/ OpenUnknown \/ OpenFound
        \/ ProgramOpens
        \/ \E i \in Fds : alt_close(i) \/ alt_ioctl(i) \/ alt_fcntl(i)

Spec == Init /\ [][Next]_vars

\* The processor runs: a call in progress goes on.
FairSpec == Spec /\ WF_vars(alt_find_dev \/ OpenUnknown \/ OpenFound)

-----------------------------------------------------------------------------
(***************************************************************************)
(* Properties.                                                             *)
(***************************************************************************)

\* Every variable has its type, and a free descriptor carries no flags that
\* alt_fd_lock() or open() could take for its next owner's.
FdType == [dev : Devices, access : Access, flags : SUBSET Flags] \cup {FreeFd}

CallType == [name : Names \cup {NoDevice}, access : Access, flags : SUBSET {"O_NONBLOCK"}]
Errno == {"none", "ENODEV", "EMFILE", "EACCES", "EWOULDBLOCK", "ENOTTY"}

TypeOK ==
    /\ links \in [Nodes -> [next : Nodes \cup {NoDevice}, previous : Nodes \cup {NoDevice}]]
    /\ fd \in [Fds -> FdType]
    /\ alt_max_fd \in -1 .. MaxFds - 1
    /\ stage \in {"alt_sys_init", "alt_io_redirect", "main_sys_init", "main"}
    /\ call \in CallType
    /\ cursor \in Nodes
    /\ rval \in [index : -1 .. MaxFds - 1, errno : Errno]

\* Every device registered so far can be found, and the walk of the list ends.
DevicesReachable ==
    /\ Circular(links, DevList)
    /\ Members(links, DevList) =
         IF stage = "alt_sys_init"
         THEN Devices \ {todo[k] : k \in DOMAIN todo} ELSE Devices

\* An open() that fails leaves the descriptor table as it found it.
FailedOpenLeavesTable ==
    [][call # NoCall /\ call' = NoCall /\ rval'.index < 0 => fd' = fd]_vars

\* Descriptors and TIOCEXCL implement the lock service of DeviceLocks: a lock is
\* refused while another descriptor refers to the device, unless that is the
\* topmost one; the device then has one holder, no descriptor comes to refer to
\* it meanwhile, and closing the holder's descriptor gives the lock back.
NoFd == -1
Holds(i) == "ALT_FD_EXCL" \in fd[i].flags
At == [i \in Fds |-> fd[i].dev]
Holder == [d \in Devices |-> IF \E i \in Fds : fd[i].dev = d /\ Holds(i)
                            THEN CHOOSE i \in Fds : fd[i].dev = d /\ Holds(i) ELSE NoFd]

Locks == INSTANCE DeviceLocks WITH at <- At, holder <- Holder

LocksRefined == Locks!Spec

\* At most one descriptor is marked as the exclusive user of a device.
OneHolder ==
    \A i, j \in Fds : i # j /\ fd[i].dev = fd[j].dev /\ Holds(i) => ~Holds(j)

\* What the comment of alt_fd_lock() says of a lock: it is granted if there are
\* no other open descriptors of the device, and keeps further ones away; so the
\* holder is alone with its device.  The code does not keep it: the scan ends
\* before alt_max_fd, and the topmost descriptor is overlooked.
HolderIsAlone ==
    \A i, j \in Fds : i # j /\ fd[i].dev = fd[j].dev => ~Holds(i)

\* Every open() returns: alt_find_dev() returns the device or NULL.
OpenReturns == (call # NoCall) ~> (call = NoCall)

-----------------------------------------------------------------------------
(***************************************************************************)
(* The inductive invariant behind OneHolder and LocksRefined.              *)
(***************************************************************************)

\* What is left to do belongs to the stage, and only two stages open.
StageInv ==
    /\ stage \in {"alt_sys_init", "main_sys_init"} => todo \in Seq(Drivers) /\ todo # <<>>
    /\ stage = "alt_io_redirect" => todo \in Seq(StdFds) /\ todo # <<>>
    /\ call # NoCall => stage \in {"alt_io_redirect", "main"} /\ call.name \in Names

\* A node on the list leads to nodes on the list.
OnList(n) == links[n].next # NoDevice /\ links[n].previous # NoDevice
LinksInv == /\ OnList(DevList) /\ OnList(cursor)
            /\ \A n \in Nodes : OnList(n) => OnList(links[n].next)

\* alt_max_fd covers whatever open() has touched.
MaxInv == /\ \A i \in Fds : "ALT_FD_DEV" \in fd[i].flags => i <= alt_max_fd
          /\ StdFds \subseteq Allocated(fd)

\* The other descriptors of a locked device lie above the one that locked
\* it: the scan of alt_fd_lock() can have missed the topmost one only.
LockInv == /\ \A i \in Fds : Holds(i) => stage = "main" /\ "ALT_FD_DEV" \in fd[i].flags
           /\ \A i, j \in Fds : i # j /\ fd[i].dev = fd[j].dev /\ Holds(i) => i < j

IInv == TypeOK /\ StageInv /\ LinksInv /\ MaxInv /\ LockInv
=============================================================================
