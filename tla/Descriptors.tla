---------------------------- MODULE Descriptors ----------------------------
(***************************************************************************)
(* components/dfs/src/dfs.c and open, close, read of dfs_posix.c: the      *)
(* table of file descriptors and the references that keep a struct dfs_fd  *)
(* while calls use it.  The mutex fslock makes fd_new, fd_get and fd_put a *)
(* step each; the operations of the file run between them, unlocked.       *)
(***************************************************************************)
EXTENDS Integers, FiniteSetsExt

CONSTANTS
    FdUser,      \* the threads that call
    FdStruct,    \* the places in memory of a struct dfs_fd
    FdMax,       \* DFS_FD_MAX
    FdStep,      \* by how many entries the table grows
    NoFd         \* the null pointer

ASSUME FdAssumption ==
    /\ FdMax \in Nat \ {0} /\ FdStep \in Nat \ {0}
    /\ NoFd \notin FdStruct /\ IsFiniteSet(FdUser)

\* fdt.maxfd, fdt.fds    _fdtab
\* fdt.ref[d]            d->ref_count
\* fdt.open              the structs whose file has been opened and not closed
\* fdt.owned             the descriptors that open has returned and nobody has
\*                       closed: a program closes each once
\* fdcall[t]             where thread t is, its descriptor and its struct
VARIABLES fdt, fdcall

InNoCall == [at |-> "user", fd |-> 0, d |-> NoFd]

FdInit ==
    /\ fdt = [maxfd |-> 0, fds |-> [i \in 0..FdMax - 1 |-> NoFd],
              ref |-> [d \in FdStruct |-> 0], open |-> {}, owned |-> {}]
    /\ fdcall = [t \in FdUser |-> InNoCall]

InFdTable == {fdt.fds[i] : i \in 0..FdMax - 1} \ {NoFd}

-----------------------------------------------------------------------------
(* dfs.c                                                                   *)

\* fd_alloc: the first entry that is empty or without references, or maxfd
FirstFd ==
    Min({i \in 0..fdt.maxfd : i = fdt.maxfd \/ fdt.fds[i] = NoFd \/ fdt.ref[fdt.fds[i]] = 0})

GrownTo ==
    IF FirstFd < fdt.maxfd THEN fdt.maxfd
    ELSE IF fdt.maxfd + FdStep > FdMax THEN FdMax ELSE fdt.maxfd + FdStep

\* fd_new, called by open
FdNew(t) ==
    LET new(d) == [fdt EXCEPT !.maxfd = GrownTo, !.fds[FirstFd] = d, !.ref[d] = 1]
    IN  /\ fdcall[t].at = "user" /\ FirstFd < GrownTo
        /\ IF fdt.fds[FirstFd] = NoFd THEN \E d \in FdStruct \ InFdTable : fdt' = new(d)
           ELSE fdt' = new(fdt.fds[FirstFd])
        /\ fdcall' = [fdcall EXCEPT ![t] = [at |-> "open", fd |-> FirstFd, d |-> NoFd]]

\* the table has grown, and there is no memory for the struct
FdNewFails(t) ==
    /\ fdcall[t].at = "user" /\ fdt.maxfd < GrownTo
    /\ fdt' = [fdt EXCEPT !.maxfd = GrownTo] /\ UNCHANGED fdcall

\* fd_get of descriptor fd in table f, from which the call goes on at label
\* next; with nothing behind the descriptor it ends
FdGet(t, f, fd, next) ==
    LET d == f.fds[fd] IN
    /\ fd < f.maxfd
    /\ fdt' = IF d = NoFd THEN f ELSE [f EXCEPT !.ref[d] = @ + 1]
    /\ fdcall' = [fdcall EXCEPT ![t] = IF d = NoFd THEN InNoCall
                                       ELSE [at |-> next, fd |-> fd, d |-> d]]

\* fd_put: the last reference frees the struct
FdPut(t, next) ==
    LET d == fdcall[t].d IN
    /\ fdt' = [fdt EXCEPT !.ref[d] = @ - 1,
                          !.fds = [i \in DOMAIN @ |->
                                     IF @[i] = d /\ fdt.ref[d] = 1 THEN NoFd ELSE @[i]]]
    /\ fdcall' = [fdcall EXCEPT ![t] = IF next = "user" THEN InNoCall ELSE [@ EXCEPT !.at = next]]

-----------------------------------------------------------------------------
(* dfs_posix.c and dfs_file.c                                              *)

OpenGet(t) == fdcall[t].at = "open" /\ FdGet(t, fdt, fdcall[t].fd, "opening")

\* mutant: a failed open keeps the reference of fd_new
AfterOpen_Leaks(opened) == "put"

\* a failed open gives back the reference of fd_new too
AfterOpen(opened) == IF opened THEN "put" ELSE "put_twice"

\* dfs_file_open
FileOpen(t) ==
    /\ fdcall[t].at = "opening"
    /\ \E opened \in BOOLEAN :
          /\ fdt' = IF opened THEN [fdt EXCEPT !.open = @ \cup {fdcall[t].d},
                                               !.owned = @ \cup {fdcall[t].fd}]
                    ELSE fdt
          /\ fdcall' = [fdcall EXCEPT ![t].at = AfterOpen(opened)]

CloseGet(t) ==
    \E fd \in fdt.owned :
        fdcall[t].at = "user" /\ FdGet(t, [fdt EXCEPT !.owned = @ \ {fd}], fd, "closing")

\* dfs_file_close; if it fails the descriptor stays
FileClose(t) ==
    /\ fdcall[t].at = "closing"
    /\ \/ /\ fdt' = [fdt EXCEPT !.open = @ \ {fdcall[t].d}]
          /\ fdcall' = [fdcall EXCEPT ![t].at = "put_twice"]
       \/ /\ fdt' = [fdt EXCEPT !.owned = @ \cup {fdcall[t].fd}]
          /\ fdcall' = [fdcall EXCEPT ![t].at = "put"]

\* read, write and the other calls on a descriptor, which may have been closed
UseGet(t, fd) == fdcall[t].at = "user" /\ FdGet(t, fdt, fd, "using")

\* the references go back one by one
PutBack(t) ==
    \/ fdcall[t].at \in {"using", "put"} /\ FdPut(t, "user")
    \/ fdcall[t].at = "put_twice" /\ FdPut(t, "put")

DescriptorsNext ==
    \E t \in FdUser :
        \/ FdNew(t) \/ FdNewFails(t) \/ OpenGet(t) \/ FileOpen(t)
        \/ CloseGet(t) \/ FileClose(t) \/ PutBack(t)
        \/ \E fd \in 0..FdMax - 1 : UseGet(t, fd)

DescriptorsSpec == FdInit /\ [][DescriptorsNext]_<<fdt, fdcall>>

-----------------------------------------------------------------------------

\* how many references to struct d thread t has and will give back
RefsOf(t, d) ==
    LET c == fdcall[t] IN
    IF c.at = "open" /\ fdt.fds[c.fd] = d THEN 1
    ELSE IF c.d # d THEN 0
    ELSE IF c.at \in {"opening", "closing", "put_twice"} THEN 2 ELSE 1

\* those of the calls, and of the descriptors a program has open
CallRefs(d)  == {r \in FdUser \X {1, 2} : r[2] <= RefsOf(r[1], d)}
OwnedRefs(d) == {fd \in fdt.owned : fdt.fds[fd] = d}
References(d) == Cardinality(CallRefs(d)) + Cardinality(OwnedRefs(d))

\* A struct dfs_fd is in the table exactly while an open descriptor or a call
\* under way has a reference to it, and ref_count is their number: no call uses
\* a struct that another one has freed, none is kept for ever, no two opens are
\* given one descriptor, and a file is closed only while it is open.
DescriptorsAgree ==
    /\ \A d \in FdStruct :
          /\ d \in InFdTable <=> References(d) > 0
          /\ d \in InFdTable => fdt.ref[d] = References(d)
    /\ \A i, j \in 0..FdMax - 1 : fdt.fds[i] = fdt.fds[j] /\ fdt.fds[i] # NoFd => i = j
    /\ \A fd \in fdt.owned : fdt.fds[fd] \in fdt.open
    /\ \A t \in FdUser : fdcall[t].at = "closing" => fdcall[t].d \in fdt.open

\* What the code does not keep: a reference does not keep the file open.  A call
\* that has its struct when another thread closes the file, or gets it between
\* the close and the last fd_put, works on a closed file.
FdUsesOpenFile == \A t \in FdUser : fdcall[t].at = "using" => fdcall[t].d \in fdt.open
=============================================================================
