------------------------------- MODULE Acceptor -------------------------------
(***************************************************************************)
(* mengSen/net: an Acceptor, its listening socket and its connections in   *)
(* one EventLoop, at the limit of descriptors.                             *)
(*                                                                         *)
(* The kernel has a queue of connections to accept and a table of          *)
(* descriptors, and gives the lowest free one.  Other threads open and     *)
(* close descriptors at any time, so that each system call of handleRead   *)
(* is a step.  A program accepts a connection into a tied channel, or      *)
(* closes it.  The errors of accept that end the process are left out.     *)
(***************************************************************************)
EXTENDS Channel, FiniteSetsExt

CONSTANTS
    Connections,    \* connections, and their channels
    acceptChannel_,
    MaxFd,          \* the limit of descriptors, besides the one of the listening socket
    MaxOpens        \* bound: descriptors that other threads open

ASSUME AcceptorAssumption ==
    /\ Channels = Connections \cup {acceptChannel_} /\ acceptChannel_ \notin Connections
    /\ Connections \cap {"free", "spare", "other"} = {}
    /\ MaxFd \in Nat \ {0} /\ MaxOpens \in Nat

VARIABLES
    table,      \* the table of descriptors: free, the spare one, of others, of a connection
    backlog,    \* the connections to accept
    coming,     \* those still to come
    idleFd_,
    at,         \* where handleRead is
    listening_,
    opens,      \* descriptors opened by others so far
    robbed      \* whether others opened one while the spare one was released

kernelVars   == <<table, backlog, coming>>
acceptorVars == <<idleFd_, at, listening_>>
vars == <<channelVars, kernelVars, acceptorVars, opens, robbed>>

ListenFd == 0
FreeFds  == {fd \in 1 .. MaxFd : table[fd] = "free"}

closed(fd) == IF fd = -1 THEN table ELSE [table EXCEPT ![fd] = "free"]

\* The sockets of owners that this step destroys are closed.
socketsClosed ==
    table' = [fd \in 1 .. MaxFd |->
        IF table[fd] \in Connections /\ chan'[table[fd]].life = "destroyed" THEN "free" ELSE table[fd]]

-----------------------------------------------------------------------------
(* The loop *)

pollReturns ==
    /\ \E ready \in SUBSET Channels :
          /\ poll(ready)
          /\ acceptChannel_ \in ready <=> backlog # <<>>
    /\ backlog # <<>> => unhandled'[acceptChannel_] = {"IN"}
    /\ UNCHANGED <<kernelVars, acceptorVars, opens, robbed>>

loopGoesOn ==
    /\ \/ \E c \in Channels : handleEvent(c)
       \/ handleReturns \/ allHandled \/ functor \/ functorsDone
       \/ callback(Connections)
    /\ socketsClosed
    /\ UNCHANGED <<backlog, coming, acceptorVars, opens, robbed>>

-----------------------------------------------------------------------------
(* Acceptor *)

listen ==
    /\ phase = "functors" /\ ~listening_ /\ Alive(acceptChannel_)
    /\ listening_' = TRUE
    /\ setEvents(acceptChannel_, {"IN"})
    /\ UNCHANGED <<loopState, functors, broken, kernelVars, idleFd_, at, opens, robbed>>

returns == callbacks' = Tail(callbacks) /\ UNCHANGED <<phase, activeChannels_, unhandled, current>>

\* newConnectionCallback_ makes a channel of the connection, or it is closed.
newConnection(c, fd) ==
    \/ /\ chan' = [chan EXCEPT ![c] = updated(constructed(fd, TRUE), {"IN"})]
       /\ Register(c, fd)
       /\ table' = [table EXCEPT ![fd] = c]
    \/ UNCHANGED <<chan, channels_, table>>

\* sockets::accept.  The kernel takes a descriptor before it looks at the backlog, which
\* a connection that was reset has left.
acceptErrno ==
    CASE FreeFds = {} -> "EMFILE"
      [] FreeFds # {} /\ backlog = <<>> -> "EAGAIN"
      [] OTHER -> "none"

accept ==
    /\ current = acceptChannel_ /\ callbacks # <<>> /\ at = "idle"
    /\ \/ /\ acceptErrno = "EAGAIN"
          /\ returns /\ UNCHANGED <<chan, channels_, table, backlog, at>>
       \/ /\ acceptErrno = "EMFILE"
          /\ at' = "EMFILE" /\ UNCHANGED <<chan, channels_, loopState, table, backlog>>
       \/ /\ acceptErrno = "none"
          /\ newConnection(Head(backlog), Min(FreeFds))
          /\ backlog' = Tail(backlog)
          /\ returns /\ UNCHANGED at
    /\ UNCHANGED <<functors, broken, coming, idleFd_, listening_, opens, robbed>>

\* The line logged may have left another errno.
errnoChanged ==
    /\ at = "EMFILE" /\ at' = "idle"
    /\ returns
    /\ UNCHANGED <<chan, channels_, functors, broken, kernelVars, idleFd_, listening_, opens, robbed>>

\* The variant: the spare descriptor is not closed before accept is tried again.
withoutSpare_kept == table

withoutSpare == closed(idleFd_)

releaseSpare ==
    /\ at = "EMFILE" /\ at' = "released"
    /\ table' = withoutSpare
    /\ UNCHANGED <<channelVars, backlog, coming, idleFd_, listening_, opens, robbed>>

\* The variant: what accept returns is looked at only when it is a descriptor.
accepted_checked(fd) == IF fd = -1 THEN idleFd_ ELSE fd

\* What accept returns is the new idleFd_.
accepted(fd) == fd

acceptAgain ==
    /\ at = "released" /\ at' = "accepted"
    /\ IF acceptErrno # "none"
       THEN idleFd_' = accepted(-1) /\ UNCHANGED <<table, backlog>>
       ELSE /\ idleFd_' = accepted(Min(FreeFds))
            /\ table' = [table EXCEPT ![Min(FreeFds)] = "spare"]
            /\ backlog' = Tail(backlog)
    /\ UNCHANGED <<channelVars, coming, listening_, opens, robbed>>

closeAccepted ==
    /\ at = "accepted" /\ at' = "closed"
    /\ table' = closed(idleFd_)
    /\ UNCHANGED <<channelVars, backlog, coming, idleFd_, listening_, opens, robbed>>

reopen ==
    /\ at = "closed" /\ at' = "idle"
    /\ idleFd_' = IF FreeFds = {} THEN -1 ELSE Min(FreeFds)
    /\ table' = IF idleFd_' = -1 THEN table ELSE [table EXCEPT ![idleFd_'] = "spare"]
    /\ returns
    /\ UNCHANGED <<chan, channels_, functors, broken, backlog, coming, listening_, opens, robbed>>

\* ~Acceptor, in a functor: the connections that were not accepted are reset.
destroy ==
    /\ phase = "functors" /\ remove(acceptChannel_)
    /\ table' = closed(idleFd_) /\ idleFd_' = -1
    /\ backlog' = <<>>
    /\ UNCHANGED <<loopState, functors, coming, at, listening_, opens, robbed>>

acceptorGoesOn == accept \/ errnoChanged \/ releaseSpare \/ acceptAgain \/ closeAccepted \/ reopen

-----------------------------------------------------------------------------
(* Clients and other threads *)

connect ==
    /\ listening_ /\ Alive(acceptChannel_)
    /\ \E c \in coming : backlog' = Append(backlog, c) /\ coming' = coming \ {c}
    /\ UNCHANGED <<channelVars, table, acceptorVars, opens, robbed>>

reset ==
    /\ backlog # <<>> /\ backlog' = Tail(backlog)
    /\ UNCHANGED <<channelVars, table, coming, acceptorVars, opens, robbed>>

spareReleased == at \notin {"idle", "EMFILE"} /\ \A fd \in 1 .. MaxFd : table[fd] # "spare"

otherOpens ==
    /\ opens < MaxOpens /\ FreeFds # {}
    /\ opens' = opens + 1
    /\ table' = [table EXCEPT ![Min(FreeFds)] = "other"]
    /\ robbed' = (robbed \/ spareReleased)
    /\ UNCHANGED <<channelVars, backlog, coming, acceptorVars>>

otherCloses ==
    /\ \E fd \in 1 .. MaxFd : table[fd] = "other" /\ table' = closed(fd)
    /\ UNCHANGED <<channelVars, backlog, coming, acceptorVars, opens, robbed>>

-----------------------------------------------------------------------------
Init ==
    /\ chan = [c \in Channels |->
         IF c = acceptChannel_ THEN constructed(ListenFd, FALSE) ELSE NewChannel]
    /\ channels_ = <<>>
    /\ phase = "functors" /\ activeChannels_ = {} /\ unhandled = <<>>
    /\ current = NoChannel /\ callbacks = <<>> /\ functors = <<>> /\ broken = {}
    /\ table = [fd \in 1 .. MaxFd |-> IF fd = 1 THEN "spare" ELSE "free"]
    /\ backlog = <<>> /\ coming = Connections
    /\ idleFd_ = 1 /\ at = "idle" /\ listening_ = FALSE
    /\ opens = 0 /\ robbed = FALSE

loopThread == pollReturns \/ loopGoesOn \/ acceptorGoesOn

Next == loopThread \/ listen \/ destroy \/ connect \/ reset \/ otherOpens \/ otherCloses

\* The loop runs, and not every line that it logs leaves another errno.
Fairness == WF_vars(loopThread) /\ SF_vars(releaseSpare)

Spec == Init /\ [][Next]_vars /\ Fairness

-----------------------------------------------------------------------------
(* Properties *)

\* Acceptor.cpp:67-70: the spare descriptor is the Acceptor's, whatever others open between
\* its system calls, and it holds no other: a close of idleFd_ closes nothing of theirs.
SpareIsOwn ==
    {fd \in 1 .. MaxFd : table[fd] = "spare"} =
        IF at \in {"released", "closed"} THEN {} ELSE {idleFd_} \ {-1}

\* Acceptor.cpp:63-71, the special problem of accept()ing when you can't: also at the limit
\* of descriptors a connection does not stay in the backlog, which the level-triggered
\* Poller would report for ever, unless others took the spare descriptor in its absence.
BacklogDrains ==
    \A c \in Connections :
        (\E i \in DOMAIN backlog : backlog[i] = c) ~> (robbed \/ \A i \in DOMAIN backlog : backlog[i] # c)

=============================================================================
