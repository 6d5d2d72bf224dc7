------------------------------- MODULE Channel -------------------------------
(***************************************************************************)
(* mengSen/net: the channels of an EventLoop, from the Poller's report of  *)
(* their events to the callbacks, and what the loop thread may do to them  *)
(* meanwhile.                                                              *)
(*                                                                         *)
(* A channel is a member of an owner that shared_ptrs keep alive: the one  *)
(* of the program, until it drops it, and the guard of handleEvent when    *)
(* the channel is tied.  The Poller, of which there is only the interface, *)
(* maps descriptors to channels.  A false assertion, or the use of a       *)
(* channel that is destroyed, is noted in broken.  PRI and RDHUP go with   *)
(* IN.  A definition named <x>_<variant> is x with a plausible slip in it. *)
(***************************************************************************)
EXTENDS Integers, Sequences, FiniteSets, Functions

CONSTANTS Channels

NoChannel == "nullptr"

ASSUME ChannelsAssumption == NoChannel \notin Channels

VARIABLES
    chan,       \* each channel: its members, whether it is there, whether it is kept
    channels_,  \* the Poller's map from descriptors to channels
    phase,      \* what the loop does: poll, handle events, call functors
    activeChannels_,
    unhandled,  \* the revents_ of those of them whose turn is still to come
    current,    \* currentActiveChannel_
    callbacks,  \* what handleEventWithGuard has still to call
    functors,   \* channels that queued functors are to remove
    broken      \* the assertions that failed

loopState   == <<phase, activeChannels_, unhandled, current, callbacks>>
channelVars == <<chan, channels_, loopState, functors, broken>>

NewChannel == [life |-> "none", fd |-> -1, events |-> {}, added |-> FALSE, handling |-> FALSE,
               tied |-> FALSE, kept |-> FALSE]

Alive(c) == chan[c].life = "alive"

Assert(holds, line) == broken' = IF holds THEN broken ELSE broken \cup {line}

-----------------------------------------------------------------------------
(* Channel::update and remove, through EventLoop, to the Poller *)

constructed(fd, isTied) ==
    [NewChannel EXCEPT !.life = "alive", !.fd = fd, !.kept = TRUE, !.tied = isTied]

updated(ch, events) == [ch EXCEPT !.events = events, !.added = TRUE]

Register(c, fd) == channels_' = [f \in DOMAIN channels_ \cup {fd} |-> IF f = fd THEN c ELSE channels_[f]]

unregistered(fd) == Restrict(channels_, DOMAIN channels_ \ {fd})

\* A channel may be removed while events are handled if it is the one being handled, or
\* has no event among those of this poll.
mayRemove(c) == phase = "handle" => current = c \/ c \notin activeChannels_

-----------------------------------------------------------------------------
(* EventLoop::loop *)

\* The Poller reports some channels with events they care about, or that the kernel
\* always reports, and returns no channel when it is woken up or after a while.
poll(ready) ==
    /\ phase = "poll"
    /\ ready \subseteq {channels_[fd] : fd \in DOMAIN channels_}
    /\ activeChannels_' = ready
    /\ unhandled' \in [ready -> SUBSET {"HUP", "ERR", "IN", "OUT"} \ {{}}]
    /\ \A c \in ready :
          chan[c].events # {} /\ unhandled'[c] \subseteq chan[c].events \cup {"HUP", "ERR"}
    /\ phase' = "handle"
    /\ UNCHANGED <<chan, channels_, current, callbacks, functors, broken>>

-----------------------------------------------------------------------------
(* Channel::handleEvent *)

\* The callbacks in the order of the code.
called(revents) ==
    SelectSeq(<<"close", "error", "read", "write">>, LAMBDA cb :
        \/ cb = "close" /\ "HUP" \in revents /\ "IN" \notin revents
        \/ cb = "error" /\ "ERR" \in revents
        \/ cb = "read"  /\ "IN" \in revents
        \/ cb = "write" /\ "OUT" \in revents)

handleEvent(c) ==
    /\ phase = "handle" /\ current = NoChannel /\ c \in DOMAIN unhandled
    /\ Assert(Alive(c), "handleEvent of a destroyed channel")
    /\ current' = c /\ unhandled' = Restrict(unhandled, DOMAIN unhandled \ {c})
    /\ callbacks' = called(unhandled[c])
    /\ chan' = [chan EXCEPT ![c].handling = TRUE]
    /\ UNCHANGED <<channels_, phase, activeChannels_, functors>>

\* The variant: handleEvent takes no shared_ptr of the owner.
guards_not(c) == FALSE

\* The guard that handleEvent holds until it returns.
guards(c) == current = c /\ chan[c].tied

\* ~Channel when nothing keeps its owner any more, with its assertions.
dropped(ch, isGuarded) ==
    IF ch.kept \/ isGuarded \/ ch.life # "alive" THEN ch ELSE [NewChannel EXCEPT !.life = "destroyed"]

destructs(ch, isGuarded, registered) ==
    dropped(ch, isGuarded).life # ch.life => ~ch.handling /\ ~ch.added /\ ~registered

handleReturns ==
    /\ current # NoChannel /\ callbacks = <<>>
    /\ LET ch == [chan[current] EXCEPT !.handling = FALSE]
           registered == \E fd \in DOMAIN channels_ : channels_[fd] = current
       IN  /\ chan' = [chan EXCEPT ![current] = dropped(ch, FALSE)]
           /\ Assert(destructs(ch, FALSE, registered), "~Channel")
    /\ current' = NoChannel
    /\ UNCHANGED <<channels_, phase, activeChannels_, unhandled, callbacks, functors>>

allHandled ==
    /\ phase = "handle" /\ current = NoChannel /\ DOMAIN unhandled = {}
    /\ phase' = "functors" /\ activeChannels_' = {}
    /\ UNCHANGED <<chan, channels_, unhandled, current, callbacks, functors, broken>>

-----------------------------------------------------------------------------
(* What the callbacks and functors of a program do to its channels *)

\* enableReading, disableWriting...
setEvents(c, events) ==
    /\ Alive(c) /\ events # chan[c].events
    /\ chan' = [chan EXCEPT ![c] = updated(@, events)]
    /\ Register(c, chan[c].fd)

\* disableAll, remove, and the program drops its shared_ptr of the owner.
remove(c) ==
    /\ Alive(c) /\ chan[c].kept
    /\ channels_' = unregistered(chan[c].fd)
    /\ LET ch == [updated(chan[c], {}) EXCEPT !.added = FALSE, !.kept = FALSE]
           registered == \E fd \in DOMAIN channels_' : channels_'[fd] = c
       IN  /\ chan' = [chan EXCEPT ![c] = dropped(ch, guards(c))]
           /\ Assert(mayRemove(c) /\ destructs(ch, guards(c), registered), "remove")

\* A functor that is to do the same.
removeLater(c) ==
    /\ Alive(c) /\ \A i \in DOMAIN functors : functors[i] # c
    /\ functors' = Append(functors, c)

\* A callback of the program does one of these.  It removes another channel at once only
\* when that one has no event of this poll.
callback(own) ==
    /\ current \in own /\ callbacks # <<>>
    /\ \/ UNCHANGED <<chan, channels_, functors, broken>>
       \/ /\ chan[current].added
          /\ \E events \in SUBSET {"IN", "OUT"} : setEvents(current, events)
          /\ UNCHANGED <<functors, broken>>
       \/ /\ \E c \in own : remove(c) /\ (c = current \/ c \notin activeChannels_)
          /\ UNCHANGED functors
       \/ /\ \E c \in own : removeLater(c)
          /\ UNCHANGED <<chan, channels_, broken>>
    /\ callbacks' = Tail(callbacks)
    /\ UNCHANGED <<phase, activeChannels_, unhandled, current>>

\* A functor finds its channel still there, or removed since.
functor ==
    /\ phase = "functors" /\ functors # <<>>
    /\ functors' = Tail(functors)
    /\ IF Alive(Head(functors)) /\ chan[Head(functors)].kept
       THEN remove(Head(functors))
       ELSE UNCHANGED <<chan, channels_, broken>>
    /\ UNCHANGED loopState

functorsDone ==
    /\ phase = "functors" /\ functors = <<>>
    /\ phase' = "poll"
    /\ UNCHANGED <<chan, channels_, activeChannels_, unhandled, current, callbacks, functors, broken>>

-----------------------------------------------------------------------------
(* Properties *)

\* Channel.cpp:38-42, 57 and EventLoop.cpp:191: no assertion fails, and no event is handled
\* for a channel that is destroyed, as long as the program removes another channel than the
\* one it is called back for only when that one has no event of this poll, and adds none
\* that it has removed.  The owner of a channel may be dropped while its own callback runs:
\* the tie keeps it until the event is handled.
AssertionsHold == broken = {}

=============================================================================
