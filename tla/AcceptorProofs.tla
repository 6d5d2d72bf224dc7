---------------------------- MODULE AcceptorProofs ----------------------------
(***************************************************************************)
(* Theorems about the channels of a loop and its Acceptor, for any number  *)
(* of connections and descriptors: no assertion fails and no destroyed     *)
(* channel is used, and the spare descriptor is the Acceptor's own.        *)
(***************************************************************************)
EXTENDS Acceptor, SequenceTheorems, WellFoundedInduction, TLAPS

Members == [life : {"none", "alive", "destroyed"}, fd : {-1} \cup 0 .. MaxFd,
            events : SUBSET {"IN", "OUT"}, added : BOOLEAN, handling : BOOLEAN,
            tied : BOOLEAN, kept : BOOLEAN]

ChannelsTyped ==
    /\ chan \in [Channels -> Members]
    /\ \A c \in Channels : Alive(c) => chan[c].fd \in 0 .. MaxFd
    /\ DOMAIN channels_ \subseteq 0 .. MaxFd
    /\ \A fd \in DOMAIN channels_ : channels_[fd] \in Channels
    /\ phase \in {"poll", "handle", "functors"}
    /\ DOMAIN unhandled \subseteq activeChannels_ /\ activeChannels_ \subseteq Channels
    /\ current \in Channels \cup {NoChannel}
    /\ functors \in Seq(Connections)

\* The Poller knows only channels that are there, under their own descriptors.
Registered ==
    \A fd \in DOMAIN channels_ :
        LET ch == chan[channels_[fd]] IN ch.life = "alive" /\ ch.kept /\ ch.fd = fd

\* The channels with events left to handle are there, and so is the current one.
Turns ==
    /\ \A c \in DOMAIN unhandled : Alive(c) /\ c # current
    /\ phase # "handle" => DOMAIN unhandled = {} /\ current = NoChannel
    /\ current # NoChannel => Alive(current)
    /\ \A c \in Channels : chan[c].handling <=> c = current

\* A channel that the program has dropped is there only while it is guarded.
Kept ==
    /\ \A c \in Channels : Alive(c) /\ ~chan[c].kept => c = current /\ ~chan[c].added
    /\ \A c \in Connections : Alive(c) => chan[c].tied

ChannelInv == ChannelsTyped /\ Registered /\ Turns /\ Kept /\ AssertionsHold

KernelTyped ==
    /\ table \in [1 .. MaxFd -> {"free", "spare", "other"} \cup Connections]
    /\ backlog \in Seq(Connections) /\ coming \subseteq Connections
    /\ idleFd_ \in {-1} \cup 1 .. MaxFd
    /\ at \in {"idle", "EMFILE", "released", "accepted", "closed"}
    /\ at # "idle" => current = acceptChannel_ /\ callbacks # <<>>

\* A connection is accepted once: it has no channel before.
Unborn ==
    /\ \A i \in DOMAIN backlog : chan[backlog[i]].life = "none" /\ backlog[i] \notin coming
    /\ \A i, j \in DOMAIN backlog : backlog[i] = backlog[j] => i = j
    /\ \A c \in coming : chan[c].life = "none"

AcceptorInv == ChannelInv /\ KernelTyped /\ Unborn /\ SpareIsOwn

-----------------------------------------------------------------------------
(* The functions of Channel *)

LEMMA NewIsMember == NewChannel \in Members
BY AcceptorAssumption DEF NewChannel, Members

LEMMA Conn == Connections \subseteq Channels /\ acceptChannel_ \in Channels
              /\ NoChannel \notin Channels
BY AcceptorAssumption, ChannelsAssumption

\* An owner that nothing keeps is destroyed, and else nothing changes.
LEMMA Dropping ==
    ASSUME NEW ch \in Members, NEW g \in BOOLEAN
    PROVE  /\ dropped(ch, g) \in Members
           /\ ch.kept \/ g \/ ch.life # "alive" => dropped(ch, g) = ch
           /\ ~(ch.kept \/ g \/ ch.life # "alive") =>
                dropped(ch, g).life = "destroyed" /\ ~dropped(ch, g).handling
BY NewIsMember DEF dropped, NewChannel, Members

LEMMA OneChanged ==
    ASSUME chan \in [Channels -> Members], NEW c \in Channels, NEW d \in Members,
           chan' = [chan EXCEPT ![c] = d]
    PROVE  /\ chan' \in [Channels -> Members] /\ chan'[c] = d
           /\ \A x \in Channels : x # c => chan'[x] = chan[x]
OBVIOUS

LEMMA Unregistering ==
    ASSUME NEW fd, channels_' = unregistered(fd)
    PROVE  /\ DOMAIN channels_' = DOMAIN channels_ \ {fd}
           /\ \A f \in DOMAIN channels_' : channels_'[f] = channels_[f]
BY DEF unregistered, Restrict

LEMMA Registering ==
    ASSUME NEW c, NEW fd, Register(c, fd)
    PROVE  /\ DOMAIN channels_' = DOMAIN channels_ \cup {fd}
           /\ channels_'[fd] = c
           /\ \A f \in DOMAIN channels_ : f # fd => channels_'[f] = channels_[f]
BY DEF Register

\* What a removal does to the channel, and that its assertions hold.
LEMMA Removing ==
    ASSUME ChannelInv, NEW c \in Channels, remove(c), mayRemove(c),
           c = current => chan[c].tied
    PROVE  /\ broken' = broken
           /\ DOMAIN channels_' = DOMAIN channels_ \ {chan[c].fd}
           /\ \A f \in DOMAIN channels_' : channels_'[f] = channels_[f]
           /\ chan' \in [Channels -> Members]
           /\ \A x \in Channels : x # c => chan'[x] = chan[x]
           /\ c # current => chan'[c].life = "destroyed" /\ ~chan'[c].handling
           /\ c = current => /\ chan'[c].life = "alive" /\ chan'[c].handling
                             /\ ~chan'[c].kept /\ ~chan'[c].added
                             /\ chan'[c].tied = chan[c].tied /\ chan'[c].fd = chan[c].fd
<1> DEFINE ch == [updated(chan[c], {}) EXCEPT !.added = FALSE, !.kept = FALSE]
           g == guards(c)
           registered == \E fd \in DOMAIN channels_' : channels_'[fd] = c
<1>1. /\ channels_' = unregistered(chan[c].fd)
      /\ chan' = [chan EXCEPT ![c] = dropped(ch, g)]
      /\ Assert(mayRemove(c) /\ destructs(ch, g, registered), "remove")
      /\ chan[c].life = "alive"
  BY DEF remove, Alive
<1>2. chan[c] \in Members /\ (chan[c].handling <=> c = current)
  BY DEF ChannelInv, ChannelsTyped, Turns
<1>3. /\ ch \in Members /\ ch.life = "alive" /\ ~ch.kept /\ ~ch.added
      /\ ch.handling = chan[c].handling /\ ch.tied = chan[c].tied /\ ch.fd = chan[c].fd
  BY <1>1, <1>2 DEF updated, Members
<1>4. g \in BOOLEAN /\ (g <=> c = current)
  BY DEF guards
<1>5. /\ DOMAIN channels_' = DOMAIN channels_ \ {chan[c].fd}
      /\ \A f \in DOMAIN channels_' : channels_'[f] = channels_[f]
  BY <1>1, Unregistering
<1>6. ~registered
  BY <1>5 DEF ChannelInv, Registered
<1> HIDE DEF ch, g, registered
<1>7. /\ dropped(ch, g) \in Members
      /\ g => dropped(ch, g) = ch
      /\ ~g => dropped(ch, g).life = "destroyed" /\ ~dropped(ch, g).handling
  BY <1>3, <1>4, Dropping
<1>8. /\ chan' \in [Channels -> Members] /\ chan'[c] = dropped(ch, g)
      /\ \A x \in Channels : x # c => chan'[x] = chan[x]
  BY <1>1, <1>7, OneChanged DEF ChannelInv, ChannelsTyped
<1>9. destructs(ch, g, registered)
  BY <1>2, <1>3, <1>4, <1>6, <1>7 DEF destructs
<1>10. broken' = broken
  BY <1>1, <1>9 DEF Assert
<1>11. QED BY <1>2, <1>3, <1>4, <1>5, <1>7, <1>8, <1>10

-----------------------------------------------------------------------------
(* What is done to one channel keeps the invariant of them all *)

\* Before, and none of the others is created.
StillUnborn == \A c \in Connections : chan[c].life = "none" => chan'[c].life = "none"

LEMMA RemovingKeeps ==
    ASSUME ChannelInv, NEW c \in Channels, remove(c), mayRemove(c),
           c = current => chan[c].tied, c \notin DOMAIN unhandled,
           UNCHANGED <<phase, activeChannels_, unhandled, current>>,
           functors' \in Seq(Connections)
    PROVE  ChannelInv' /\ StillUnborn
<1>1. /\ broken' = broken
      /\ DOMAIN channels_' = DOMAIN channels_ \ {chan[c].fd}
      /\ \A f \in DOMAIN channels_' : channels_'[f] = channels_[f]
      /\ chan' \in [Channels -> Members]
      /\ \A x \in Channels : x # c => chan'[x] = chan[x]
      /\ c # current => chan'[c].life = "destroyed" /\ ~chan'[c].handling
      /\ c = current => /\ chan'[c].life = "alive" /\ chan'[c].handling
                        /\ ~chan'[c].kept /\ ~chan'[c].added
                        /\ chan'[c].tied = chan[c].tied /\ chan'[c].fd = chan[c].fd
  BY Removing
<1>2. chan[c].life = "alive" BY DEF remove, Alive
<1>3. ChannelsTyped' BY <1>1, <1>2 DEF ChannelInv, ChannelsTyped, Alive
<1>4. \A f \in DOMAIN channels_' : channels_'[f] \in Channels /\ channels_'[f] # c
  BY <1>1 DEF ChannelInv, ChannelsTyped, Registered
<1>5. Registered' BY <1>1, <1>4 DEF ChannelInv, Registered
<1>6. Turns'
  BY <1>1, Conn DEF ChannelInv, ChannelsTyped, Turns, Alive
<1>7. Kept'
  BY <1>1, Conn DEF ChannelInv, Kept, Alive
<1>8. StillUnborn BY <1>1, <1>2, Conn DEF StillUnborn
<1>9. QED BY <1>1, <1>3, <1>5, <1>6, <1>7, <1>8 DEF ChannelInv, AssertionsHold

LEMMA SettingKeeps ==
    ASSUME ChannelInv, NEW c \in Channels, chan[c].kept,
           NEW events \in SUBSET {"IN", "OUT"}, setEvents(c, events),
           UNCHANGED <<phase, activeChannels_, unhandled, current, functors, broken>>
    PROVE  ChannelInv' /\ StillUnborn
<1> DEFINE ch == updated(chan[c], events)
<1>1. /\ chan' = [chan EXCEPT ![c] = ch] /\ Register(c, chan[c].fd)
      /\ chan[c].life = "alive"
  BY DEF setEvents, Alive, ChannelInv, ChannelsTyped
<1>2. chan[c] \in Members BY DEF ChannelInv, ChannelsTyped
<1>3. /\ ch \in Members /\ ch.life = "alive" /\ ch.kept
      /\ ch.handling = chan[c].handling /\ ch.tied = chan[c].tied /\ ch.fd = chan[c].fd
  BY <1>1, <1>2 DEF updated, Members
<1> HIDE DEF ch
<1>4. /\ chan' \in [Channels -> Members] /\ chan'[c] = ch
      /\ \A x \in Channels : x # c => chan'[x] = chan[x]
  BY <1>1, <1>3, OneChanged DEF ChannelInv, ChannelsTyped
<1>5. PICK fd : fd = chan[c].fd OBVIOUS
<1>14. Register(c, fd) BY <1>1, <1>5
<1>6. /\ DOMAIN channels_' = DOMAIN channels_ \cup {fd}
      /\ channels_'[fd] = c
      /\ \A f \in DOMAIN channels_ : f # fd => channels_'[f] = channels_[f]
  BY <1>14, Registering
<1>7. fd \in 0 .. MaxFd
  BY <1>1, <1>5 DEF ChannelInv, ChannelsTyped, Alive
<1>8. ChannelsTyped'
  BY <1>3, <1>4, <1>5, <1>6, <1>7 DEF ChannelInv, ChannelsTyped, Alive
<1>9. Registered'
  BY <1>3, <1>4, <1>5, <1>6 DEF ChannelInv, ChannelsTyped, Registered
<1>10. Turns'
  BY <1>3, <1>4, Conn DEF ChannelInv, ChannelsTyped, Turns, Alive
<1>11. Kept'
  BY <1>3, <1>4, <1>1, Conn DEF ChannelInv, Kept, Alive
<1>12. StillUnborn BY <1>1, <1>4, Conn DEF StillUnborn
<1>13. QED BY <1>8, <1>9, <1>10, <1>11, <1>12 DEF ChannelInv, AssertionsHold

-----------------------------------------------------------------------------
(* The loop *)

LEMMA HandleEventKeeps ==
    ASSUME ChannelInv, NEW c \in Channels, handleEvent(c)
    PROVE  ChannelInv' /\ StillUnborn
<1>1. /\ phase = "handle" /\ current = NoChannel /\ c \in DOMAIN unhandled
      /\ current' = c /\ chan' = [chan EXCEPT ![c].handling = TRUE]
      /\ UNCHANGED <<channels_, phase, activeChannels_, functors>>
      /\ Assert(Alive(c), "handleEvent of a destroyed channel")
  BY DEF handleEvent
<1>2. DOMAIN unhandled' = DOMAIN unhandled \ {c} BY DEF handleEvent, Restrict
<1>3. Alive(c) BY <1>1 DEF ChannelInv, Turns
<1>4. broken' = broken BY <1>1, <1>3 DEF Assert
<1> DEFINE ch == [chan[c] EXCEPT !.handling = TRUE]
<1>5. chan[c] \in Members BY DEF ChannelInv, ChannelsTyped
<1>6. /\ ch \in Members /\ ch.life = "alive" /\ ch.handling /\ ch.kept = chan[c].kept
      /\ ch.tied = chan[c].tied /\ ch.fd = chan[c].fd /\ ch.added = chan[c].added
  BY <1>3, <1>5 DEF Alive, Members
<1>7. chan' = [chan EXCEPT ![c] = ch] BY <1>1 DEF ChannelInv, ChannelsTyped
<1> HIDE DEF ch
<1>8. /\ chan' \in [Channels -> Members] /\ chan'[c] = ch
      /\ \A x \in Channels : x # c => chan'[x] = chan[x]
  BY <1>6, <1>7, OneChanged DEF ChannelInv, ChannelsTyped
<1>9. ChannelsTyped' BY <1>1, <1>2, <1>3, <1>6, <1>8 DEF ChannelInv, ChannelsTyped, Alive
<1>10. Registered'
  <2>1. \A x \in Channels : /\ chan'[x].life = chan[x].life /\ chan'[x].kept = chan[x].kept
                           /\ chan'[x].fd = chan[x].fd
    BY <1>3, <1>6, <1>8 DEF Alive
  <2>2. \A fd \in DOMAIN channels_ :
           /\ channels_[fd] \in Channels /\ chan[channels_[fd]].life = "alive"
           /\ chan[channels_[fd]].kept /\ chan[channels_[fd]].fd = fd
    BY DEF ChannelInv, ChannelsTyped, Registered
  <2>3. channels_' = channels_ BY <1>1
  <2>4. QED BY <2>1, <2>2, <2>3 DEF Registered
<1>11. Turns'
  BY <1>1, <1>2, <1>6, <1>8, Conn DEF ChannelInv, ChannelsTyped, Turns, Alive
<1>12. Kept' BY <1>1, <1>3, <1>6, <1>8, Conn DEF ChannelInv, Kept, Alive
<1>13. StillUnborn BY <1>3, <1>8, Conn DEF StillUnborn, Alive
<1>14. QED BY <1>4, <1>9, <1>10, <1>11, <1>12, <1>13 DEF ChannelInv, AssertionsHold

LEMMA HandleReturnsKeeps ==
    ASSUME ChannelInv, handleReturns
    PROVE  ChannelInv' /\ StillUnborn
<1>1. PICK c : c = current OBVIOUS
<1> DEFINE ch == [chan[c] EXCEPT !.handling = FALSE]
           registered == \E fd \in DOMAIN channels_ : channels_[fd] = c
<1>2. /\ c # NoChannel /\ current' = NoChannel
      /\ chan' = [chan EXCEPT ![c] = dropped(ch, FALSE)]
      /\ Assert(destructs(ch, FALSE, registered), "~Channel")
      /\ UNCHANGED <<channels_, phase, activeChannels_, unhandled, functors>>
  BY <1>1 DEF handleReturns
<1>3. c \in Channels /\ chan[c] \in Members /\ chan[c].life = "alive"
  BY <1>1, <1>2 DEF ChannelInv, ChannelsTyped, Turns, Alive
<1>4. /\ ch \in Members /\ ch.life = "alive" /\ ~ch.handling /\ ch.kept = chan[c].kept
      /\ ch.tied = chan[c].tied /\ ch.fd = chan[c].fd /\ ch.added = chan[c].added
  BY <1>3 DEF Members
<1>5. ~ch.kept => ~registered /\ ~ch.added
  BY <1>3, <1>4 DEF ChannelInv, Registered, Kept, Alive
<1> HIDE DEF ch, registered
<1>6. /\ dropped(ch, FALSE) \in Members
      /\ ch.kept => dropped(ch, FALSE) = ch
      /\ ~ch.kept => dropped(ch, FALSE).life = "destroyed" /\ ~dropped(ch, FALSE).handling
  BY <1>4, Dropping
<1>7. PICK d \in Members : d = dropped(ch, FALSE) BY <1>6
<1>8. destructs(ch, FALSE, registered) BY <1>4, <1>5, <1>6 DEF destructs
<1>9. broken' = broken BY <1>2, <1>8 DEF Assert
<1>10. chan' = [chan EXCEPT ![c] = d] BY <1>2, <1>7
<1>11. /\ chan' \in [Channels -> Members] /\ chan'[c] = d
       /\ \A x \in Channels : x # c => chan'[x] = chan[x]
  BY <1>3, <1>10, OneChanged DEF ChannelInv, ChannelsTyped
<1>12. ChannelsTyped' BY <1>2, <1>3, <1>4, <1>6, <1>7, <1>11 DEF ChannelInv, ChannelsTyped, Alive
<1>13. Registered'
  BY <1>2, <1>4, <1>6, <1>7, <1>11, ZenonT(30) DEF ChannelInv, ChannelsTyped, Registered
<1>14. Turns'
  <2>1. ~d.handling BY <1>4, <1>6, <1>7
  <2>2. \A x \in DOMAIN unhandled : x \in Channels /\ x # c /\ chan[x].life = "alive"
    BY <1>1 DEF ChannelInv, ChannelsTyped, Turns, Alive
  <2>3. \A x \in Channels : ~chan'[x].handling
    BY <1>1, <1>11, <2>1 DEF ChannelInv, Turns
  <2>4. QED BY <1>2, <1>11, <2>2, <2>3, Conn DEF ChannelInv, Turns, Alive
<1>15. Kept'
  BY <1>1, <1>2, <1>3, <1>4, <1>6, <1>7, <1>11, Conn DEF ChannelInv, Kept, Alive
<1>16. StillUnborn BY <1>3, <1>11, Conn DEF StillUnborn
<1>17. QED BY <1>9, <1>12, <1>13, <1>14, <1>15, <1>16 DEF ChannelInv, AssertionsHold

LEMMA PollKeeps ==
    ASSUME ChannelInv, NEW ready \in SUBSET Channels, poll(ready)
    PROVE  ChannelInv' /\ StillUnborn
<1>1. /\ phase = "poll" /\ phase' = "handle" /\ activeChannels_' = ready
      /\ ready \subseteq {channels_[fd] : fd \in DOMAIN channels_}
      /\ UNCHANGED <<chan, channels_, current, functors, broken>>
  BY DEF poll
<1>2. DOMAIN unhandled' = ready BY DEF poll
<1>3. \A c \in ready : chan[c].life = "alive"
  BY <1>1 DEF ChannelInv, Registered
<1>4. ChannelsTyped' BY <1>1, <1>2 DEF ChannelInv, ChannelsTyped, Alive
<1>5. Turns' BY <1>1, <1>2, <1>3, Conn DEF ChannelInv, Turns, Alive
<1>6. QED
  BY <1>1, <1>4, <1>5 DEF ChannelInv, Registered, Kept, Alive, AssertionsHold, StillUnborn

LEMMA AllHandledKeeps ==
    ASSUME ChannelInv, allHandled
    PROVE  ChannelInv' /\ StillUnborn
BY DEF allHandled, ChannelInv, ChannelsTyped, Registered, Turns, Kept, Alive, AssertionsHold,
       StillUnborn

LEMMA FunctorsDoneKeeps ==
    ASSUME ChannelInv, functorsDone
    PROVE  ChannelInv' /\ StillUnborn
BY DEF functorsDone, ChannelInv, ChannelsTyped, Registered, Turns, Kept, Alive, AssertionsHold,
       StillUnborn

LEMMA FunctorKeeps ==
    ASSUME ChannelInv, functor
    PROVE  ChannelInv' /\ StillUnborn
<1>1. /\ phase = "functors" /\ functors # <<>> /\ functors' = Tail(functors)
      /\ UNCHANGED <<phase, activeChannels_, unhandled, current>>
  BY DEF functor, loopState
<1>2. functors \in Seq(Connections) BY DEF ChannelInv, ChannelsTyped
<1>3. PICK c : c = Head(functors) OBVIOUS
<1>4. functors' \in Seq(Connections) /\ c \in Connections BY <1>1, <1>2, <1>3
<1>5. CASE Alive(c) /\ chan[c].kept
  <2>1. remove(c) BY <1>3, <1>5 DEF functor
  <2>2. mayRemove(c) /\ c # current /\ c \notin DOMAIN unhandled
    BY <1>1, <1>4, Conn DEF ChannelInv, Turns, mayRemove
  <2>3. c \in Channels BY <1>4, Conn
  <2>4. QED BY <1>1, <1>4, <2>1, <2>2, <2>3, RemovingKeeps
<1>6. CASE ~(Alive(c) /\ chan[c].kept)
  <2>1. UNCHANGED <<chan, channels_, broken>> BY <1>3, <1>6 DEF functor
  <2>2. QED
    BY <1>1, <1>4, <2>1 DEF ChannelInv, ChannelsTyped, Registered, Turns, Kept, Alive,
                            AssertionsHold, StillUnborn
<1>7. QED BY <1>5, <1>6

LEMMA CallbackKeeps ==
    ASSUME ChannelInv, callback(Connections)
    PROVE  ChannelInv' /\ StillUnborn
<1>1. current \in Connections /\ UNCHANGED <<phase, activeChannels_, unhandled, current>>
  BY DEF callback
<1>2. /\ Alive(current) /\ current \in Channels /\ chan[current].tied
      /\ current \notin DOMAIN unhandled /\ phase = "handle"
  BY <1>1, Conn DEF ChannelInv, Turns, Kept
<1>3. functors \in Seq(Connections) BY DEF ChannelInv, ChannelsTyped
<1>4. \/ UNCHANGED <<chan, channels_, functors, broken>>
      \/ /\ chan[current].added /\ UNCHANGED <<functors, broken>>
         /\ \E events \in SUBSET {"IN", "OUT"} : setEvents(current, events)
      \/ /\ \E c \in Connections : remove(c) /\ (c = current \/ c \notin activeChannels_)
         /\ UNCHANGED functors
      \/ /\ \E c \in Connections : removeLater(c)
         /\ UNCHANGED <<chan, channels_, broken>>
  BY DEF callback
<1>5. CASE UNCHANGED <<chan, channels_, functors, broken>>
  BY <1>1, <1>5 DEF ChannelInv, ChannelsTyped, Registered, Turns, Kept, Alive, AssertionsHold,
                    StillUnborn
<1>6. CASE /\ chan[current].added /\ UNCHANGED <<functors, broken>>
           /\ \E events \in SUBSET {"IN", "OUT"} : setEvents(current, events)
  <2>1. PICK events \in SUBSET {"IN", "OUT"} : setEvents(current, events) BY <1>6
  <2>2. chan[current].kept BY <1>2, <1>6 DEF ChannelInv, Kept
  <2>3. PICK c \in Channels : c = current BY <1>2
  <2>4. setEvents(c, events) /\ chan[c].kept BY <2>1, <2>2, <2>3
  <2>5. QED BY <1>1, <1>6, <2>4, SettingKeeps
<1>7. CASE /\ \E c \in Connections : remove(c) /\ (c = current \/ c \notin activeChannels_)
           /\ UNCHANGED functors
  <2>1. PICK c \in Connections : remove(c) /\ (c = current \/ c \notin activeChannels_)
    BY <1>7
  <2>2. mayRemove(c) BY <2>1 DEF mayRemove
  <2>3. c \notin DOMAIN unhandled BY <1>2, <2>1 DEF ChannelInv, ChannelsTyped
  <2>4. c = current => chan[c].tied BY <1>2
  <2>5. c \in Channels /\ functors' \in Seq(Connections) BY <1>3, <1>7, Conn
  <2>6. QED BY <1>1, <2>1, <2>2, <2>3, <2>4, <2>5, RemovingKeeps
<1>8. CASE /\ \E c \in Connections : removeLater(c)
           /\ UNCHANGED <<chan, channels_, broken>>
  <2>1. functors' \in Seq(Connections) BY <1>3, <1>8 DEF removeLater
  <2>2. QED
    BY <1>1, <1>8, <2>1 DEF ChannelInv, ChannelsTyped, Registered, Turns, Kept, Alive,
                            AssertionsHold, StillUnborn
<1>9. QED BY <1>4, <1>5, <1>6, <1>7, <1>8

\* The channel of a connection that is accepted.
LEMMA NewChannelMade ==
    ASSUME NEW free \in 1 .. MaxFd
    PROVE  LET ch == updated(constructed(free, TRUE), {"IN"})
           IN  ch \in Members /\ ch.life = "alive" /\ ch.kept /\ ~ch.handling /\ ch.tied /\ ch.fd = free
<1>1. free \in {-1} \cup 0 .. MaxFd BY AcceptorAssumption
<1>2. PICK new \in Members : new = NewChannel BY NewIsMember
<1>3. ~new.handling BY <1>2 DEF NewChannel
<1>4. constructed(free, TRUE) = [new EXCEPT !.life = "alive", !.fd = free, !.kept = TRUE, !.tied = TRUE]
  BY <1>2 DEF constructed
<1>5. PICK ch : ch = constructed(free, TRUE) OBVIOUS
<1>6. /\ ch \in Members /\ ch.life = "alive" /\ ch.kept /\ ~ch.handling /\ ch.tied /\ ch.fd = free
  BY <1>1, <1>3, <1>4, <1>5 DEF Members
<1>7. updated(constructed(free, TRUE), {"IN"}) = [ch EXCEPT !.events = {"IN"}, !.added = TRUE]
  BY <1>5 DEF updated
<1>8. QED BY <1>6, <1>7, ZenonT(30) DEF Members

\* A connection that has had no channel gets one.
LEMMA CreatingKeeps ==
    ASSUME ChannelInv, NEW c \in Connections, NEW free \in 1 .. MaxFd, chan[c].life = "none",
           chan' = [chan EXCEPT ![c] = updated(constructed(free, TRUE), {"IN"})],
           Register(c, free),
           UNCHANGED <<phase, activeChannels_, unhandled, current, functors, broken>>
    PROVE  /\ ChannelInv'
           /\ \A x \in Channels : x # c => chan'[x] = chan[x]
<1> DEFINE ch == updated(constructed(free, TRUE), {"IN"})
<1>1. /\ ch \in Members /\ ch.life = "alive" /\ ch.kept /\ ~ch.handling /\ ch.tied /\ ch.fd = free
  BY ONLY NewChannelMade, free \in 1 .. MaxFd
<1>2. chan' = [chan EXCEPT ![c] = ch] OBVIOUS
<1> HIDE DEF ch
<1>3. c \in Channels BY Conn
<1>4. /\ chan' \in [Channels -> Members] /\ chan'[c] = ch
      /\ \A x \in Channels : x # c => chan'[x] = chan[x]
  BY <1>1, <1>2, <1>3, OneChanged DEF ChannelInv, ChannelsTyped
<1>5. /\ DOMAIN channels_' = DOMAIN channels_ \cup {free}
      /\ channels_'[free] = c
      /\ \A f \in DOMAIN channels_ : f # free => channels_'[f] = channels_[f]
  <2>1. Register(c, free) OBVIOUS
  <2>2. QED BY ONLY <2>1, Registering
<1>6. free \in 0 .. MaxFd BY AcceptorAssumption
<1>7. c # current /\ c \notin DOMAIN unhandled
  BY <1>3, Conn DEF ChannelInv, Turns, Alive
<1>8. ChannelsTyped'
  BY <1>1, <1>3, <1>4, <1>5, <1>6 DEF ChannelInv, ChannelsTyped, Alive
<1>9. Registered'
  <2>1. \A f \in DOMAIN channels_ :
           /\ channels_[f] \in Channels /\ channels_[f] # c /\ chan[channels_[f]].life = "alive"
           /\ chan[channels_[f]].kept /\ chan[channels_[f]].fd = f
    BY DEF ChannelInv, ChannelsTyped, Registered
  <2>2. \A f \in DOMAIN channels_' :
           /\ chan'[channels_'[f]].life = "alive" /\ chan'[channels_'[f]].kept
           /\ chan'[channels_'[f]].fd = f
    BY ONLY <1>1, <1>4, <1>5, <2>1
  <2>3. QED BY ONLY <2>2 DEF Registered
<1>10. Turns'
  <2>1. Turns /\ DOMAIN unhandled \subseteq Channels /\ current \in Channels \cup {NoChannel}
    BY DEF ChannelInv, ChannelsTyped
  <2>2. UNCHANGED <<phase, unhandled, current>> OBVIOUS
  <2>3. QED BY ONLY <1>1, <1>4, <1>7, <2>1, <2>2, Conn DEF Turns, Alive
<1>11. Kept' BY <1>1, <1>3, <1>4, Conn DEF ChannelInv, Kept, Alive
<1>12. QED BY <1>4, <1>8, <1>9, <1>10, <1>11 DEF ChannelInv, AssertionsHold

\* What is left as it was.
LEMMA ChannelsUnchanged ==
    ASSUME ChannelInv,
           UNCHANGED <<chan, channels_, phase, activeChannels_, unhandled, current, functors, broken>>
    PROVE  ChannelInv' /\ StillUnborn
BY DEF ChannelInv, ChannelsTyped, Registered, Turns, Kept, Alive, AssertionsHold, StillUnborn

-----------------------------------------------------------------------------
(* The table of descriptors and the backlog *)

\* The kernel gives a free descriptor.
LEMMA GivesFree ==
    ASSUME FreeFds # {}
    PROVE  Min(FreeFds) \in 1 .. MaxFd /\ table[Min(FreeFds)] = "free"
<1> DEFINE Less == OpToRel(<, Nat)
<1>1. FreeFds \subseteq Nat BY AcceptorAssumption DEF FreeFds
<1>2. \E n \in FreeFds : \A m \in FreeFds : ~ (<<m, n>> \in Less)
  BY <1>1, NatLessThanWellFounded, WFMin
<1>3. \A n, m \in Nat : <<m, n>> \in Less <=> m < n BY DEF OpToRel
<1> HIDE DEF Less
<1>4. \E n \in FreeFds : \A m \in FreeFds : n =< m
  <2>1. PICK n \in FreeFds : \A m \in FreeFds : ~ (<<m, n>> \in Less) BY <1>2
  <2>2. \A m \in FreeFds : ~ (m < n) BY <1>1, <1>3, <2>1
  <2>3. QED BY <1>1, <2>2
<1>5. Min(FreeFds) \in FreeFds BY <1>4 DEF Min
<1>6. QED BY <1>5 DEF FreeFds

\* Sockets of connections are closed, and nothing else.
LEMMA KernelKept ==
    ASSUME AcceptorInv, socketsClosed \/ UNCHANGED table, UNCHANGED <<backlog, coming, acceptorVars>>,
           StillUnborn, at = "idle" \/ UNCHANGED <<current, callbacks>>
    PROVE  KernelTyped' /\ Unborn' /\ SpareIsOwn'
<1>1. table' \in [1 .. MaxFd -> {"free", "spare", "other"} \cup Connections]
  BY DEF AcceptorInv, KernelTyped, socketsClosed
<1>2. KernelTyped' BY <1>1 DEF AcceptorInv, KernelTyped, acceptorVars
<1>3. Unborn'
  BY Conn DEF AcceptorInv, KernelTyped, Unborn, StillUnborn
<1>4. \A fd \in 1 .. MaxFd : table'[fd] = "spare" <=> table[fd] = "spare"
  BY AcceptorAssumption DEF AcceptorInv, KernelTyped, socketsClosed
<1>5. SpareIsOwn' BY <1>4 DEF AcceptorInv, SpareIsOwn, acceptorVars
<1>6. QED BY <1>2, <1>3, <1>5

LEMMA LoopKeeps ==
    ASSUME AcceptorInv, loopGoesOn
    PROVE  AcceptorInv'
<1>1. ChannelInv BY DEF AcceptorInv
<1>2. socketsClosed /\ UNCHANGED <<backlog, coming, acceptorVars>> BY DEF loopGoesOn
<1>3. \/ \E c \in Channels : handleEvent(c)
      \/ handleReturns \/ allHandled \/ functor \/ functorsDone
      \/ callback(Connections)
  BY DEF loopGoesOn
<1>4. ChannelInv' /\ StillUnborn
  BY <1>1, <1>3, HandleEventKeeps, HandleReturnsKeeps, AllHandledKeeps, FunctorKeeps,
     FunctorsDoneKeeps, CallbackKeeps
<1>5. at # "idle" => current = acceptChannel_ /\ callbacks # <<>>
  BY DEF AcceptorInv, KernelTyped
<1>6. at = "idle" \/ UNCHANGED <<current, callbacks>>
  <2>1. CASE \E c \in Channels : handleEvent(c)
    BY <2>1, <1>5, Conn DEF handleEvent
  <2>2. CASE handleReturns BY <2>2, <1>5 DEF handleReturns
  <2>3. CASE allHandled BY <2>3 DEF allHandled
  <2>4. CASE functor BY <2>4 DEF functor, loopState
  <2>5. CASE functorsDone BY <2>5 DEF functorsDone
  <2>6. CASE callback(Connections)
    BY <2>6, <1>5, AcceptorAssumption DEF callback
  <2>7. QED BY <1>3, <2>1, <2>2, <2>3, <2>4, <2>5, <2>6
<1>7. KernelTyped' /\ Unborn' /\ SpareIsOwn' BY <1>2, <1>4, <1>6, KernelKept
<1>8. QED BY <1>4, <1>7 DEF AcceptorInv

LEMMA PollReturnsKeeps ==
    ASSUME AcceptorInv, pollReturns
    PROVE  AcceptorInv'
<1>1. PICK ready \in SUBSET Channels : poll(ready) BY DEF pollReturns
<1>2. ChannelInv' /\ StillUnborn BY <1>1, PollKeeps DEF AcceptorInv
<1>3. UNCHANGED <<current, callbacks>> BY <1>1 DEF poll
<1>4. UNCHANGED <<table, backlog, coming, acceptorVars>> BY DEF pollReturns, kernelVars
<1>5. KernelTyped' /\ Unborn' /\ SpareIsOwn' BY <1>2, <1>3, <1>4, KernelKept
<1>6. QED BY <1>2, <1>5 DEF AcceptorInv

LEMMA ListenKeeps ==
    ASSUME AcceptorInv, listen
    PROVE  AcceptorInv'
<1>1. /\ phase = "functors" /\ Alive(acceptChannel_) /\ setEvents(acceptChannel_, {"IN"})
      /\ UNCHANGED <<phase, activeChannels_, unhandled, current, callbacks, functors, broken,
                     table, backlog, coming, idleFd_, at>>
  BY DEF listen, loopState, kernelVars
<1>2. chan[acceptChannel_].kept
  BY <1>1, Conn DEF AcceptorInv, ChannelInv, Turns, Kept
<1>3. ChannelInv' /\ StillUnborn BY <1>1, <1>2, Conn, SettingKeeps DEF AcceptorInv
<1>4. KernelTyped' BY <1>1 DEF AcceptorInv, KernelTyped
<1>5. Unborn' BY <1>1, <1>3, Conn DEF AcceptorInv, KernelTyped, Unborn, StillUnborn
<1>6. SpareIsOwn' BY <1>1 DEF AcceptorInv, SpareIsOwn
<1>7. QED BY <1>3, <1>4, <1>5, <1>6 DEF AcceptorInv

-----------------------------------------------------------------------------
(* handleRead *)

\* The steps of handleRead that leave the channels alone, when they are at their place.
HandleReads ==
    /\ at # "idle" /\ UNCHANGED <<chan, channels_, functors, broken, phase, activeChannels_,
                                  unhandled, current>>

LEMMA ReadingKeeps ==
    ASSUME AcceptorInv, HandleReads
    PROVE  ChannelInv' /\ StillUnborn /\ at \in {"EMFILE", "released", "accepted", "closed"}
BY ChannelsUnchanged DEF AcceptorInv, HandleReads, KernelTyped

LEMMA TailKeeps ==
    ASSUME AcceptorInv, backlog # <<>>, backlog' = Tail(backlog), UNCHANGED coming,
           \A c \in Connections : c # Head(backlog) /\ chan[c].life = "none" => chan'[c].life = "none"
    PROVE  Unborn' /\ backlog' \in Seq(Connections)
<1>1. backlog \in Seq(Connections) BY DEF AcceptorInv, KernelTyped
<1>2. /\ backlog' \in Seq(Connections)
      /\ \A i \in DOMAIN backlog' : i + 1 \in DOMAIN backlog /\ backlog'[i] = backlog[i + 1]
      /\ 1 \in DOMAIN backlog /\ Head(backlog) = backlog[1]
  BY <1>1
<1>3. DOMAIN backlog' \subseteq Nat \ {0} BY <1>2
<1>4. \A i \in DOMAIN backlog' : backlog'[i] \in Connections /\ backlog'[i] # Head(backlog)
  BY <1>1, <1>2, <1>3 DEF AcceptorInv, Unborn
<1>5. \A i, j \in DOMAIN backlog' : backlog'[i] = backlog'[j] => i = j
  BY <1>2, <1>3 DEF AcceptorInv, Unborn
<1>6. \A i \in DOMAIN backlog' : chan'[backlog'[i]].life = "none" /\ backlog'[i] \notin coming'
  BY <1>2, <1>4 DEF AcceptorInv, Unborn
<1>7. \A c \in coming' : chan'[c].life = "none"
  BY <1>2 DEF AcceptorInv, Unborn, KernelTyped
<1>8. QED BY <1>2, <1>5, <1>6, <1>7 DEF Unborn

LEMMA SameBacklogKeeps ==
    ASSUME AcceptorInv, UNCHANGED <<backlog, coming>>, StillUnborn
    PROVE  Unborn'
BY DEF AcceptorInv, KernelTyped, Unborn, StillUnborn

LEMMA ReleaseSpareKeeps ==
    ASSUME AcceptorInv, releaseSpare
    PROVE  AcceptorInv'
<1>1. HandleReads /\ UNCHANGED <<backlog, coming, callbacks, idleFd_>>
      /\ at = "EMFILE" /\ at' = "released" /\ table' = closed(idleFd_)
  BY DEF releaseSpare, withoutSpare, HandleReads, channelVars, loopState
<1>2. ChannelInv' /\ StillUnborn BY <1>1, ReadingKeeps
<1>3. Unborn' BY <1>1, <1>2, SameBacklogKeeps
<1>4. KernelTyped' BY <1>1 DEF AcceptorInv, KernelTyped, closed, HandleReads
<1>5. SpareIsOwn' BY <1>1 DEF AcceptorInv, KernelTyped, SpareIsOwn, closed
<1>6. QED BY <1>2, <1>3, <1>4, <1>5 DEF AcceptorInv

LEMMA AcceptAgainKeeps ==
    ASSUME AcceptorInv, acceptAgain
    PROVE  AcceptorInv'
<1>1. HandleReads /\ UNCHANGED <<coming, callbacks>> /\ at = "released" /\ at' = "accepted"
  BY DEF acceptAgain, HandleReads, channelVars, loopState
<1>2. ChannelInv' /\ StillUnborn BY <1>1, ReadingKeeps
<1>3. CASE acceptErrno # "none"
  <2>1. idleFd_' = -1 /\ UNCHANGED <<table, backlog>> BY <1>3 DEF acceptAgain, accepted
  <2>2. Unborn' BY <1>1, <1>2, <2>1, SameBacklogKeeps
  <2>3. KernelTyped' BY <1>1, <2>1 DEF AcceptorInv, KernelTyped, HandleReads
  <2>4. SpareIsOwn' BY <1>1, <2>1 DEF AcceptorInv, KernelTyped, SpareIsOwn
  <2>5. QED BY <1>2, <2>2, <2>3, <2>4 DEF AcceptorInv
<1>4. CASE acceptErrno = "none"
  <2>1. FreeFds # {} /\ backlog # <<>> BY <1>4 DEF acceptErrno
  <2>2. PICK free \in 1 .. MaxFd : free = Min(FreeFds) /\ table[free] = "free"
    BY <2>1, GivesFree
  <2>3. /\ idleFd_' = free /\ table' = [table EXCEPT ![free] = "spare"]
        /\ backlog' = Tail(backlog)
    BY <1>4, <2>2 DEF acceptAgain, accepted
  <2>4. Unborn' /\ backlog' \in Seq(Connections)
    BY <1>1, <1>2, <2>1, <2>3, TailKeeps DEF StillUnborn
  <2>5. KernelTyped' BY <1>1, <2>3, <2>4 DEF AcceptorInv, KernelTyped, HandleReads
  <2>6. SpareIsOwn' BY <1>1, <2>2, <2>3, AcceptorAssumption DEF AcceptorInv, KernelTyped, SpareIsOwn
  <2>7. QED BY <1>2, <2>4, <2>5, <2>6 DEF AcceptorInv
<1>5. QED BY <1>3, <1>4

LEMMA ErrnoChangedKeeps ==
    ASSUME AcceptorInv, errnoChanged
    PROVE  AcceptorInv'
<1>1. HandleReads /\ UNCHANGED <<table, backlog, coming, idleFd_>> /\ at = "EMFILE" /\ at' = "idle"
  BY DEF errnoChanged, HandleReads, kernelVars, returns
<1>2. ChannelInv' /\ StillUnborn BY <1>1, ReadingKeeps
<1>3. Unborn' BY <1>1, <1>2, SameBacklogKeeps
<1>4. KernelTyped' BY <1>1 DEF AcceptorInv, KernelTyped
<1>5. SpareIsOwn' BY <1>1 DEF AcceptorInv, SpareIsOwn
<1>6. QED BY <1>2, <1>3, <1>4, <1>5 DEF AcceptorInv

LEMMA CloseAcceptedKeeps ==
    ASSUME AcceptorInv, closeAccepted
    PROVE  AcceptorInv'
<1>1. HandleReads /\ UNCHANGED <<backlog, coming, callbacks, idleFd_>>
      /\ at = "accepted" /\ at' = "closed" /\ table' = closed(idleFd_)
  BY DEF closeAccepted, HandleReads, channelVars, loopState
<1>2. ChannelInv' /\ StillUnborn BY <1>1, ReadingKeeps
<1>3. Unborn' BY <1>1, <1>2, SameBacklogKeeps
<1>4. KernelTyped' BY <1>1 DEF AcceptorInv, KernelTyped, closed, HandleReads
<1>5. SpareIsOwn' BY <1>1 DEF AcceptorInv, KernelTyped, SpareIsOwn, closed
<1>6. QED BY <1>2, <1>3, <1>4, <1>5 DEF AcceptorInv

LEMMA ReopenKeeps ==
    ASSUME AcceptorInv, reopen
    PROVE  AcceptorInv'
<1>1. HandleReads /\ UNCHANGED <<backlog, coming>> /\ at = "closed" /\ at' = "idle"
  BY DEF reopen, HandleReads, returns
<1>2. ChannelInv' /\ StillUnborn BY <1>1, ReadingKeeps
<1>3. Unborn' BY <1>1, <1>2, SameBacklogKeeps
<1>4. CASE FreeFds = {}
  <2>1. idleFd_' = -1 /\ table' = table BY <1>4 DEF reopen
  <2>2. KernelTyped' BY <1>1, <2>1 DEF AcceptorInv, KernelTyped
  <2>3. SpareIsOwn' BY <1>1, <2>1 DEF AcceptorInv, KernelTyped, SpareIsOwn
  <2>4. QED BY <1>2, <1>3, <2>2, <2>3 DEF AcceptorInv
<1>5. CASE FreeFds # {}
  <2>1. PICK free \in 1 .. MaxFd : free = Min(FreeFds) /\ table[free] = "free"
    BY <1>5, GivesFree
  <2>2. free # -1 BY AcceptorAssumption
  <2>3. idleFd_' = free /\ table' = [table EXCEPT ![free] = "spare"]
    BY <1>5, <2>1, <2>2 DEF reopen
  <2>4. KernelTyped' BY <1>1, <2>3 DEF AcceptorInv, KernelTyped
  <2>5. SpareIsOwn' BY <1>1, <2>2, <2>3 DEF AcceptorInv, KernelTyped, SpareIsOwn
  <2>6. QED BY <1>2, <1>3, <2>4, <2>5 DEF AcceptorInv
<1>6. QED BY <1>4, <1>5

LEMMA AcceptKeeps ==
    ASSUME AcceptorInv, accept
    PROVE  AcceptorInv'
<1>1. /\ at = "idle" /\ current = acceptChannel_ /\ callbacks # <<>>
      /\ UNCHANGED <<functors, broken, coming, idleFd_>>
  BY DEF accept
<1>2. \/ returns /\ UNCHANGED <<chan, channels_, table, backlog, at>>
      \/ at' = "EMFILE" /\ UNCHANGED <<chan, channels_, loopState, table, backlog>>
      \/ /\ acceptErrno = "none" /\ newConnection(Head(backlog), Min(FreeFds))
         /\ backlog' = Tail(backlog) /\ returns /\ UNCHANGED at
  BY DEF accept
<1>3. UNCHANGED <<phase, activeChannels_, unhandled, current>>
  BY <1>2 DEF returns, loopState
<1>4. CASE \/ returns /\ UNCHANGED <<chan, channels_, table, backlog, at>>
           \/ at' = "EMFILE" /\ UNCHANGED <<chan, channels_, loopState, table, backlog>>
  <2>1. ChannelInv' /\ StillUnborn
    BY <1>1, <1>3, <1>4, ChannelsUnchanged DEF AcceptorInv
  <2>2. Unborn' BY <1>1, <1>4, <2>1, SameBacklogKeeps
  <2>3. KernelTyped' BY <1>1, <1>4 DEF AcceptorInv, KernelTyped, loopState
  <2>4. SpareIsOwn' BY <1>1, <1>4 DEF AcceptorInv, SpareIsOwn
  <2>5. QED BY <2>1, <2>2, <2>3, <2>4 DEF AcceptorInv
<1>5. CASE /\ acceptErrno = "none" /\ newConnection(Head(backlog), Min(FreeFds))
           /\ backlog' = Tail(backlog) /\ returns /\ UNCHANGED at
  <2>1. FreeFds # {} /\ backlog # <<>> BY <1>5 DEF acceptErrno
  <2>2. PICK free \in 1 .. MaxFd : free = Min(FreeFds) /\ table[free] = "free"
    BY <2>1, GivesFree
  <2>3. PICK c \in Connections : c = Head(backlog) /\ chan[c].life = "none"
    <3>1. backlog \in Seq(Connections) BY DEF AcceptorInv, KernelTyped
    <3>2. 1 \in DOMAIN backlog /\ Head(backlog) = backlog[1] /\ backlog[1] \in Connections
      BY <2>1, <3>1
    <3>3. QED BY <3>2 DEF AcceptorInv, Unborn
  <2>4. newConnection(c, free) BY <1>5, <2>2, <2>3
  <2>5. /\ ChannelInv' /\ table' \in [1 .. MaxFd -> {"free", "spare", "other"} \cup Connections]
        /\ \A fd \in 1 .. MaxFd : table'[fd] = "spare" <=> table[fd] = "spare"
        /\ \A x \in Channels : x # c => chan'[x] = chan[x]
    <3>1. CASE UNCHANGED <<chan, channels_, table>>
      BY <1>1, <1>3, <3>1, ChannelsUnchanged DEF AcceptorInv, KernelTyped
    <3>2. CASE /\ chan' = [chan EXCEPT ![c] = updated(constructed(free, TRUE), {"IN"})]
               /\ Register(c, free)
               /\ table' = [table EXCEPT ![free] = c]
      <4>1. ChannelInv' /\ \A x \in Channels : x # c => chan'[x] = chan[x]
        BY <1>1, <1>3, <2>3, <3>2, CreatingKeeps DEF AcceptorInv
      <4>2. c # "spare" BY AcceptorAssumption
      <4>3. table \in [1 .. MaxFd -> {"free", "spare", "other"} \cup Connections]
        BY DEF AcceptorInv, KernelTyped
      <4>4. table' = [table EXCEPT ![free] = c] BY <3>2
      <4>5. QED BY <2>2, <4>1, <4>2, <4>3, <4>4
    <3>3. QED BY <2>4, <3>1, <3>2 DEF newConnection
  <2>6. \A x \in Connections : x # Head(backlog) /\ chan[x].life = "none" => chan'[x].life = "none"
    BY <2>3, <2>5, Conn
  <2>7. Unborn' /\ backlog' \in Seq(Connections) BY <1>1, <1>5, <2>1, <2>6, TailKeeps
  <2>8. KernelTyped' BY <1>1, <1>5, <2>5, <2>7 DEF AcceptorInv, KernelTyped
  <2>9. SpareIsOwn' BY <1>1, <1>5, <2>5 DEF AcceptorInv, SpareIsOwn
  <2>10. QED BY <2>5, <2>7, <2>8, <2>9 DEF AcceptorInv
<1>6. QED BY <1>2, <1>4, <1>5

-----------------------------------------------------------------------------
(* The functor that destroys the Acceptor, clients and other threads *)

LEMMA DestroyKeeps ==
    ASSUME AcceptorInv, destroy
    PROVE  AcceptorInv'
<1>1. /\ phase = "functors" /\ remove(acceptChannel_)
      /\ table' = closed(idleFd_) /\ idleFd_' = -1 /\ backlog' = <<>>
      /\ UNCHANGED <<phase, activeChannels_, unhandled, current, callbacks, functors, coming, at>>
  BY DEF destroy, loopState
<1>2. /\ current = NoChannel /\ acceptChannel_ # current /\ acceptChannel_ \in Channels
      /\ acceptChannel_ \notin DOMAIN unhandled /\ mayRemove(acceptChannel_)
      /\ functors \in Seq(Connections)
  BY <1>1, Conn DEF AcceptorInv, ChannelInv, ChannelsTyped, Turns, mayRemove
<1>3. ChannelInv' /\ StillUnborn BY <1>1, <1>2, RemovingKeeps DEF AcceptorInv
<1>4. at = "idle" BY <1>2 DEF AcceptorInv, KernelTyped
<1>5. KernelTyped' BY <1>1, <1>4 DEF AcceptorInv, KernelTyped, closed
<1>6. Unborn' BY <1>1, <1>3 DEF AcceptorInv, KernelTyped, Unborn, StillUnborn
<1>7. SpareIsOwn' BY <1>1, <1>4 DEF AcceptorInv, KernelTyped, SpareIsOwn, closed
<1>8. QED BY <1>3, <1>5, <1>6, <1>7 DEF AcceptorInv

LEMMA ConnectKeeps ==
    ASSUME AcceptorInv, connect
    PROVE  AcceptorInv'
<1>1. UNCHANGED <<chan, channels_, phase, activeChannels_, unhandled, current, callbacks, functors,
                  broken, table, idleFd_, at>>
  BY DEF connect, channelVars, loopState, acceptorVars
<1>2. PICK c \in coming : backlog' = Append(backlog, c) /\ coming' = coming \ {c}
  BY DEF connect
<1>3. ChannelInv' BY <1>1, ChannelsUnchanged DEF AcceptorInv
<1>4. backlog \in Seq(Connections) /\ c \in Connections /\ chan[c].life = "none"
  BY DEF AcceptorInv, KernelTyped, Unborn
<1>5. /\ backlog' \in Seq(Connections)
      /\ \A i \in DOMAIN backlog' :
            \/ backlog'[i] = c /\ i = Len(backlog) + 1
            \/ i \in DOMAIN backlog /\ backlog'[i] = backlog[i]
  <2>1. PICK b \in Seq(Connections) : b = Append(backlog, c) /\ backlog' = b
    BY <1>2, <1>4
  <2>2. /\ Len(b) = Len(backlog) + 1 /\ b[Len(backlog) + 1] = c
        /\ \A i \in 1 .. Len(backlog) : b[i] = backlog[i]
    BY <1>4, <2>1, AppendProperties
  <2>3. /\ DOMAIN b = 1 .. Len(b) /\ DOMAIN backlog = 1 .. Len(backlog)
        /\ Len(backlog) \in Nat
    BY <1>4
  <2>4. \A i \in DOMAIN b : i \in DOMAIN backlog \/ i = Len(backlog) + 1 BY <2>2, <2>3
  <2>5. \A i \in DOMAIN b :
         (b[i] = c /\ i = Len(backlog) + 1) \/ (i \in DOMAIN backlog /\ b[i] = backlog[i])
    BY <2>2, <2>3, <2>4
  <2>6. QED BY <2>1, <2>5
<1>6. KernelTyped' BY <1>1, <1>2, <1>5 DEF AcceptorInv, KernelTyped
<1>7. \A i \in DOMAIN backlog : backlog[i] # c BY DEF AcceptorInv, Unborn
<1>8. Unborn'
  <2>1. \A i \in DOMAIN backlog' : chan'[backlog'[i]].life = "none" /\ backlog'[i] \notin coming'
    BY <1>1, <1>2, <1>4, <1>5 DEF AcceptorInv, Unborn
  <2>2. \A i, j \in DOMAIN backlog' : backlog'[i] = backlog'[j] => i = j
    BY <1>5, <1>7 DEF AcceptorInv, Unborn
  <2>3. QED BY <1>1, <1>2, <2>1, <2>2 DEF AcceptorInv, Unborn
<1>9. SpareIsOwn' BY <1>1 DEF AcceptorInv, SpareIsOwn
<1>10. QED BY <1>3, <1>6, <1>8, <1>9 DEF AcceptorInv

LEMMA ResetKeeps ==
    ASSUME AcceptorInv, reset
    PROVE  AcceptorInv'
<1>1. UNCHANGED <<chan, channels_, phase, activeChannels_, unhandled, current, callbacks, functors,
                  broken, table, coming, idleFd_, at>>
      /\ backlog # <<>> /\ backlog' = Tail(backlog)
  BY DEF reset, channelVars, loopState, acceptorVars
<1>2. ChannelInv' BY <1>1, ChannelsUnchanged DEF AcceptorInv
<1>3. Unborn' /\ backlog' \in Seq(Connections) BY <1>1, TailKeeps
<1>4. KernelTyped' BY <1>1, <1>3 DEF AcceptorInv, KernelTyped
<1>5. SpareIsOwn' BY <1>1 DEF AcceptorInv, SpareIsOwn
<1>6. QED BY <1>2, <1>3, <1>4, <1>5 DEF AcceptorInv

LEMMA OthersKeep ==
    ASSUME AcceptorInv, otherOpens \/ otherCloses
    PROVE  AcceptorInv'
<1>1. UNCHANGED <<chan, channels_, phase, activeChannels_, unhandled, current, callbacks, functors,
                  broken, backlog, coming, idleFd_, at>>
  BY DEF otherOpens, otherCloses, channelVars, loopState, acceptorVars
<1>2. PICK fd \in 1 .. MaxFd, d \in {"free", "other"} :
         table[fd] \in {"free", "other"} /\ table' = [table EXCEPT ![fd] = d]
  <2>1. CASE otherOpens
    <3>1. PICK free \in 1 .. MaxFd : free = Min(FreeFds) /\ table[free] = "free"
      BY <2>1, GivesFree DEF otherOpens
    <3>2. QED BY <2>1, <3>1 DEF otherOpens
  <2>2. CASE otherCloses
    <3>1. PICK fd \in 1 .. MaxFd : table[fd] = "other" /\ table' = closed(fd)
      BY <2>2 DEF otherCloses
    <3>2. fd # -1 BY AcceptorAssumption
    <3>3. table' = [table EXCEPT ![fd] = "free"] BY <3>1, <3>2 DEF closed
    <3>4. QED BY <3>1, <3>3
  <2>3. QED BY <2>1, <2>2
<1>3. ChannelInv' /\ StillUnborn BY <1>1, ChannelsUnchanged DEF AcceptorInv
<1>4. Unborn' BY <1>1, <1>3, SameBacklogKeeps
<1>5. KernelTyped' BY <1>1, <1>2 DEF AcceptorInv, KernelTyped
<1>6. \A f \in 1 .. MaxFd : table'[f] = "spare" <=> table[f] = "spare"
  BY <1>2 DEF AcceptorInv, KernelTyped
<1>7. SpareIsOwn' BY <1>1, <1>6 DEF AcceptorInv, SpareIsOwn
<1>8. QED BY <1>3, <1>4, <1>5, <1>7 DEF AcceptorInv

-----------------------------------------------------------------------------
(* The theorems *)

LEMMA InitHolds == Init => AcceptorInv
<1> SUFFICES ASSUME Init PROVE AcceptorInv
  OBVIOUS
<1>1. PICK new \in Members : new = NewChannel BY NewIsMember
<1>2. new.life = "none" /\ ~new.handling /\ ~new.added BY <1>1 DEF NewChannel
<1>3. PICK ch : ch = constructed(ListenFd, FALSE) OBVIOUS
<1>4. 0 \in 0 .. MaxFd BY AcceptorAssumption
<1>5. /\ ch \in Members /\ ch.life = "alive" /\ ch.kept /\ ~ch.handling /\ ch.fd = 0
  <2>1. ch = [new EXCEPT !.life = "alive", !.fd = 0, !.kept = TRUE, !.tied = FALSE]
    BY <1>1, <1>3 DEF constructed, ListenFd
  <2>2. QED BY <1>2, <1>4, <2>1 DEF Members
<1>6. /\ chan = [c \in Channels |-> IF c = acceptChannel_ THEN ch ELSE new]
      /\ channels_ = <<>> /\ phase = "functors" /\ activeChannels_ = {} /\ unhandled = <<>>
      /\ current = NoChannel /\ functors = <<>> /\ broken = {}
      /\ table = [fd \in 1 .. MaxFd |-> IF fd = 1 THEN "spare" ELSE "free"]
      /\ backlog = <<>> /\ coming = Connections /\ idleFd_ = 1 /\ at = "idle"
  BY <1>1, <1>3 DEF Init
<1>7. acceptChannel_ \notin Connections BY AcceptorAssumption
<1>8. \A c \in Connections : chan[c].life = "none" BY <1>2, <1>6, <1>7, Conn
<1>9. chan \in [Channels -> Members] BY <1>5, <1>6
<1>10. \A c \in Channels : Alive(c) => c = acceptChannel_ BY <1>2, <1>6 DEF Alive
<1>11. ChannelsTyped BY <1>4, <1>5, <1>6, <1>9, <1>10 DEF ChannelsTyped
<1>12. Registered BY <1>6 DEF Registered
<1>13. Turns BY <1>2, <1>5, <1>6, Conn DEF Turns
<1>14. Kept BY <1>5, <1>6, <1>7, <1>10, Conn DEF Kept
<1>15. KernelTyped BY <1>6, AcceptorAssumption DEF KernelTyped
<1>16. Unborn BY <1>6, <1>8 DEF Unborn
<1>17. SpareIsOwn BY <1>6, AcceptorAssumption DEF SpareIsOwn
<1>18. QED
  BY <1>6, <1>11, <1>12, <1>13, <1>14, <1>15, <1>16, <1>17
     DEF AcceptorInv, ChannelInv, AssertionsHold

LEMMA NextHolds == AcceptorInv /\ [Next]_vars => AcceptorInv'
<1> SUFFICES ASSUME AcceptorInv, [Next]_vars PROVE AcceptorInv'
  OBVIOUS
<1>1. CASE pollReturns BY <1>1, PollReturnsKeeps
<1>2. CASE loopGoesOn BY <1>2, LoopKeeps
<1>3. CASE acceptorGoesOn
  BY <1>3, AcceptKeeps, ErrnoChangedKeeps, ReleaseSpareKeeps, AcceptAgainKeeps, CloseAcceptedKeeps,
     ReopenKeeps DEF acceptorGoesOn
<1>4. CASE listen BY <1>4, ListenKeeps
<1>5. CASE destroy BY <1>5, DestroyKeeps
<1>6. CASE connect BY <1>6, ConnectKeeps
<1>7. CASE reset BY <1>7, ResetKeeps
<1>8. CASE otherOpens \/ otherCloses BY <1>8, OthersKeep
<1>9. CASE UNCHANGED vars
  <2>1. UNCHANGED <<chan, channels_, phase, activeChannels_, unhandled, current, callbacks, functors,
                    broken, table, backlog, coming, idleFd_, at>>
        /\ UNCHANGED acceptorVars
    BY <1>9 DEF vars, channelVars, loopState, kernelVars, acceptorVars
  <2>2. ChannelInv' /\ StillUnborn BY <2>1, ChannelsUnchanged DEF AcceptorInv
  <2>3. KernelTyped' /\ Unborn' /\ SpareIsOwn' BY <2>1, <2>2, KernelKept
  <2>4. QED BY <2>2, <2>3 DEF AcceptorInv
<1>10. QED BY <1>1, <1>2, <1>3, <1>4, <1>5, <1>6, <1>7, <1>8, <1>9 DEF Next, loopThread

\* Channel.cpp:38-42, 57 and EventLoop.cpp:191: no assertion of a channel or of the loop fails and
\* no destroyed channel handles an event, whatever callbacks and functors remove meanwhile.
THEOREM ChannelAssertionsHold == Spec => []AssertionsHold
<1>1. AcceptorInv => AssertionsHold BY DEF AcceptorInv, ChannelInv
<1>2. QED BY <1>1, InitHolds, NextHolds, PTL DEF Spec

\* Acceptor.cpp:67-70: the spare descriptor is the Acceptor's own, whatever other threads open and
\* close between its system calls.
THEOREM SpareDescriptorIsOwn == Spec => []SpareIsOwn
<1>1. AcceptorInv => SpareIsOwn BY DEF AcceptorInv
<1>2. QED BY <1>1, InitHolds, NextHolds, PTL DEF Spec

=============================================================================
