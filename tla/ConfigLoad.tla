------------------------------ MODULE ConfigLoad ------------------------------
(***************************************************************************)
(* mengSen/config: the map of the variables and the loading of files,      *)
(* while other threads use the variables (ConfigVar) and edit the files.   *)
(*                                                                         *)
(* The name of a variable is its path of keys.  A document is the sequence *)
(* of its nodes, in the order of the text: where each is, and the value    *)
(* that its text or its lines convert to, or Unfit.  A thread loads the    *)
(* files of one directory.  Times of modification may also go back, as     *)
(* when a file is replaced by an old one.  None is 0, a second in 1970,    *)
(* which is also what a file that was never loaded is recorded with.       *)
(***************************************************************************)
EXTENDS ConfigVar, SequencesExt

CONSTANTS
    Loaders,        \* the threads that load the directory
    Files,
    Documents,      \* the contents of files
    Times,          \* their times of modification, in seconds
    ValidKeys,      \* keys of letters that may be in a name
    Unparsable, Gone, Unfit,
    MaxEdits, MaxLoads      \* bounds

ASSUME LoadAssumption ==
    /\ Loaders \subseteq Threads /\ Unfit \notin Values
    /\ Times \subseteq Nat \ {0} /\ \A document \in Documents : document \in Seq(Range(document))
    /\ MaxEdits \in Nat /\ MaxLoads \in Nat

VARIABLES
    registered,     \* the keys of _data
    file,           \* each file: [mtime, document]
    recorded,       \* s_file2modifytime; 0 where there is no entry
    load,           \* the call of LoadFromConfDir of each thread
    edits, loads,   \* the edits and loads so far
    unseen,         \* files edited so that their time is still the recorded one
    touched,        \* variables created, set by a caller or given up by a file, which are
                    \* in no file that has been edited, or is to be read, since
    inForce,        \* variables whose value is to be the one of the file
    overlapped      \* variables that two threads have set at the same time, until nobody does

loadVars == <<registered, file, recorded, load, edits, loads, unseen, touched, inForce>>
allVars  == <<vars, loadVars, overlapped>>

NotLoading == [at |-> "none"]
Loading(t) == load[t] # NotLoading

At(t, place) == load[t].at = place

LoadsOverlap == \E t, u \in Threads : t # u /\ Loading(t) /\ Loading(u)

-----------------------------------------------------------------------------
(* The map of variables *)

isValid(name) == \A i \in DOMAIN name : name[i] \in ValidKeys

\* Lookup with a default creates the variable, or returns the one there is; it throws
\* when the name is not valid.
Lookup(t, v) ==
    /\ pc[t] = "idle" /\ ~Loading(t)
    /\ isValid(v) /\ v \notin registered
    /\ registered' = registered \cup {v} /\ touched' = touched \cup {v}
    /\ UNCHANGED <<vars, file, recorded, load, edits, loads, unseen, inForce, overlapped>>

\* A node under a key that is not valid has a name that is not valid either.
memberOf(node) == IF isValid(node.at) THEN <<node>> ELSE <<>>

ListAllMember(document) == FlattenSeq([i \in DOMAIN document |-> memberOf(document[i])])

-----------------------------------------------------------------------------
(* The value of a variable, set by a caller or by a load *)

Setting(v) == {t \in Threads : pc[t] \in {"notify", "write"} /\ call[t].var = v}

setValue(t, v, val) ==
    /\ look(t, v, val)
    /\ overlapped' = IF val # value[v] /\ Setting(v) # {} THEN overlapped \cup {v} ELSE overlapped

use(t) ==
    /\ ~Loading(t)
    /\ \/ \E v \in registered, val \in Values :
              /\ setValue(t, v, val)
              /\ touched' = touched \cup {v} /\ inForce' = inForce \ {v}
       \/ /\ \/ \E v \in registered : lockAndLoad(t, v) \/ clearListener(t, v)
             \/ \E h \in handles : deleteListener(t, h)
          /\ UNCHANGED <<overlapped, touched, inForce>>
    /\ UNCHANGED <<registered, file, recorded, load, edits, loads, unseen>>

callGoesOn(t) ==
    /\ goesOn(t)
    /\ overlapped' = {v \in overlapped : Setting(v)' # {}}
    /\ UNCHANGED loadVars

-----------------------------------------------------------------------------
(* Files *)

busyVars == {v \in Vars : Setting(v) # {}}

\* What can be read of a file, and how it names v: the last node that fits gives the value.
nodesIn(document) == IF document \in {Unparsable, Gone} THEN <<>> ELSE document

Fits(node, v) == node.at = v /\ node.holds \in Values

Names(nodes, v) == \E i \in DOMAIN nodes : Fits(nodes[i], v)

GivesLast(nodes, v, val) ==
    \E i \in DOMAIN nodes :
        /\ Fits(nodes[i], v) /\ nodes[i].holds = val
        /\ \A j \in DOMAIN nodes : Fits(nodes[j], v) => j <= i

NamedIn(document) == {v \in Vars : Names(nodesIn(document), v)}

Namers(v) == {f \in Files : v \in NamedIn(file[f].document)}

\* An editor, not of this program.
edit(f) ==
    /\ edits < MaxEdits /\ edits' = edits + 1
    /\ \E time \in Times, document \in Documents \cup {Unparsable, Gone} :
          /\ document # file[f].document
          /\ file' = [file EXCEPT ![f] = [mtime |-> time, document |-> document]]
          /\ unseen' = IF time = recorded[f] THEN unseen \cup {f} ELSE unseen \ {f}
          /\ touched' = IF LoadsOverlap THEN Vars
                        ELSE ((touched \cup NamedIn(file[f].document)) \ NamedIn(document))
                             \cup busyVars
    /\ inForce' = {}
    /\ UNCHANGED <<vars, registered, recorded, load, loads, overlapped>>

\* lstat of a file that is gone leaves the buffer as it was.
TimesRead(f) == IF file[f].document = Gone THEN Times \cup {0} ELSE {file[f].mtime}

\* The files that a load will read if they stay as they are.
Due(force) == {f \in Files : force \/ recorded[f] # file[f].mtime}

LoadFromConfDir(t, force) ==
    /\ pc[t] = "idle" /\ ~Loading(t) /\ loads < MaxLoads
    /\ loads' = loads + 1
    /\ load' = [load EXCEPT ![t] =
         [at |-> "next", force |-> force, files |-> {f \in Files : file[f].document # Gone},
          known |-> registered, begun |-> edits]]
    /\ touched' = IF \E u \in Threads : Loading(u) THEN Vars
                  ELSE (touched \ {v \in Vars : Namers(v) \subseteq Due(force)}) \cup busyVars
    /\ UNCHANGED <<vars, registered, file, recorded, edits, unseen, inForce, overlapped>>

lstat(t) ==
    /\ At(t, "next") /\ pc[t] = "idle"
    /\ \E f \in load[t].files : \E time \in TimesRead(f) :
          load' = [load EXCEPT ![t] =
            [at |-> "compare", file |-> f, time |-> time, force |-> @.force,
             files |-> @.files \ {f}, known |-> @.known, begun |-> @.begun]]
    /\ UNCHANGED <<vars, registered, file, recorded, edits, loads, unseen, touched, inForce, overlapped>>

\* The variant: only a file that is newer is loaded.
isUnchanged_newer(f, time) == time <= recorded[f]

isUnchanged(f, time) == recorded[f] = time

\* Under m_mutex.
compare(t) ==
    /\ At(t, "compare")
    /\ LET f == load[t].file  time == load[t].time
       IN  IF ~load[t].force /\ isUnchanged(f, time)
           THEN /\ load' = [load EXCEPT ![t].at = "next"]
                /\ UNCHANGED <<recorded, unseen>>
           ELSE /\ load' = [load EXCEPT ![t].at = "read"]
                /\ recorded' = [recorded EXCEPT ![f] = time]
                /\ unseen' = unseen \ {f}
    /\ UNCHANGED <<vars, registered, file, edits, loads, touched, inForce, overlapped>>

\* The rest of a load, which still has nodes to apply.
withNodes(current, nodes) ==
    [at |-> IF nodes = <<>> THEN "next" ELSE "apply", nodes |-> nodes, force |-> current.force,
     files |-> current.files, known |-> current.known, begun |-> current.begun]

\* A file that is gone or that cannot be parsed throws, which ends its load.
LoadFile(t) ==
    /\ At(t, "read")
    /\ LET document == file[load[t].file].document
       IN  load' = [load EXCEPT ![t] = withNodes(@, ListAllMember(nodesIn(document)))]
    /\ UNCHANGED <<vars, registered, file, recorded, edits, loads, unseen, touched, inForce, overlapped>>

\* LoadFromYaml: LookupBase and fromString for one node after the other.
LoadFromYaml(t) ==
    /\ At(t, "apply") /\ pc[t] = "idle"
    /\ LET node == Head(load[t].nodes)
       IN  IF node.at \in registered /\ node.holds \in Values
           THEN setValue(t, node.at, node.holds)
           ELSE UNCHANGED <<vars, overlapped>>
    /\ load' = [load EXCEPT ![t] = withNodes(@, Tail(@.nodes))]
    /\ UNCHANGED <<registered, file, recorded, edits, loads, unseen, touched, inForce>>

\* The return of a load that no edit has overlapped puts the files in force, as far as it
\* has not compared them with a record that an edit went by unseen.
loadReturns(t) ==
    /\ At(t, "next") /\ pc[t] = "idle" /\ load[t].files = {}
    /\ load' = [load EXCEPT ![t] = NotLoading]
    /\ inForce' = IF load[t].begun # edits THEN inForce
                  ELSE inForce \cup
                       {v \in load[t].known \ touched : \E f \in Files \ unseen : Namers(v) = {f}}
    /\ UNCHANGED <<vars, registered, file, recorded, edits, loads, unseen, touched, overlapped>>

loadGoesOn(t) ==
    \/ lstat(t) \/ compare(t) \/ LoadFile(t) \/ LoadFromYaml(t) \/ loadReturns(t)

-----------------------------------------------------------------------------
LoadInit ==
    /\ Init
    /\ registered = {}
    /\ file \in [Files -> [mtime : Times, document : Documents]]
    /\ recorded = [f \in Files |-> 0]
    /\ load = [t \in Threads |-> NotLoading]
    /\ edits = 0 /\ loads = 0
    /\ unseen = {} /\ touched = {} /\ inForce = {} /\ overlapped = {}

LoadNext ==
    \/ \E t \in Threads :
          \/ use(t) \/ callGoesOn(t) \/ loadGoesOn(t)
          \/ \E v \in Vars : Lookup(t, v)
    \/ \E t \in Loaders, force \in BOOLEAN : LoadFromConfDir(t, force)
    \/ \E f \in Files : edit(f)

LoadFairness == \A t \in Threads : WF_allVars(callGoesOn(t))

LoadSpec == LoadInit /\ [][LoadNext]_allVars /\ LoadFairness

-----------------------------------------------------------------------------
(* Properties *)

\* config.cpp:211-234: once LoadFromConfDir has returned, a variable that was known when it
\* began, and that nobody has set otherwise, has the value that the edited file holds,
\* whatever was edited while earlier loads were under way.  Left aside, as the code
\* cannot tell or does not: an edit that keeps the recorded time, loads that overlap, and a
\* variable that several files name.
LoadTakesEffect ==
    (\A t \in Threads : pc[t] = "idle" /\ ~Loading(t)) =>
        \A v \in inForce : \E f \in Files :
            Namers(v) = {f} /\ GivesLast(nodesIn(file[f].document), v, value[v])

\* Thread t, which sets v, has told the listeners that it found, and that are still there,
\* that v changes from its value to the one to be written, and nobody told them more.
HasTold(t, v) ==
    \A k \in DOMAIN func[v] : func[v][k] \in call[t].there =>
        /\ told[func[v][k]] # <<>>
        /\ Last(told[func[v][k]]) = <<value[v], call[t].val>>

\* config.h:424-425: if the value changes, the registered listeners are notified: when a
\* value is written, every listener there that was there when the change began was last
\* told of this very change.  Left aside are variables that another thread is setting too,
\* and, against that comment, a listener added between the two locks (config.cpp:72-73),
\* which is there when the value changes and is never told.
ListenersTold ==
    [][\A t \in Threads, v \in Vars \ overlapped :
          write(t) /\ call[t].var = v => HasTold(t, v)]_allVars

=============================================================================
