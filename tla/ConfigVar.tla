------------------------------ MODULE ConfigVar ------------------------------
(***************************************************************************)
(* mengSen/config: the variables of one type, their values and listeners,  *)
(* used by several threads.                                                *)
(*                                                                         *)
(* Each variable has a shared_mutex.  Whoever reads it, calls its          *)
(* listeners or changes it holds that lock, shared or not, which here is   *)
(* to be at certain places: Readers and Writers.  The counter of listeners *)
(* is one static of the function addListener, and so one for all variables *)
(* of the type: the lock of one variable does not protect it from the      *)
(* users of another, and its loads and stores are steps.  A listener is    *)
(* its number in the order of the calls of addListener; it returns, and    *)
(* does not use the variable.  A definition named <x>_<variant> is x with  *)
(* a plausible slip in it.                                                 *)
(***************************************************************************)
EXTENDS Integers, Sequences, Functions

CONSTANTS
    Threads,
    Vars,       \* the variables of the type
    Values,     \* their values
    Initial,    \* the default value of each
    MaxCalls    \* bound: calls in a behaviour

ASSUME InputsAssumption == Initial \in Values /\ MaxCalls \in Nat

VARIABLES
    value,      \* _value of each variable
    func,       \* _func of each variable: from keys to listeners
    func_id,    \* the static counter
    pc,         \* where each thread is
    call,       \* the arguments and locals of its call; there, which no code reads: the
                \* listeners that setValue found
    calls,      \* the calls so far
    handles,    \* the keys that callers hold: [var, key, listener]
    told        \* what each listener has been told: pairs of an old and a new value

vars == <<value, func, func_id, pc, call, calls, handles, told>>

Listener == 1 .. MaxCalls
NoCall   == [op |-> "none"]

-----------------------------------------------------------------------------
(* The lock of a variable *)

\* The variants: the shared lock is released before the listeners are called, and held
\* until the value is written.
Readers_none(v) == {}

Readers_until_written(v) == {t \in Threads : pc[t] \in {"notify", "write"} /\ call[t].var = v}

Readers(v) == {t \in Threads : pc[t] = "notify" /\ call[t].var = v}

\* The variant: addListener takes no lock.
Writers_none(v) == {}

Writers(v) == {t \in Threads : pc[t] \in {"store", "insert", "return"} /\ call[t].var = v}

MayRead(v)  == Writers(v) = {}
MayWrite(v) == Writers(v) = {} /\ Readers(v) = {}

begins(t) == pc[t] = "idle" /\ calls < MaxCalls /\ calls' = calls + 1

Goto(t, place) == pc' = [pc EXCEPT ![t] = place]

-----------------------------------------------------------------------------
(* setValue, called or from fromString *)

look(t, v, val) ==
    /\ begins(t) /\ MayRead(v)
    /\ IF val = value[v]
       THEN UNCHANGED <<pc, call>>
       ELSE /\ Goto(t, "notify")
            /\ call' = [call EXCEPT ![t] =
                 [op |-> "setValue", var |-> v, val |-> val,
                  todo |-> {[key |-> k, listener |-> func[v][k]] : k \in DOMAIN func[v]},
                  there |-> {func[v][k] : k \in DOMAIN func[v]}]]
    /\ UNCHANGED <<value, func, func_id, handles, told>>

\* The variant: a listener is told the new value as the old one.
notify_swapped(t) ==
    /\ pc[t] = "notify"
    /\ \E entry \in call[t].todo :
          /\ \A other \in call[t].todo : entry.key <= other.key
          /\ told' = [told EXCEPT ![entry.listener] =
                         Append(@, <<call[t].val, value[call[t].var]>>)]
          /\ call' = [call EXCEPT ![t].todo = @ \ {entry}]
    /\ UNCHANGED <<value, func, func_id, pc, calls, handles>>

\* The listeners found in the map are called in the order of their keys.
notify(t) ==
    /\ pc[t] = "notify"
    /\ \E entry \in call[t].todo :
          /\ \A other \in call[t].todo : entry.key <= other.key
          /\ told' = [told EXCEPT ![entry.listener] =
                         Append(@, <<value[call[t].var], call[t].val>>)]
          /\ call' = [call EXCEPT ![t].todo = @ \ {entry}]
    /\ UNCHANGED <<value, func, func_id, pc, calls, handles>>

unlockShared(t) ==
    /\ pc[t] = "notify" /\ call[t].todo = {}
    /\ Goto(t, "write")
    /\ UNCHANGED <<value, func, func_id, call, calls, handles, told>>

write(t) ==
    /\ pc[t] = "write" /\ MayWrite(call[t].var)
    /\ value' = [value EXCEPT ![call[t].var] = call[t].val]
    /\ Goto(t, "idle")
    /\ call' = [call EXCEPT ![t] = NoCall]
    /\ UNCHANGED <<func, func_id, calls, handles, told>>

-----------------------------------------------------------------------------
(* Listeners *)

\* ++func_id is a load and a store, and what follows may load the counter again.
lockAndLoad(t, v) ==
    /\ begins(t) /\ MayWrite(v)
    /\ Goto(t, "store")
    /\ call' = [call EXCEPT ![t] =
         [op |-> "addListener", var |-> v, id |-> func_id + 1, listener |-> calls']]
    /\ UNCHANGED <<value, func, func_id, handles, told>>

storeId(t) ==
    /\ pc[t] = "store"
    /\ func_id' = call[t].id
    /\ Goto(t, "insert")
    /\ UNCHANGED <<value, func, call, calls, handles, told>>

insert(t) ==
    /\ pc[t] = "insert"
    /\ \E key \in {call[t].id, func_id} :
          func' = [func EXCEPT ![call[t].var] =
                     [k \in DOMAIN @ \cup {key} |-> IF k = key THEN call[t].listener ELSE @[k]]]
    /\ Goto(t, "return")
    /\ UNCHANGED <<value, func_id, call, calls, handles, told>>

addReturns(t) ==
    /\ pc[t] = "return"
    /\ \E key \in {call[t].id, func_id} :
          handles' = handles \cup
            {[var |-> call[t].var, key |-> key, listener |-> call[t].listener]}
    /\ Goto(t, "idle")
    /\ call' = [call EXCEPT ![t] = NoCall]
    /\ UNCHANGED <<value, func, func_id, calls, told>>

\* By a caller that has the key.
deleteListener(t, h) ==
    /\ begins(t) /\ MayWrite(h.var)
    /\ func' = [func EXCEPT ![h.var] = Restrict(@, DOMAIN @ \ {h.key})]
    /\ handles' = handles \ {h}
    /\ UNCHANGED <<value, func_id, pc, call, told>>

clearListener(t, v) ==
    /\ begins(t) /\ MayWrite(v)
    /\ func' = [func EXCEPT ![v] = <<>>]
    /\ handles' = {h \in handles : h.var # v}
    /\ UNCHANGED <<value, func_id, pc, call, told>>

-----------------------------------------------------------------------------
Init ==
    /\ value = [v \in Vars |-> Initial]
    /\ func = [v \in Vars |-> <<>>]
    /\ func_id = 0
    /\ pc = [t \in Threads |-> "idle"] /\ call = [t \in Threads |-> NoCall]
    /\ calls = 0 /\ handles = {}
    /\ told = [l \in Listener |-> <<>>]

\* What a thread does of itself once it has called a function.
goesOn(t) ==
    notify(t) \/ unlockShared(t) \/ write(t) \/ storeId(t) \/ insert(t) \/ addReturns(t)

Next ==
    \E t \in Threads :
        \/ goesOn(t)
        \/ \E v \in Vars : \/ lockAndLoad(t, v) \/ clearListener(t, v)
                           \/ \E val \in Values : look(t, v, val)
        \/ \E h \in handles : deleteListener(t, h)

\* A thread in a call is scheduled, and gets a lock that stays free; listeners return.
Fairness == \A t \in Threads : WF_vars(goesOn(t))

\* What may happen, whoever is scheduled.
Steps == Init /\ [][Next]_vars

Spec == Steps /\ Fairness

-----------------------------------------------------------------------------
(* Properties *)

\* config.h:436, the unique id that addListener returns: until the listener is
\* deleted, by its key or with all others, the key is the one of that listener.
KeysNameListeners ==
    \A h \in handles :
        h.key \in DOMAIN func[h.var] /\ func[h.var][h.key] = h.listener

\* Every call returns: no thread waits for a lock that it holds itself, or that is
\* held by one that waits for this one.
CallsReturn == \A t \in Threads : pc[t] # "idle" ~> pc[t] = "idle"

Registered == {l \in Listener : \E v \in Vars : \E k \in DOMAIN func[v] : func[v][k] = l}

\* Whoever has deleted a listener need not fear that it is called afterwards, by a
\* setValue that was under way at the time: a listener is told only while it is there.
DeletedStaysQuiet ==
    [][\A l \in Listener : told'[l] # told[l] => l \in Registered]_vars

=============================================================================
