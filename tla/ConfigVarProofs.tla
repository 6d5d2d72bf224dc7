--------------------------- MODULE ConfigVarProofs ---------------------------
(***************************************************************************)
(* Theorems about ConfigVar for any threads, variables, values and number  *)
(* of calls.  They are about Steps, without fairness, and so hold of Spec, *)
(* and of the variables while files are loaded (ConfigLoad), whose steps   *)
(* are shown to be steps of theirs.                                        *)
(*                                                                         *)
(* Casts: the conversions of any type, containers nested to any depth,     *)
(* lose nothing that YAML keeps.                                           *)
(***************************************************************************)
EXTENDS ConfigLoad, Casts, DataLemmas, TLAPS

Places     == {"idle", "notify", "write", "store", "insert", "return"}
InSet(t)   == pc[t] \in {"notify", "write"}
InAdd(t)   == pc[t] \in {"store", "insert", "return"}
Entries    == [key : Nat, listener : Listener]
SetCall    == [op : {"setValue"}, var : Vars, val : Values, todo : SUBSET Entries,
               there : SUBSET Listener]
AddCall    == [op : {"addListener"}, var : Vars, id : Nat, listener : Listener]

ListenersOK ==
    /\ DOMAIN func = Vars /\ func = [v \in Vars |-> func[v]]
    /\ \A v \in Vars : DOMAIN func[v] \subseteq Nat
    /\ \A v \in Vars : \A k \in DOMAIN func[v] : func[v][k] \in Listener

PlacesOK ==
    /\ pc \in [Threads -> Places]
    /\ DOMAIN call = Threads /\ call = [t \in Threads |-> call[t]]
    /\ \A t \in Threads : InSet(t) => call[t] \in SetCall
    /\ \A t \in Threads : InAdd(t) => call[t] \in AddCall

TypeOK ==
    /\ ListenersOK /\ PlacesOK
    /\ value \in [Vars -> Values]
    /\ func_id \in Nat /\ calls \in 0 .. MaxCalls
    /\ handles \subseteq [var : Vars, key : Nat, listener : Listener]
    /\ told \in [Listener -> Seq(Values \X Values)]

\* Who has the lock of a variable to write has it alone.
Exclusion ==
    \A t, u \in Threads :
        InAdd(t) /\ (InAdd(u) \/ pc[u] = "notify") /\ t # u => call[t].var # call[u].var

\* What a thread has still to call is in the map.
EntriesThere ==
    \A t \in Threads : pc[t] = "notify" =>
        \A e \in call[t].todo :
            e.key \in DOMAIN func[call[t].var] /\ func[call[t].var][e.key] = e.listener

ConfigInv == TypeOK /\ Exclusion /\ EntriesThere

\* With a single variable, whose lock then protects the counter.
KeysInOrder ==
    /\ \A h \in handles : h.key <= func_id
    /\ \A g, h \in handles : g.key = h.key => g = h
    /\ \A t \in Threads : pc[t] = "store" => call[t].id = func_id + 1
    /\ \A t \in Threads : pc[t] \in {"insert", "return"} =>
          call[t].id = func_id /\ \A h \in handles : h.key < func_id
    /\ \A t \in Threads : pc[t] = "return" =>
          /\ func_id \in DOMAIN func[call[t].var]
          /\ func[call[t].var][func_id] = call[t].listener

KeyInv == KeysInOrder /\ KeysNameListeners

-----------------------------------------------------------------------------
\* A thread goes on to a place of its call, with or without a change of its locals; the
\* others stay where they are.
LEMMA GotoStep ==
    ASSUME NEW t \in Threads, NEW place \in Places, PlacesOK, Goto(t, place),
           call' = call,
           place \in {"notify", "write"} => call[t] \in SetCall,
           place \in {"store", "insert", "return"} => call[t] \in AddCall
    PROVE  /\ PlacesOK'
           /\ pc'[t] = place /\ \A u \in Threads \ {t} : pc'[u] = pc[u]
  BY DEF PlacesOK, Goto, InSet, InAdd

LEMMA CallStep ==
    ASSUME NEW t \in Threads, NEW c, PlacesOK, call' = [call EXCEPT ![t] = c],
           pc' \in [Threads -> Places],
           \A u \in Threads \ {t} : pc'[u] = pc[u],
           pc'[t] \in {"notify", "write"} => c \in SetCall,
           pc'[t] \in {"store", "insert", "return"} => c \in AddCall
    PROVE  /\ PlacesOK'
           /\ call'[t] = c /\ \A u \in Threads \ {t} : call'[u] = call[u]
  BY DEF PlacesOK, InSet, InAdd

LEMMA GotoCallStep ==
    ASSUME NEW t \in Threads, NEW place \in Places, NEW c, PlacesOK, Goto(t, place),
           call' = [call EXCEPT ![t] = c],
           place \in {"notify", "write"} => c \in SetCall,
           place \in {"store", "insert", "return"} => c \in AddCall
    PROVE  /\ PlacesOK'
           /\ pc'[t] = place /\ \A u \in Threads \ {t} : pc'[u] = pc[u]
           /\ call'[t] = c /\ \A u \in Threads \ {t} : call'[u] = call[u]
<1>1. pc' \in [Threads -> Places] /\ pc'[t] = place
  BY DEF PlacesOK, Goto
<1>2. \A u \in Threads \ {t} : pc'[u] = pc[u]
  BY DEF PlacesOK, Goto
<1>3. QED BY <1>1, <1>2, CallStep

LEMMA InitConfig == Init => ConfigInv
<1> SUFFICES ASSUME Init PROVE ConfigInv
  OBVIOUS
<1>1. DOMAIN <<>> = {}
  OBVIOUS
<1>2. TypeOK
  <2>1. \A v \in Vars : DOMAIN func[v] = {}
    BY <1>1 DEF Init
  <2>2. <<>> \in Seq(Values \X Values)
    OBVIOUS
  <2>3. \A t \in Threads : pc[t] = "idle"
    BY DEF Init
  <2>4. \A t \in Threads : ~InSet(t) /\ ~InAdd(t)
    BY <2>3 DEF InSet, InAdd
  <2>5. pc \in [Threads -> Places]
    BY DEF Init, Places
  <2>6. calls \in 0 .. MaxCalls /\ func_id \in Nat /\ value \in [Vars -> Values]
    BY InputsAssumption DEF Init
  <2>7. told \in [Listener -> Seq(Values \X Values)]
    BY <2>2 DEF Init
  <2>8. ListenersOK /\ PlacesOK
    BY <2>1, <2>4, <2>5 DEF Init, ListenersOK, PlacesOK
  <2>9. QED BY <2>6, <2>7, <2>8 DEF Init, TypeOK
<1>3. QED BY <1>2 DEF Init, ConfigInv, Exclusion, EntriesThere, InAdd

-----------------------------------------------------------------------------
\* What the steps of a call make of the places, with the two forms of the lemmas above.
CallAt(t, place) ==
    /\ PlacesOK'
    /\ pc'[t] = place /\ \A u \in Threads \ {t} : pc'[u] = pc[u]

Locals(t, c) == call'[t] = c /\ \A u \in Threads \ {t} : call'[u] = call[u]

SetLocals(v, val) ==
    [op |-> "setValue", var |-> v, val |-> val,
     todo |-> {[key |-> k, listener |-> func[v][k]] : k \in DOMAIN func[v]},
     there |-> {func[v][k] : k \in DOMAIN func[v]}]

AddLocals(v) == [op |-> "addListener", var |-> v, id |-> func_id + 1, listener |-> calls']

LEMMA BeginsType ==
    ASSUME TypeOK, NEW t \in Threads, begins(t)
    PROVE  calls' \in 0 .. MaxCalls /\ calls' \in Listener
  BY InputsAssumption DEF TypeOK, begins, Listener

LEMMA LookPlaces ==
    ASSUME TypeOK, NEW t \in Threads, NEW v \in Vars, NEW val \in Values, look(t, v, val),
           val # value[v]
    PROVE  CallAt(t, "notify") /\ Locals(t, SetLocals(v, val))
<1> DEFINE c == SetLocals(v, val)
<1>1. c \in SetCall
  <2>1. \A k \in DOMAIN func[v] : [key |-> k, listener |-> func[v][k]] \in Entries
    BY DEF TypeOK, ListenersOK, Entries
  <2>2. {func[v][k] : k \in DOMAIN func[v]} \subseteq Listener
    BY DEF TypeOK, ListenersOK
  <2>3. QED BY <2>1, <2>2 DEF SetCall, SetLocals
<1>2. Goto(t, "notify") /\ call' = [call EXCEPT ![t] = c]
  BY DEF look, SetLocals
<1>3. "notify" \in Places
  BY DEF Places
<1> HIDE DEF c
<1>4. PlacesOK /\ "notify" \notin {"store", "insert", "return"}
  BY DEF TypeOK
<1>5. CallAt(t, "notify") /\ Locals(t, c)
  BY ONLY <1>1, <1>2, <1>3, <1>4, GotoCallStep, t \in Threads DEF CallAt, Locals
<1>6. QED BY <1>5 DEF c

LEMMA NotifyPlaces ==
    ASSUME TypeOK, NEW t \in Threads, pc[t] = "notify", pc' = pc,
           NEW entry \in call[t].todo, call' = [call EXCEPT ![t].todo = @ \ {entry}]
    PROVE  CallAt(t, "notify") /\ Locals(t, [call[t] EXCEPT !.todo = @ \ {entry}])
<1> DEFINE c == [call[t] EXCEPT !.todo = @ \ {entry}]
<1>1. call[t] \in SetCall
  BY DEF TypeOK, PlacesOK, InSet
<1>2. c \in SetCall /\ call' = [call EXCEPT ![t] = c]
  BY <1>1 DEF SetCall, TypeOK, PlacesOK
<1> HIDE DEF c
<1>3. CallAt(t, "notify") /\ Locals(t, c)
  BY <1>2, CallStep DEF TypeOK, PlacesOK, CallAt, Locals
<1>4. QED BY <1>3 DEF c

LEMMA UnlockPlaces ==
    ASSUME TypeOK, NEW t \in Threads, unlockShared(t)
    PROVE  CallAt(t, "write") /\ call' = call
  BY GotoStep DEF TypeOK, PlacesOK, InSet, unlockShared, Places, CallAt

LEMMA WritePlaces ==
    ASSUME TypeOK, NEW t \in Threads, write(t)
    PROVE  CallAt(t, "idle") /\ Locals(t, NoCall)
  BY GotoCallStep DEF TypeOK, write, Places, CallAt, Locals

LEMMA LoadPlaces ==
    ASSUME TypeOK, NEW t \in Threads, NEW v \in Vars, lockAndLoad(t, v)
    PROVE  CallAt(t, "store") /\ Locals(t, AddLocals(v))
<1>1. AddLocals(v) \in AddCall
  BY BeginsType DEF TypeOK, lockAndLoad, AddCall, AddLocals
<1>2. Goto(t, "store") /\ call' = [call EXCEPT ![t] = AddLocals(v)]
  BY DEF lockAndLoad, AddLocals
<1>3. QED BY <1>1, <1>2, GotoCallStep DEF TypeOK, Places, CallAt, Locals

LEMMA StorePlaces ==
    ASSUME TypeOK, NEW t \in Threads, storeId(t)
    PROVE  CallAt(t, "insert") /\ call' = call
  BY GotoStep DEF TypeOK, PlacesOK, InAdd, storeId, Places, CallAt

LEMMA InsertPlaces ==
    ASSUME TypeOK, NEW t \in Threads, insert(t)
    PROVE  CallAt(t, "return") /\ call' = call
  BY GotoStep DEF TypeOK, PlacesOK, InAdd, insert, Places, CallAt

LEMMA ReturnPlaces ==
    ASSUME TypeOK, NEW t \in Threads, addReturns(t)
    PROVE  CallAt(t, "idle") /\ Locals(t, NoCall)
  BY GotoCallStep DEF TypeOK, addReturns, Places, CallAt, Locals

\* What insert makes of the map of its variable, and what it leaves alone.
LEMMA InsertEffect ==
    ASSUME TypeOK, NEW t \in Threads, insert(t)
    PROVE  \E key \in {call[t].id, func_id} :
              /\ DOMAIN func'[call[t].var] = DOMAIN func[call[t].var] \cup {key}
              /\ \A k \in DOMAIN func'[call[t].var] :
                    func'[call[t].var][k] =
                        IF k = key THEN call[t].listener ELSE func[call[t].var][k]
              /\ \A v \in Vars : v # call[t].var => func'[v] = func[v]
              /\ DOMAIN func' = Vars /\ func' = [v \in Vars |-> func'[v]]
<1>1. PICK key \in {call[t].id, func_id} :
        func' = [func EXCEPT ![call[t].var] =
                   [k \in DOMAIN @ \cup {key} |-> IF k = key THEN call[t].listener ELSE @[k]]]
  BY DEF insert
<1>2. call[t].var \in Vars
  BY DEF TypeOK, PlacesOK, InAdd, insert, AddCall
<1>3. QED BY <1>1, <1>2 DEF TypeOK, ListenersOK

-----------------------------------------------------------------------------
LEMMA TypeStep == TypeOK /\ Next => TypeOK'
<1> SUFFICES ASSUME TypeOK, Next PROVE TypeOK'
  OBVIOUS
<1>1. ASSUME NEW t \in Threads, NEW v \in Vars, NEW val \in Values, look(t, v, val)
      PROVE  TypeOK'
  <2>1. calls' \in 0 .. MaxCalls
    BY <1>1, BeginsType DEF look
  <2>2. PlacesOK'
    <3>1. CASE val = value[v]
      BY <1>1, <3>1 DEF TypeOK, look, PlacesOK, InSet, InAdd
    <3>2. CASE val # value[v]
      BY <1>1, <3>2, LookPlaces DEF CallAt
    <3>3. QED BY <3>1, <3>2
  <2>3. QED BY <1>1, <2>1, <2>2 DEF TypeOK, look, ListenersOK
<1>2. ASSUME NEW t \in Threads, notify(t) PROVE TypeOK'
  <2>1. PICK entry \in call[t].todo :
          /\ told' = [told EXCEPT ![entry.listener] =
                         Append(@, <<value[call[t].var], call[t].val>>)]
          /\ call' = [call EXCEPT ![t].todo = @ \ {entry}]
    BY <1>2 DEF notify
  <2>2. call[t] \in SetCall
    BY <1>2 DEF TypeOK, PlacesOK, InSet, notify
  <2> DEFINE pair == <<value[call[t].var], call[t].val>>
             S    == Values \X Values
  <2>3. entry \in Entries /\ pair \in S
    BY <2>2 DEF SetCall, TypeOK
  <2>4. told' = [told EXCEPT ![entry.listener] = Append(told[entry.listener], pair)]
    BY <2>1
  <2>5. told \in [Listener -> Seq(S)]
    BY DEF TypeOK
  <2>6. told' \in [Listener -> Seq(S)]
    <3> HIDE DEF pair, S
    <3>1. told[entry.listener] \in Seq(S)
      BY <2>3, <2>5 DEF Entries
    <3>2. Append(told[entry.listener], pair) \in Seq(S)
      BY <2>3, <3>1
    <3>3. QED BY <2>4, <2>5, <3>2
  <2>7. PlacesOK'
    BY <1>2, <2>1, NotifyPlaces DEF notify, CallAt
  <2>8. QED BY <1>2, <2>6, <2>7 DEF TypeOK, notify, ListenersOK
<1>3. ASSUME NEW t \in Threads, unlockShared(t) PROVE TypeOK'
  BY <1>3, UnlockPlaces DEF CallAt, TypeOK, unlockShared, ListenersOK
<1>4. ASSUME NEW t \in Threads, write(t) PROVE TypeOK'
  <2>1. call[t] \in SetCall
    BY <1>4 DEF TypeOK, PlacesOK, InSet, write
  <2>2. value' \in [Vars -> Values]
    BY <1>4, <2>1 DEF TypeOK, write, SetCall
  <2>3. QED BY <1>4, <2>2, WritePlaces DEF CallAt, TypeOK, write, ListenersOK
<1>5. ASSUME NEW t \in Threads, NEW v \in Vars, lockAndLoad(t, v) PROVE TypeOK'
  <2>1. calls' \in 0 .. MaxCalls
    BY <1>5, BeginsType DEF lockAndLoad
  <2>2. QED BY <1>5, <2>1, LoadPlaces DEF CallAt, TypeOK, lockAndLoad, ListenersOK
<1>6. ASSUME NEW t \in Threads, storeId(t) PROVE TypeOK'
  <2>1. func_id' \in Nat
    BY <1>6 DEF TypeOK, PlacesOK, InAdd, storeId, AddCall
  <2>2. QED BY <1>6, <2>1, StorePlaces DEF CallAt, TypeOK, storeId, ListenersOK
<1>7. ASSUME NEW t \in Threads, insert(t) PROVE TypeOK'
  <2>1. call[t] \in AddCall
    BY <1>7 DEF TypeOK, PlacesOK, InAdd, insert
  <2>2. ListenersOK'
    <3>1. PICK key \in {call[t].id, func_id} :
            /\ DOMAIN func'[call[t].var] = DOMAIN func[call[t].var] \cup {key}
            /\ \A k \in DOMAIN func'[call[t].var] :
                  func'[call[t].var][k] =
                      IF k = key THEN call[t].listener ELSE func[call[t].var][k]
            /\ \A v \in Vars : v # call[t].var => func'[v] = func[v]
            /\ DOMAIN func' = Vars /\ func' = [v \in Vars |-> func'[v]]
      BY <1>7, InsertEffect
    <3>2. key \in Nat /\ call[t].listener \in Listener
      BY <2>1, <3>1 DEF TypeOK, AddCall
    <3>3. \A v \in Vars : DOMAIN func'[v] \subseteq Nat
      BY <3>1, <3>2, ZenonT(30) DEF TypeOK, ListenersOK
    <3>4. \A v \in Vars : \A k \in DOMAIN func'[v] : func'[v][k] \in Listener
      <4> SUFFICES ASSUME NEW v \in Vars, NEW k \in DOMAIN func'[v]
                   PROVE  func'[v][k] \in Listener
        OBVIOUS
      <4>1. CASE v = call[t].var
        BY <3>1, <3>2, <4>1 DEF TypeOK, ListenersOK
      <4>2. CASE v # call[t].var
        BY <3>1, <4>2 DEF TypeOK, ListenersOK
      <4>3. QED BY <4>1, <4>2
    <3>5. QED BY <3>1, <3>3, <3>4 DEF ListenersOK
  <2>3. QED BY <1>7, <2>2, InsertPlaces DEF CallAt, TypeOK, insert
<1>8. ASSUME NEW t \in Threads, addReturns(t) PROVE TypeOK'
  <2>1. call[t] \in AddCall
    BY <1>8 DEF TypeOK, PlacesOK, InAdd, addReturns
  <2>2. handles' \subseteq [var : Vars, key : Nat, listener : Listener]
    BY <1>8, <2>1 DEF TypeOK, addReturns, AddCall
  <2>3. QED BY <1>8, <2>2, ReturnPlaces DEF CallAt, TypeOK, addReturns, ListenersOK
<1>9. ASSUME NEW t \in Threads, NEW h \in handles, deleteListener(t, h) PROVE TypeOK'
  <2>1. calls' \in 0 .. MaxCalls
    BY <1>9, BeginsType DEF deleteListener
  <2>2. PlacesOK'
    BY <1>9 DEF TypeOK, deleteListener, PlacesOK, InSet, InAdd
  <2>3. ListenersOK'
    BY <1>9 DEF TypeOK, deleteListener, ListenersOK, Restrict
  <2>4. QED BY <1>9, <2>1, <2>2, <2>3 DEF TypeOK, deleteListener
<1>10. ASSUME NEW t \in Threads, NEW v \in Vars, clearListener(t, v) PROVE TypeOK'
  <2>1. calls' \in 0 .. MaxCalls
    BY <1>10, BeginsType DEF clearListener
  <2>2. DOMAIN <<>> = {}
    OBVIOUS
  <2>3. PlacesOK'
    BY <1>10 DEF TypeOK, clearListener, PlacesOK, InSet, InAdd
  <2>4. ListenersOK'
    BY <1>10, <2>2 DEF TypeOK, clearListener, ListenersOK
  <2>5. QED BY <1>10, <2>1, <2>3, <2>4 DEF TypeOK, clearListener
<1>11. QED BY <1>1, <1>2, <1>3, <1>4, <1>5, <1>6, <1>7, <1>8, <1>9, <1>10 DEF Next, goesOn

-----------------------------------------------------------------------------
\* The lock stays with those who have it, or goes to t if it is free for t.
LEMMA LockStep ==
    ASSUME Exclusion, NEW t \in Threads,
           \A u \in Threads \ {t} : pc'[u] = pc[u] /\ call'[u] = call[u],
           InAdd(t)' => \/ InAdd(t) /\ call'[t].var = call[t].var
                        \/ \A u \in Threads \ {t} :
                              InAdd(u) \/ pc[u] = "notify" => call[u].var # call'[t].var,
           pc'[t] = "notify" => \/ pc[t] = "notify" /\ call'[t].var = call[t].var
                                \/ \A u \in Threads \ {t} :
                                      InAdd(u) => call[u].var # call'[t].var
    PROVE  Exclusion'
<1> SUFFICES ASSUME NEW a \in Threads, NEW b \in Threads, a # b,
                    InAdd(a)', InAdd(b)' \/ pc'[b] = "notify"
             PROVE  call'[a].var # call'[b].var
  BY DEF Exclusion
<1>1. CASE a # t /\ b # t
  BY <1>1 DEF Exclusion, InAdd
<1>2. CASE a = t
  BY <1>2 DEF Exclusion, InAdd
<1>3. CASE b = t
  BY <1>3 DEF Exclusion, InAdd
<1>4. QED BY <1>1, <1>2, <1>3

LEMMA ExclusionStep == ConfigInv /\ Next => Exclusion'
<1> SUFFICES ASSUME ConfigInv, Next PROVE Exclusion'
  OBVIOUS
<1>0. TypeOK /\ Exclusion
  BY DEF ConfigInv
<1>1. ASSUME NEW t \in Threads, NEW v \in Vars, NEW val \in Values, look(t, v, val)
      PROVE  Exclusion'
  <2>1. CASE val = value[v]
    BY <1>0, <1>1, <2>1 DEF look, Exclusion, InAdd
  <2>2. CASE val # value[v]
    <3>1. CallAt(t, "notify") /\ Locals(t, SetLocals(v, val))
      BY <1>0, <1>1, <2>2, LookPlaces
    <3>2. call'[t].var = v
      BY <3>1 DEF Locals, SetLocals
    <3>3. \A u \in Threads : InAdd(u) => call[u].var # v
      BY <1>1 DEF look, MayRead, Writers, InAdd
    <3>4. QED BY <1>0, <3>1, <3>2, <3>3, LockStep DEF CallAt, Locals, InAdd
  <2>3. QED BY <2>1, <2>2
<1>2. ASSUME NEW t \in Threads, notify(t) PROVE Exclusion'
  <2>1. PICK entry \in call[t].todo : call' = [call EXCEPT ![t].todo = @ \ {entry}]
    BY <1>2 DEF notify
  <2>2. Locals(t, [call[t] EXCEPT !.todo = @ \ {entry}]) /\ pc' = pc /\ pc[t] = "notify"
    BY <1>0, <1>2, <2>1, NotifyPlaces DEF notify
  <2>3. call'[t].var = call[t].var
    <3>1. call[t] \in SetCall
      BY <1>0, <2>2 DEF TypeOK, PlacesOK, InSet
    <3>2. QED BY <2>2, <3>1 DEF Locals, SetCall
  <2>4. QED BY <1>0, <2>2, <2>3, LockStep DEF Locals, InAdd
<1>3. ASSUME NEW t \in Threads, unlockShared(t) PROVE Exclusion'
  <2>1. CallAt(t, "write") /\ call' = call
    BY <1>0, <1>3, UnlockPlaces
  <2>2. QED BY <1>0, <2>1, LockStep DEF CallAt, InAdd
<1>4. ASSUME NEW t \in Threads, write(t) PROVE Exclusion'
  <2>1. CallAt(t, "idle") /\ Locals(t, NoCall)
    BY <1>0, <1>4, WritePlaces
  <2>2. QED BY <1>0, <2>1, LockStep DEF CallAt, Locals, InAdd
<1>5. ASSUME NEW t \in Threads, NEW v \in Vars, lockAndLoad(t, v) PROVE Exclusion'
  <2>1. CallAt(t, "store") /\ Locals(t, AddLocals(v))
    BY <1>0, <1>5, LoadPlaces
  <2>2. call'[t].var = v
    BY <2>1 DEF Locals, AddLocals
  <2>3. \A u \in Threads : InAdd(u) \/ pc[u] = "notify" => call[u].var # v
    BY <1>5 DEF lockAndLoad, MayWrite, Writers, Readers, InAdd
  <2>4. QED BY <1>0, <2>1, <2>2, <2>3, LockStep DEF CallAt, Locals, InAdd
<1>6. ASSUME NEW t \in Threads, storeId(t) PROVE Exclusion'
  <2>1. CallAt(t, "insert") /\ call' = call /\ pc[t] = "store"
    BY <1>0, <1>6, StorePlaces DEF storeId
  <2>2. QED BY <1>0, <2>1, LockStep DEF CallAt, InAdd
<1>7. ASSUME NEW t \in Threads, insert(t) PROVE Exclusion'
  <2>1. CallAt(t, "return") /\ call' = call /\ pc[t] = "insert"
    BY <1>0, <1>7, InsertPlaces DEF insert
  <2>2. QED BY <1>0, <2>1, LockStep DEF CallAt, InAdd
<1>8. ASSUME NEW t \in Threads, addReturns(t) PROVE Exclusion'
  <2>1. CallAt(t, "idle") /\ Locals(t, NoCall)
    BY <1>0, <1>8, ReturnPlaces
  <2>2. QED BY <1>0, <2>1, LockStep DEF CallAt, Locals, InAdd
<1>9. ASSUME NEW t \in Threads, NEW h \in handles, deleteListener(t, h) PROVE Exclusion'
  BY <1>0, <1>9 DEF deleteListener, Exclusion, InAdd
<1>10. ASSUME NEW t \in Threads, NEW v \in Vars, clearListener(t, v) PROVE Exclusion'
  BY <1>0, <1>10 DEF clearListener, Exclusion, InAdd
<1>11. QED BY <1>1, <1>2, <1>3, <1>4, <1>5, <1>6, <1>7, <1>8, <1>9, <1>10 DEF Next, goesOn

-----------------------------------------------------------------------------
\* A step of t that leaves the maps of the variables being read alone keeps the entries of
\* the other readers.
LEMMA EntriesStep ==
    ASSUME TypeOK, EntriesThere, NEW t \in Threads,
           \A u \in Threads \ {t} : pc'[u] = pc[u] /\ call'[u] = call[u],
           \A u \in Threads \ {t} : pc[u] = "notify" => func'[call[u].var] = func[call[u].var],
           pc'[t] = "notify" => \A e \in call'[t].todo :
               e.key \in DOMAIN func'[call'[t].var] /\ func'[call'[t].var][e.key] = e.listener
    PROVE  EntriesThere'
<1> SUFFICES ASSUME NEW u \in Threads, pc'[u] = "notify", NEW e \in call'[u].todo
             PROVE  /\ e.key \in DOMAIN func'[call'[u].var]
                    /\ func'[call'[u].var][e.key] = e.listener
  BY DEF EntriesThere
<1>1. CASE u = t
  BY <1>1
<1>2. CASE u # t
  BY <1>2 DEF EntriesThere
<1>3. QED BY <1>1, <1>2

LEMMA EntriesThereStep == ConfigInv /\ Next => EntriesThere'
<1> SUFFICES ASSUME ConfigInv, Next PROVE EntriesThere'
  OBVIOUS
<1>0. TypeOK /\ Exclusion /\ EntriesThere
  BY DEF ConfigInv
<1>1. ASSUME NEW t \in Threads, NEW v \in Vars, NEW val \in Values, look(t, v, val)
      PROVE  EntriesThere'
  <2>1. CASE val = value[v]
    BY <1>0, <1>1, <2>1 DEF look, EntriesThere
  <2>2. CASE val # value[v]
    <3>1. CallAt(t, "notify") /\ Locals(t, SetLocals(v, val)) /\ func' = func
      BY <1>0, <1>1, <2>2, LookPlaces DEF look
    <3>2. call'[t].var = v
      BY <3>1 DEF Locals, SetLocals
    <3>3. call'[t].todo = {[key |-> k, listener |-> func[v][k]] : k \in DOMAIN func[v]}
      BY <3>1 DEF Locals, SetLocals
    <3>4. \A e \in call'[t].todo : e.key \in DOMAIN func[v] /\ func[v][e.key] = e.listener
      BY <3>3
    <3>5. QED BY <1>0, <3>1, <3>2, <3>4, EntriesStep DEF CallAt, Locals
  <2>3. QED BY <2>1, <2>2
<1>2. ASSUME NEW t \in Threads, notify(t) PROVE EntriesThere'
  <2>1. PICK entry \in call[t].todo : call' = [call EXCEPT ![t].todo = @ \ {entry}]
    BY <1>2 DEF notify
  <2>2. /\ Locals(t, [call[t] EXCEPT !.todo = @ \ {entry}])
        /\ pc' = pc /\ pc[t] = "notify" /\ func' = func
    BY <1>0, <1>2, <2>1, NotifyPlaces DEF notify
  <2>3. call'[t].var = call[t].var /\ call'[t].todo = call[t].todo \ {entry}
    <3>1. call[t] \in SetCall
      BY <1>0, <2>2 DEF TypeOK, PlacesOK, InSet
    <3>2. QED BY <2>2, <3>1 DEF Locals, SetCall
  <2>4. \A e \in call'[t].todo :
           e.key \in DOMAIN func'[call'[t].var] /\ func'[call'[t].var][e.key] = e.listener
    BY <1>0, <2>2, <2>3 DEF EntriesThere
  <2>5. \A u \in Threads \ {t} : pc'[u] = pc[u] /\ call'[u] = call[u]
    BY <2>2 DEF Locals
  <2>6. QED BY ONLY <1>0, <2>2, <2>4, <2>5, EntriesStep, t \in Threads
<1>3. ASSUME NEW t \in Threads, unlockShared(t) PROVE EntriesThere'
  <2>1. CallAt(t, "write") /\ call' = call /\ func' = func
    BY <1>0, <1>3, UnlockPlaces DEF unlockShared
  <2>2. QED BY <1>0, <2>1, EntriesStep DEF CallAt
<1>4. ASSUME NEW t \in Threads, write(t) PROVE EntriesThere'
  <2>1. CallAt(t, "idle") /\ Locals(t, NoCall) /\ func' = func
    BY <1>0, <1>4, WritePlaces DEF write
  <2>2. QED BY <1>0, <2>1, EntriesStep DEF CallAt, Locals
<1>5. ASSUME NEW t \in Threads, NEW v \in Vars, lockAndLoad(t, v) PROVE EntriesThere'
  <2>1. CallAt(t, "store") /\ Locals(t, AddLocals(v)) /\ func' = func
    BY <1>0, <1>5, LoadPlaces DEF lockAndLoad
  <2>2. QED BY <1>0, <2>1, EntriesStep DEF CallAt, Locals
<1>6. ASSUME NEW t \in Threads, storeId(t) PROVE EntriesThere'
  <2>1. CallAt(t, "insert") /\ call' = call /\ func' = func
    BY <1>0, <1>6, StorePlaces DEF storeId
  <2>2. QED BY <1>0, <2>1, EntriesStep DEF CallAt
<1>7. ASSUME NEW t \in Threads, insert(t) PROVE EntriesThere'
  <2>1. CallAt(t, "return") /\ call' = call /\ InAdd(t)
    BY <1>0, <1>7, InsertPlaces DEF insert, InAdd
  <2>2. \A u \in Threads \ {t} : pc[u] = "notify" =>
            call[u].var \in Vars /\ call[u].var # call[t].var
    BY <1>0, <2>1 DEF Exclusion, TypeOK, PlacesOK, InSet, SetCall
  <2>3. \A u \in Threads \ {t} : pc[u] = "notify" => func'[call[u].var] = func[call[u].var]
    BY <1>0, <1>7, <2>2, InsertEffect
  <2>4. QED BY <1>0, <2>1, <2>3, EntriesStep DEF CallAt
<1>8. ASSUME NEW t \in Threads, addReturns(t) PROVE EntriesThere'
  <2>1. CallAt(t, "idle") /\ Locals(t, NoCall) /\ func' = func
    BY <1>0, <1>8, ReturnPlaces DEF addReturns
  <2>2. QED BY <1>0, <2>1, EntriesStep DEF CallAt, Locals
<1>9. ASSUME NEW t \in Threads, NEW h \in handles, deleteListener(t, h) PROVE EntriesThere'
  <2>1. \A u \in Threads : pc[u] = "notify" => call[u].var # h.var
    BY <1>9 DEF deleteListener, MayWrite, Readers
  <2>2. QED BY <1>0, <1>9, <2>1 DEF deleteListener, EntriesThere, TypeOK, ListenersOK,
                                     PlacesOK, InSet, SetCall
<1>10. ASSUME NEW t \in Threads, NEW v \in Vars, clearListener(t, v) PROVE EntriesThere'
  <2>1. \A u \in Threads : pc[u] = "notify" => call[u].var # v
    BY <1>10 DEF clearListener, MayWrite, Readers
  <2>2. QED BY <1>0, <1>10, <2>1 DEF clearListener, EntriesThere, TypeOK, ListenersOK,
                                      PlacesOK, InSet, SetCall
<1>11. QED BY <1>1, <1>2, <1>3, <1>4, <1>5, <1>6, <1>7, <1>8, <1>9, <1>10 DEF Next, goesOn

-----------------------------------------------------------------------------
\* The types, the exclusion that the lock of a variable gives, and that what setValue has
\* still to call is in the map: the invariant of the specification.
THEOREM ConfigInvariant == Steps => []ConfigInv
<1>1. ConfigInv /\ [Next]_vars => ConfigInv'
  <2> SUFFICES ASSUME ConfigInv, [Next]_vars PROVE ConfigInv'
    OBVIOUS
  <2>1. CASE Next
    BY <2>1, TypeStep, ExclusionStep, EntriesThereStep DEF ConfigInv
  <2>2. CASE UNCHANGED vars
    BY <2>2 DEF vars, ConfigInv, TypeOK, ListenersOK, PlacesOK, Exclusion, EntriesThere,
                InSet, InAdd
  <2>3. QED BY <2>1, <2>2
<1>2. QED BY InitConfig, <1>1, PTL DEF Steps

OnlyRegisteredTold == \A l \in Listener : told'[l] # told[l] => l \in Registered

LEMMA RegisteredTold == ConfigInv /\ Next => OnlyRegisteredTold
<1> SUFFICES ASSUME ConfigInv, Next, NEW l \in Listener, told'[l] # told[l]
             PROVE  l \in Registered
  BY DEF OnlyRegisteredTold
<1>1. PICK t \in Threads : notify(t)
  BY DEF Next, goesOn, look, unlockShared, write, lockAndLoad, storeId, insert,
         addReturns, deleteListener, clearListener
<1>2. PICK entry \in call[t].todo :
        told' = [told EXCEPT ![entry.listener] =
                    Append(@, <<value[call[t].var], call[t].val>>)]
  BY <1>1 DEF notify
<1>3. l = entry.listener
  BY <1>2 DEF ConfigInv, TypeOK
<1>4. call[t].var \in Vars
  BY <1>1 DEF ConfigInv, TypeOK, PlacesOK, InSet, SetCall, notify
<1>5. /\ entry.key \in DOMAIN func[call[t].var]
      /\ func[call[t].var][entry.key] = entry.listener
  BY <1>1, <1>2 DEF ConfigInv, EntriesThere, notify
<1>6. QED BY <1>3, <1>4, <1>5 DEF Registered

\* config.h:443-455: once deleteListener or clearListener has returned, the listener is not
\* called, by any setValue: the map it is called from is locked until the last call.
THEOREM DeletedQuiet == Steps => DeletedStaysQuiet
<1>1. ConfigInv /\ [Next]_vars =>
        [\A l \in Listener : told'[l] # told[l] => l \in Registered]_vars
  BY RegisteredTold DEF OnlyRegisteredTold
<1>2. QED BY <1>1, ConfigInvariant, PTL DEF Steps, DeletedStaysQuiet

-----------------------------------------------------------------------------
(* With one variable, whose lock then protects the counter *)

LEMMA KeyStep ==
    ASSUME NEW v, Vars = {v}, ConfigInv, KeyInv, Next
    PROVE  KeyInv'
<1>0. TypeOK /\ Exclusion /\ KeysInOrder /\ KeysNameListeners
  BY DEF ConfigInv, KeyInv
<1>1. \A t \in Threads : InAdd(t) => call[t] \in AddCall /\ call[t].var = v
  BY <1>0 DEF TypeOK, PlacesOK, AddCall
<1>2. \A t, u \in Threads : InAdd(t) /\ InAdd(u) => t = u
  BY <1>0, <1>1 DEF Exclusion
<1>3. \A h \in handles : h \in [var : Vars, key : Nat, listener : Listener] /\ h.var = v
  BY <1>0 DEF TypeOK
\* What a step that touches neither the keys nor who is adding a listener keeps.
<1>4. ASSUME NEW t \in Threads, \A u \in Threads \ {t} : pc'[u] = pc[u] /\ call'[u] = call[u],
             ~InAdd(t), ~InAdd(t)', func' = func, func_id' = func_id, handles' = handles
      PROVE  KeyInv'
  <2>1. \A u \in Threads : InAdd(u)' => pc'[u] = pc[u] /\ call'[u] = call[u]
    BY <1>4
  <2>2. KeysNameListeners'
    BY <1>0, <1>4 DEF KeysNameListeners
  <2>3. KeysInOrder'
    BY <1>0, <1>4, <2>1 DEF KeysInOrder, InAdd
  <2>4. QED BY <2>2, <2>3 DEF KeyInv
<1>5. ASSUME NEW t \in Threads, NEW val \in Values, look(t, v, val) PROVE KeyInv'
  <2>1. CASE val = value[v]
    BY <1>5, <2>1, <1>0 DEF look, KeyInv, KeysInOrder, KeysNameListeners
  <2>2. CASE val # value[v]
    <3>1. CallAt(t, "notify") /\ Locals(t, SetLocals(v, val)) /\ pc[t] = "idle"
      BY <1>0, <1>5, <2>2, LookPlaces DEF look, begins
    <3>2. QED BY <1>4, <1>5, <3>1 DEF CallAt, Locals, InAdd, look
  <2>3. QED BY <2>1, <2>2
<1>6. ASSUME NEW t \in Threads, notify(t) PROVE KeyInv'
  <2>1. PICK entry \in call[t].todo : call' = [call EXCEPT ![t].todo = @ \ {entry}]
    BY <1>6 DEF notify
  <2>2. Locals(t, [call[t] EXCEPT !.todo = @ \ {entry}]) /\ pc' = pc /\ pc[t] = "notify"
    BY <1>0, <1>6, <2>1, NotifyPlaces DEF notify
  <2>3. QED BY <1>4, <1>6, <2>2 DEF Locals, InAdd, notify
<1>7. ASSUME NEW t \in Threads, unlockShared(t) PROVE KeyInv'
  <2>1. CallAt(t, "write") /\ call' = call /\ pc[t] = "notify"
    BY <1>0, <1>7, UnlockPlaces DEF unlockShared
  <2>2. QED BY <1>4, <1>7, <2>1 DEF CallAt, InAdd, unlockShared
<1>8. ASSUME NEW t \in Threads, write(t) PROVE KeyInv'
  <2>1. CallAt(t, "idle") /\ Locals(t, NoCall) /\ pc[t] = "write"
    BY <1>0, <1>8, WritePlaces DEF write
  <2>2. QED BY <1>4, <1>8, <2>1 DEF CallAt, Locals, InAdd, write
<1>9. ASSUME NEW t \in Threads, lockAndLoad(t, v) PROVE KeyInv'
  <2>1. CallAt(t, "store") /\ Locals(t, AddLocals(v))
    BY <1>0, <1>9, LoadPlaces
  <2>2. \A u \in Threads : ~InAdd(u)
    BY <1>1, <1>9 DEF lockAndLoad, MayWrite, Writers, InAdd
  <2>3. func' = func /\ func_id' = func_id /\ handles' = handles
    BY <1>9 DEF lockAndLoad
  <2>4. \A u \in Threads : InAdd(u)' => u = t
    BY <2>1, <2>2 DEF CallAt, InAdd
  <2>5. pc'[t] = "store" /\ call'[t].id = func_id + 1
    BY <2>1 DEF CallAt, Locals, AddLocals
  <2>6. KeysInOrder'
    BY <1>0, <2>3, <2>4, <2>5 DEF KeysInOrder, InAdd
  <2>7. QED BY <1>0, <2>3, <2>6 DEF KeyInv, KeysNameListeners
<1>10. ASSUME NEW t \in Threads, storeId(t) PROVE KeyInv'
  <2>1. CallAt(t, "insert") /\ call' = call /\ pc[t] = "store"
    BY <1>0, <1>10, StorePlaces DEF storeId
  <2>2. func' = func /\ handles' = handles /\ func_id' = func_id + 1
    BY <1>0, <1>10, <2>1 DEF storeId, KeysInOrder
  <2>3. \A u \in Threads : InAdd(u)' => u = t
    BY <1>2, <2>1 DEF CallAt, InAdd
  <2>4. pc'[t] = "insert" /\ call'[t].id = func_id'
    BY <1>10, <2>1 DEF CallAt, storeId
  <2>5. \A h \in handles' : h.key < func_id'
    BY <1>0, <1>3, <2>2 DEF KeysInOrder, TypeOK
  <2>6. KeysInOrder'
    <3>1. \A h \in handles' : h.key <= func_id'
      BY <1>0, <1>3, <2>2, <2>5 DEF TypeOK
    <3>2. QED BY <1>0, <2>2, <2>3, <2>4, <2>5, <3>1 DEF KeysInOrder, InAdd
  <2>7. QED BY <1>0, <2>2, <2>6 DEF KeyInv, KeysNameListeners
<1>11. ASSUME NEW t \in Threads, insert(t) PROVE KeyInv'
  <2>1. CallAt(t, "return") /\ call' = call /\ pc[t] = "insert" /\ func_id' = func_id
        /\ handles' = handles
    BY <1>0, <1>11, InsertPlaces DEF insert
  <2>2. call[t].var = v /\ call[t].id = func_id /\ \A h \in handles : h.key < func_id
    BY <1>0, <1>1, <2>1 DEF KeysInOrder, InAdd
  <2>3. /\ DOMAIN func'[v] = DOMAIN func[v] \cup {func_id}
        /\ \A k \in DOMAIN func'[v] :
              func'[v][k] = IF k = func_id THEN call[t].listener ELSE func[v][k]
    BY <1>0, <1>11, <2>2, InsertEffect
  <2>4. \A u \in Threads : InAdd(u)' => u = t
    BY <1>2, <2>1 DEF CallAt, InAdd
  <2>5. KeysNameListeners'
    <3> SUFFICES ASSUME NEW h \in handles
                 PROVE  h.key \in DOMAIN func'[h.var] /\ func'[h.var][h.key] = h.listener
      BY <2>1 DEF KeysNameListeners
    <3>1. h.key \in Nat /\ h.key # func_id /\ h.var = v
      BY <1>0, <1>3, <2>2 DEF TypeOK
    <3>2. QED BY <1>0, <2>3, <3>1 DEF KeysNameListeners
  <2>6. KeysInOrder'
    BY <1>0, <2>1, <2>2, <2>3, <2>4 DEF CallAt, KeysInOrder, InAdd
  <2>7. QED BY <2>5, <2>6 DEF KeyInv
<1>12. ASSUME NEW t \in Threads, addReturns(t) PROVE KeyInv'
  <2>1. CallAt(t, "idle") /\ Locals(t, NoCall) /\ pc[t] = "return"
    BY <1>0, <1>12, ReturnPlaces DEF addReturns
  <2>2. call[t].var = v /\ call[t].id = func_id /\ \A h \in handles : h.key < func_id
    BY <1>0, <1>1, <2>1 DEF KeysInOrder, InAdd
  <2> DEFINE mine == [var |-> v, key |-> func_id, listener |-> call[t].listener]
  <2>3. handles' = handles \cup {mine} /\ func' = func /\ func_id' = func_id
    BY <1>12, <2>2 DEF addReturns
  <2>4. \A u \in Threads : ~InAdd(u)'
    BY <1>2, <2>1 DEF CallAt, InAdd
  <2>5. func_id \in DOMAIN func[v] /\ func[v][func_id] = call[t].listener
    BY <1>0, <2>1, <2>2 DEF KeysInOrder
  <2>6. KeysNameListeners'
    BY <1>0, <2>3, <2>5 DEF KeysNameListeners
  <2>7. \A g, h \in handles' : g.key = h.key => g = h
    <3>1. \A h \in handles : h.key # mine.key
      BY <1>0, <1>3, <2>2 DEF TypeOK
    <3> HIDE DEF mine
    <3>2. QED BY <1>0, <2>3, <3>1 DEF KeysInOrder
  <2>8. \A h \in handles' : h.key <= func_id'
    BY <1>0, <2>3 DEF KeysInOrder, TypeOK
  <2>9. KeysInOrder'
    BY <2>4, <2>7, <2>8 DEF KeysInOrder, InAdd
  <2>10. QED BY <2>6, <2>9 DEF KeyInv
<1>13. ASSUME NEW t \in Threads, NEW h \in handles, deleteListener(t, h) PROVE KeyInv'
  <2>1. /\ handles' = handles \ {h} /\ func_id' = func_id /\ pc' = pc /\ call' = call
        /\ h.var = v
    BY <1>3, <1>13 DEF deleteListener
  <2>2. \A u \in Threads : ~InAdd(u)
    BY <1>1, <1>13, <2>1 DEF deleteListener, MayWrite, Writers, InAdd
  <2>3. func'[v] = Restrict(func[v], DOMAIN func[v] \ {h.key})
    BY <1>0, <1>13, <2>1 DEF deleteListener, TypeOK, ListenersOK
  <2>4. KeysInOrder'
    BY <1>0, <2>1, <2>2 DEF KeysInOrder, InAdd
  <2>5. KeysNameListeners'
    <3> SUFFICES ASSUME NEW g \in handles, g # h
                 PROVE  g.key \in DOMAIN func'[g.var] /\ func'[g.var][g.key] = g.listener
      BY <2>1 DEF KeysNameListeners
    <3>1. g.key # h.key /\ g.var = v
      BY <1>0, <1>3 DEF KeysInOrder
    <3>2. g.key \in DOMAIN func[v] /\ func[v][g.key] = g.listener
      BY <1>0, <3>1 DEF KeysNameListeners
    <3>3. QED BY <2>3, <3>1, <3>2 DEF Restrict
  <2>6. QED BY <2>4, <2>5 DEF KeyInv
<1>14. ASSUME NEW t \in Threads, clearListener(t, v) PROVE KeyInv'
  <2>1. handles' = {h \in handles : h.var # v} /\ pc' = pc
    BY <1>14 DEF clearListener
  <2>2. handles' = {}
    BY <1>3, <2>1
  <2>3. \A u \in Threads : ~InAdd(u)
    BY <1>1, <1>14 DEF clearListener, MayWrite, Writers, InAdd
  <2>4. QED BY <2>1, <2>2, <2>3 DEF KeyInv, KeysInOrder, KeysNameListeners, InAdd
<1>15. QED BY <1>3, <1>5, <1>6, <1>7, <1>8, <1>9, <1>10, <1>11, <1>12, <1>13, <1>14
           DEF Next, goesOn

\* config.h:436: with one variable of its type, the key that addListener returns is the one
\* of that listener until the listener is deleted.
THEOREM KeysCorrect ==
    ASSUME NEW v, Vars = {v}
    PROVE  Steps => []KeysNameListeners
<1>1. Init => KeyInv
  BY DEF Init, KeyInv, KeysInOrder, KeysNameListeners
<1>2. ConfigInv /\ KeyInv /\ [Next]_vars => KeyInv'
  <2> SUFFICES ASSUME ConfigInv, KeyInv, [Next]_vars PROVE KeyInv'
    OBVIOUS
  <2>1. CASE Next
    BY <2>1, KeyStep
  <2>2. CASE UNCHANGED vars
    BY <2>2 DEF vars, KeyInv, KeysInOrder, KeysNameListeners
  <2>3. QED BY <2>1, <2>2
<1>3. KeyInv => KeysNameListeners
  BY DEF KeyInv
<1>4. QED BY <1>1, <1>2, <1>3, ConfigInvariant, PTL DEF Steps

-----------------------------------------------------------------------------
(* The variables while files are loaded, by any number of threads          *)

\* LookupBase finds variables only.
RegisteredAreVars == registered \subseteq Vars

\* A step of a load, of an editor or of a caller is a step of ConfigVar, or none.
LEMMA StepOfVariables ==
    ASSUME RegisteredAreVars, [LoadNext]_allVars
    PROVE  [Next]_vars
<1>1. ASSUME NEW t \in Threads, NEW v \in registered, NEW val \in Values, setValue(t, v, val)
      PROVE  Next
  <2>1. v \in Vars /\ look(t, v, val)
    BY <1>1 DEF setValue, RegisteredAreVars
  <2>2. QED BY <2>1 DEF Next
<1>2. ASSUME NEW t \in Threads, use(t) PROVE Next
  <2>1. CASE \E v \in registered, val \in Values : setValue(t, v, val)
    BY <1>1, <2>1
  <2>2. CASE \E v \in registered : lockAndLoad(t, v) \/ clearListener(t, v)
    BY <2>2 DEF Next, RegisteredAreVars
  <2>3. CASE \E h \in handles : deleteListener(t, h)
    BY <2>3 DEF Next
  <2>4. QED BY <1>2, <2>1, <2>2, <2>3 DEF use
<1>3. ASSUME NEW t \in Threads, callGoesOn(t) PROVE Next
  BY <1>3 DEF callGoesOn, Next
<1>4. ASSUME NEW t \in Threads, LoadFromYaml(t) PROVE [Next]_vars
  <2>1. CASE Head(load[t].nodes).at \in registered /\ Head(load[t].nodes).holds \in Values
    BY <1>1, <1>4, <2>1 DEF LoadFromYaml
  <2>2. CASE ~(Head(load[t].nodes).at \in registered /\ Head(load[t].nodes).holds \in Values)
    BY <1>4, <2>2 DEF LoadFromYaml
  <2>3. QED BY <2>1, <2>2
<1>5. ASSUME NEW t \in Threads, loadGoesOn(t) PROVE [Next]_vars
  BY <1>4, <1>5 DEF loadGoesOn, lstat, compare, LoadFile, loadReturns
<1>6. CASE \/ \E t \in Threads, v \in Vars : Lookup(t, v)
           \/ \E t \in Loaders, force \in BOOLEAN : LoadFromConfDir(t, force)
           \/ \E f \in Files : edit(f)
           \/ UNCHANGED allVars
  BY <1>6 DEF Lookup, LoadFromConfDir, edit, allVars
<1>7. QED BY <1>2, <1>3, <1>5, <1>6 DEF LoadNext

LEMMA RegisteredStep ==
    ASSUME RegisteredAreVars, [LoadNext]_allVars
    PROVE  RegisteredAreVars'
<1>1. registered' = registered \/ \E v \in Vars : registered' = registered \cup {v}
  BY DEF LoadNext, use, callGoesOn, loadGoesOn, lstat, compare, LoadFile, LoadFromYaml,
         loadReturns, Lookup, LoadFromConfDir, edit, allVars, loadVars
<1>2. QED BY <1>1 DEF RegisteredAreVars

-----------------------------------------------------------------------------
\* config.cpp:211-234: the loads use the variables as any thread may.
THEOREM LoadsUseVariables == LoadSpec => Steps
<1>1. LoadInit => Init /\ RegisteredAreVars
  BY DEF LoadInit, RegisteredAreVars
<1>2. RegisteredAreVars /\ [LoadNext]_allVars => [Next]_vars /\ RegisteredAreVars'
  BY StepOfVariables, RegisteredStep
<1>3. QED BY <1>1, <1>2, PTL DEF LoadSpec, Steps

\* config.h:443-455: a listener is told only while it is there, also of the values that
\* files set.
THEOREM DeletedQuietWhileLoading == LoadSpec => DeletedStaysQuiet
BY LoadsUseVariables, DeletedQuiet, PTL

-----------------------------------------------------------------------------
(* What the listeners know                                                 *)

\* A listener that is still to be inserted is nowhere in a map, and no one else's.
Fresh ==
    /\ \A l \in Listener : l > calls => told[l] = <<>>
    /\ \A v \in Vars : \A k \in DOMAIN func[v] : func[v][k] <= calls
    /\ \A t \in Threads : InAdd(t) => call[t].listener <= calls
    /\ \A t, u \in Threads :
          InAdd(t) /\ InAdd(u) /\ t # u => call[t].listener # call[u].listener
    /\ \A t \in Threads : pc[t] \in {"store", "insert"} =>
          /\ told[call[t].listener] = <<>>
          /\ \A v \in Vars : \A k \in DOMAIN func[v] : func[v][k] # call[t].listener

\* No listener is in the maps of two variables.
Homes ==
    \A v, w \in Vars : \A j \in DOMAIN func[v], k \in DOMAIN func[w] :
        func[v][j] = func[w][k] => v = w

\* A listener that has been called or found in a map is no one's to insert.
Old(l) ==
    l <= calls /\ \A u \in Threads : pc[u] \in {"store", "insert"} => l # call[u].listener

Known == \A t \in Threads : InSet(t) => \A l \in call[t].there : Old(l)

\* What listener l was told last is the change from one value to another.
ToldOf(l, old, new) == told[l] # <<>> /\ Last(told[l]) = <<old, new>>

\* A thread that sets v alone has still to call a listener that it found, or it has told
\* it the change that it is making.
Heard(v) ==
    /\ \A t, u \in Setting(v) : t = u
    /\ \A t \in Setting(v), k \in DOMAIN func[v] : func[v][k] \in call[t].there =>
          \/ pc[t] = "notify" /\ [key |-> k, listener |-> func[v][k]] \in call[t].todo
          \/ ToldOf(func[v][k], value[v], call[t].val)

HeardInv == Fresh /\ Homes /\ Known /\ \A v \in Vars \ overlapped : Heard(v)

\* What most steps have in common.
OthersStay(t) == \A u \in Threads \ {t} : pc'[u] = pc[u] /\ call'[u] = call[u]

MapsShrink ==
    \A v \in Vars : \A k \in DOMAIN func'[v] : k \in DOMAIN func[v] /\ func'[v][k] = func[v][k]

LEMMA FreshKept ==
    ASSUME TypeOK, Fresh, NEW t \in Threads, OthersStay(t), MapsShrink, OnlyRegisteredTold,
           calls' \in Nat, calls <= calls',
           InAdd(t)' => InAdd(t) /\ call'[t] = call[t],
           pc'[t] \in {"store", "insert"} => pc[t] \in {"store", "insert"}
    PROVE  Fresh'
<1>1. calls \in Nat /\ \A u \in Threads : InAdd(u) => call[u].listener \in Nat
  BY InputsAssumption DEF TypeOK, PlacesOK, AddCall, Listener
<1>2. \A v \in Vars : \A k \in DOMAIN func[v] : func[v][k] \in Nat
  BY InputsAssumption DEF TypeOK, ListenersOK, Listener
<1>3. \A u \in Threads : InAdd(u)' => InAdd(u) /\ call'[u] = call[u]
  BY DEF OthersStay, InAdd
<1>4. \A u \in Threads : pc'[u] \in {"store", "insert"} => pc[u] \in {"store", "insert"}
  BY DEF OthersStay
<1>5. \A l \in Listener : l > calls' => told'[l] = <<>>
  <2>1. ASSUME NEW l \in Listener, l > calls' PROVE told'[l] = <<>>
    <3>1. l > calls /\ told[l] = <<>>
      BY <1>1, <2>1, InputsAssumption DEF Fresh, Listener
    <3>2. l \notin Registered
      BY <1>1, <1>2, <3>1, InputsAssumption DEF Fresh, Registered, Listener
    <3>3. QED BY <3>1, <3>2 DEF OnlyRegisteredTold
  <2>2. QED BY <2>1
<1>6. \A v \in Vars : \A k \in DOMAIN func'[v] : func'[v][k] <= calls'
  BY <1>1, <1>2 DEF Fresh, MapsShrink
<1>7. \A u \in Threads : InAdd(u)' => call'[u].listener <= calls'
  BY <1>1, <1>3 DEF Fresh
<1>8. \A u, w \in Threads :
          InAdd(u)' /\ InAdd(w)' /\ u # w => call'[u].listener # call'[w].listener
  BY <1>3 DEF Fresh
<1>9. ASSUME NEW u \in Threads, pc'[u] \in {"store", "insert"}
      PROVE  /\ told'[call'[u].listener] = <<>>
             /\ \A v \in Vars : \A k \in DOMAIN func'[v] : func'[v][k] # call'[u].listener
  <2>1. pc[u] \in {"store", "insert"} /\ call'[u] = call[u] /\ call[u].listener \in Listener
    BY <1>3, <1>4, <1>9 DEF InAdd, TypeOK, PlacesOK, AddCall
  <2>2. call[u].listener \notin Registered /\ told[call[u].listener] = <<>>
    BY <2>1 DEF Fresh, Registered
  <2>3. QED BY <2>1, <2>2 DEF Fresh, MapsShrink, OnlyRegisteredTold
<1>10. QED BY <1>5, <1>6, <1>7, <1>8, <1>9 DEF Fresh

LEMMA HomesKept == ASSUME Homes, MapsShrink PROVE Homes'
BY DEF Homes, MapsShrink

\* The call of addListener takes the next number.
LEMMA FreshLoad ==
    ASSUME ConfigInv, Fresh, NEW t \in Threads, NEW v \in Vars, lockAndLoad(t, v)
    PROVE  Fresh'
<1>0. TypeOK
  BY DEF ConfigInv
<1>1. /\ OthersStay(t) /\ pc'[t] = "store" /\ call'[t].listener = calls'
      /\ func' = func /\ told' = told /\ calls' = calls + 1
  <2>1. CallAt(t, "store") /\ Locals(t, AddLocals(v))
    BY <1>0, LoadPlaces
  <2>2. OthersStay(t) /\ pc'[t] = "store" /\ call'[t].listener = calls'
    BY <2>1 DEF CallAt, Locals, AddLocals, OthersStay
  <2>3. func' = func /\ told' = told /\ calls' = calls + 1
    BY DEF lockAndLoad, begins
  <2>4. QED BY <2>2, <2>3
<1>2. calls \in Nat /\ calls' \in Listener /\ \A u \in Threads : InAdd(u) => call[u].listener \in Nat
  BY <1>0, BeginsType, InputsAssumption DEF lockAndLoad, TypeOK, PlacesOK, AddCall, Listener
<1>3. \A w \in Vars : \A k \in DOMAIN func[w] : func[w][k] \in Nat
  BY <1>0, InputsAssumption DEF TypeOK, ListenersOK, Listener
<1>4. \A l \in Listener : l > calls' => told'[l] = <<>>
  BY <1>1, <1>2, InputsAssumption DEF Fresh, Listener
<1>5. \A w \in Vars : \A k \in DOMAIN func'[w] : func'[w][k] <= calls' /\ func'[w][k] # calls'
  BY <1>1, <1>2, <1>3 DEF Fresh
<1>6. told'[calls'] = <<>>
  BY <1>1, <1>2 DEF Fresh
<1>7. \A u \in Threads \ {t} : InAdd(u)' => InAdd(u) /\ call'[u] = call[u]
          /\ call'[u].listener <= calls' /\ call'[u].listener # calls'
  <2>1. ASSUME NEW u \in Threads \ {t}, InAdd(u)'
        PROVE  InAdd(u) /\ call'[u] = call[u]
    BY <1>1, <2>1 DEF OthersStay, InAdd
  <2>2. QED BY <1>1, <1>2, <2>1 DEF Fresh
<1>8. \A u, w \in Threads :
          InAdd(u)' /\ InAdd(w)' /\ u # w => call'[u].listener # call'[w].listener
  <2>1. ASSUME NEW u \in Threads, NEW w \in Threads, InAdd(u)', InAdd(w)', u # w
        PROVE  call'[u].listener # call'[w].listener
    <3>1. CASE u = t
      BY <1>1, <1>7, <2>1, <3>1
    <3>2. CASE w = t
      BY <1>1, <1>7, <2>1, <3>2
    <3>3. CASE u # t /\ w # t
      BY <1>7, <2>1, <3>3 DEF Fresh
    <3>4. QED BY <3>1, <3>2, <3>3
  <2>2. QED BY <2>1
<1>9. \A u \in Threads : InAdd(u)' => call'[u].listener <= calls'
  BY <1>1, <1>2, <1>7
<1>10. ASSUME NEW u \in Threads, pc'[u] \in {"store", "insert"}
      PROVE  /\ told'[call'[u].listener] = <<>>
             /\ \A w \in Vars : \A k \in DOMAIN func'[w] : func'[w][k] # call'[u].listener
  <2>1. CASE u = t
    BY <1>1, <1>5, <1>6, <2>1
  <2>2. CASE u # t
    BY <1>1, <1>10, <2>2 DEF Fresh, OthersStay
  <2>3. QED BY <2>1, <2>2
<1>11. QED BY <1>4, <1>5, <1>8, <1>9, <1>10 DEF Fresh

LEMMA FreshInsert ==
    ASSUME ConfigInv, Fresh, Homes, NEW t \in Threads, insert(t)
    PROVE  Fresh' /\ Homes'
<1>0. TypeOK
  BY DEF ConfigInv
<1>1. /\ OthersStay(t) /\ pc'[t] = "return" /\ call' = call /\ pc[t] = "insert"
      /\ told' = told /\ calls' = calls
  BY <1>0, InsertPlaces DEF CallAt, OthersStay, insert
<1>2. PICK key \in {call[t].id, func_id} :
        /\ DOMAIN func'[call[t].var] = DOMAIN func[call[t].var] \cup {key}
        /\ \A k \in DOMAIN func'[call[t].var] :
              func'[call[t].var][k] =
                  IF k = key THEN call[t].listener ELSE func[call[t].var][k]
        /\ \A v \in Vars : v # call[t].var => func'[v] = func[v]
        /\ DOMAIN func' = Vars /\ func' = [v \in Vars |-> func'[v]]
  BY <1>0, InsertEffect
<1> DEFINE new == call[t].listener
<1>3. \A v \in Vars : \A k \in DOMAIN func'[v] :
          \/ v = call[t].var /\ func'[v][k] = new
          \/ k \in DOMAIN func[v] /\ func'[v][k] = func[v][k]
  <2>1. ASSUME NEW v \in Vars, NEW k \in DOMAIN func'[v]
        PROVE  \/ v = call[t].var /\ func'[v][k] = new
               \/ k \in DOMAIN func[v] /\ func'[v][k] = func[v][k]
    <3>1. CASE v = call[t].var
      BY <1>2, <3>1
    <3>2. CASE v # call[t].var
      BY <1>2, <3>2
    <3>3. QED BY <3>1, <3>2
  <2>2. QED BY <2>1
<1>4. /\ new <= calls
      /\ \A v \in Vars : \A k \in DOMAIN func[v] : func[v][k] # new
  BY <1>1 DEF Fresh, InAdd
<1>5. \A u \in Threads : InAdd(u)' => InAdd(u)
  BY <1>1 DEF InAdd, OthersStay
<1>6. Homes'
  BY <1>3, <1>4 DEF Homes
<1>7. \A v \in Vars : \A k \in DOMAIN func'[v] : func'[v][k] <= calls'
  BY <1>1, <1>3, <1>4 DEF Fresh
<1>8. ASSUME NEW u \in Threads, pc'[u] \in {"store", "insert"}
      PROVE  /\ told'[call'[u].listener] = <<>>
             /\ \A v \in Vars : \A k \in DOMAIN func'[v] : func'[v][k] # call'[u].listener
  <2>1. u # t /\ pc[u] \in {"store", "insert"}
    BY <1>1, <1>8 DEF OthersStay
  <2>2. call[u].listener # new /\ told[call[u].listener] = <<>>
        /\ \A v \in Vars : \A k \in DOMAIN func[v] : func[v][k] # call[u].listener
    BY <1>1, <2>1 DEF Fresh, InAdd
  <2>3. QED BY <1>1, <1>3, <2>2
<1>9. QED BY <1>1, <1>5, <1>6, <1>7, <1>8 DEF Fresh

\* The listeners found stay known while those to insert are the same, or one more.
LEMMA KnownKept ==
    ASSUME TypeOK, Known, NEW t \in Threads, OthersStay(t), calls' \in Nat, calls <= calls',
           pc'[t] \in {"store", "insert"} =>
               \/ pc[t] \in {"store", "insert"} /\ call'[t].listener = call[t].listener
               \/ call'[t].listener = calls + 1,
           InSet(t)' => \A l \in call'[t].there : Old(l) /\ l \in Listener
    PROVE  Known'
<1>1. calls \in Nat
  BY InputsAssumption DEF TypeOK
<1>2. ASSUME NEW u \in Threads, InSet(u)', NEW l \in call'[u].there PROVE Old(l) /\ l \in Nat
  <2>1. CASE u = t
    BY <1>2, <2>1, InputsAssumption DEF Listener
  <2>2. CASE u # t
    <3>1. InSet(u) /\ call'[u] = call[u]
      BY <1>2, <2>2 DEF OthersStay, InSet
    <3>2. l \in Listener
      BY <1>2, <3>1 DEF TypeOK, PlacesOK, SetCall
    <3>3. QED BY <1>2, <3>1, <3>2, InputsAssumption DEF Known, Listener
  <2>3. QED BY <2>1, <2>2
<1>3. ASSUME NEW l \in Nat, Old(l) PROVE Old(l)'
  <2>1. l <= calls' /\ l # calls + 1
    BY <1>1, <1>3 DEF Old
  <2>2. ASSUME NEW u \in Threads, pc'[u] \in {"store", "insert"} PROVE l # call'[u].listener
    <3>1. CASE u = t
      BY <1>3, <2>1, <2>2, <3>1 DEF Old
    <3>2. CASE u # t
      BY <1>3, <2>2, <3>2 DEF Old, OthersStay
    <3>3. QED BY <3>1, <3>2
  <2>3. QED BY <2>1, <2>2 DEF Old
<1>4. QED BY <1>2, <1>3 DEF Known

\* A step that concerns another variable, or only adds a listener that no setter found.
SettersStay(v) ==
    /\ Setting(v)' = Setting(v)
    /\ \A u \in Setting(v) : pc'[u] = pc[u] /\ call'[u] = call[u]

KnowledgeStays(v) ==
    \A k \in DOMAIN func'[v] :
        \/ /\ k \in DOMAIN func[v] /\ func'[v][k] = func[v][k]
           /\ told'[func[v][k]] = told[func[v][k]]
        \/ \A u \in Setting(v) : func'[v][k] \notin call[u].there

LEMMA HeardKept ==
    ASSUME NEW v \in Vars, Heard(v), SettersStay(v), KnowledgeStays(v), value'[v] = value[v]
    PROVE  Heard(v)'
<1>1. \A a, b \in Setting(v)' : a = b
  BY DEF Heard, SettersStay
<1>2. ASSUME NEW u \in Setting(v)', NEW k \in DOMAIN func'[v], func'[v][k] \in call'[u].there
      PROVE  \/ pc'[u] = "notify" /\ [key |-> k, listener |-> func'[v][k]] \in call'[u].todo
             \/ ToldOf(func[v][k], value[v], call[u].val)'
  <2>1. u \in Setting(v) /\ pc'[u] = pc[u] /\ call'[u] = call[u]
    BY DEF SettersStay
  <2>2. /\ k \in DOMAIN func[v] /\ func'[v][k] = func[v][k]
        /\ told'[func[v][k]] = told[func[v][k]]
    BY <1>2, <2>1 DEF KnowledgeStays
  <2>3. \/ pc[u] = "notify" /\ [key |-> k, listener |-> func[v][k]] \in call[u].todo
        \/ ToldOf(func[v][k], value[v], call[u].val)
    BY <1>2, <2>1, <2>2 DEF Heard
  <2>4. QED BY <2>1, <2>2, <2>3 DEF ToldOf
<1>3. QED BY <1>1, <1>2 DEF Heard

\* The setters of v, as a step of t that is no setter of it before or after leaves them.
LEMMA OtherSetters ==
    ASSUME NEW v \in Vars, NEW t \in Threads, OthersStay(t),
           t \notin Setting(v), t \notin Setting(v)'
    PROVE  SettersStay(v)
<1>1. \A u \in Threads \ {t} : u \in Setting(v)' <=> u \in Setting(v)
  BY DEF OthersStay, Setting
<1>2. Setting(v) \subseteq Threads /\ Setting(v)' \subseteq Threads
  BY DEF Setting
<1>3. Setting(v)' = Setting(v)
  BY <1>1, <1>2
<1>4. QED BY <1>2, <1>3 DEF OthersStay, SettersStay

LEMMA HeardLook ==
    ASSUME ConfigInv, NEW v \in Vars, Heard(v),
           NEW t \in Threads, NEW w \in Vars, NEW val \in Values, look(t, w, val),
           w = v /\ val # value[v] => Setting(v) = {}
    PROVE  Heard(v)'
<1>0. TypeOK
  BY DEF ConfigInv
<1>1. func' = func /\ told' = told /\ value' = value /\ pc[t] = "idle"
  BY DEF look, begins
<1>2. KnowledgeStays(v) /\ value'[v] = value[v]
  BY <1>1 DEF KnowledgeStays
<1>3. CASE val = value[w]
  <2>1. pc' = pc /\ call' = call
    BY <1>3 DEF look
  <2>2. SettersStay(v)
    BY <2>1 DEF SettersStay, Setting
  <2>3. QED BY <1>2, <2>2, HeardKept
<1>4. CASE val # value[w]
  <2>1. CallAt(t, "notify") /\ Locals(t, SetLocals(w, val))
    BY <1>0, <1>4, LookPlaces
  <2>2. OthersStay(t) /\ pc'[t] = "notify" /\ call'[t] = SetLocals(w, val)
    BY <2>1 DEF CallAt, Locals, OthersStay
  <2>3. CASE w # v
    <3>1. t \notin Setting(v) /\ t \notin Setting(v)'
      BY <1>1, <2>2, <2>3 DEF Setting, SetLocals
    <3>2. QED BY <1>2, <2>2, <3>1, OtherSetters, HeardKept
  <2>4. CASE w = v
    <3>1. Setting(v)' = {t}
      <4>1. \A u \in Threads : u \in Setting(v)' <=> u = t
        <5>1. \A u \in Threads \ {t} : u \notin Setting(v)'
          BY <1>4, <2>2, <2>4 DEF Setting, OthersStay
        <5>2. t \in Setting(v)'
          BY <2>2, <2>4 DEF Setting, SetLocals
        <5>3. QED BY <5>1, <5>2
      <4>2. QED BY <4>1 DEF Setting
    <3>2. \A k \in DOMAIN func'[v] : [key |-> k, listener |-> func'[v][k]] \in call'[t].todo
      BY <1>1, <2>2, <2>4 DEF SetLocals
    <3>3. QED BY <2>2, <3>1, <3>2 DEF Heard
  <2>5. QED BY <2>3, <2>4
<1>5. QED BY <1>3, <1>4

\* The listener that is called is told the change that is being made; only v has it.
LEMMA HeardNotify ==
    ASSUME ConfigInv, Homes, NEW v \in Vars, Heard(v), NEW t \in Threads, notify(t)
    PROVE  Heard(v)'
<1>0. TypeOK
  BY DEF ConfigInv
<1>1. PICK entry \in call[t].todo :
        /\ told' = [told EXCEPT ![entry.listener] =
                       Append(@, <<value[call[t].var], call[t].val>>)]
        /\ call' = [call EXCEPT ![t].todo = @ \ {entry}]
  BY DEF notify
<1>2. /\ Locals(t, [call[t] EXCEPT !.todo = @ \ {entry}]) /\ pc' = pc /\ pc[t] = "notify"
      /\ func' = func /\ value' = value
  BY <1>0, <1>1, NotifyPlaces DEF notify
<1>3. call[t] \in SetCall /\ call[t].var \in Vars /\ call[t].val \in Values
  BY <1>0, <1>2 DEF TypeOK, PlacesOK, InSet, SetCall
<1>4. /\ OthersStay(t) /\ call'[t].var = call[t].var /\ call'[t].val = call[t].val
      /\ call'[t].todo = call[t].todo \ {entry} /\ call'[t].there = call[t].there
  BY <1>2, <1>3 DEF Locals, OthersStay, SetCall
<1>5. /\ entry \in Entries /\ entry.key \in DOMAIN func[call[t].var]
      /\ func[call[t].var][entry.key] = entry.listener
  BY <1>1, <1>2, <1>3 DEF ConfigInv, EntriesThere, SetCall
<1> DEFINE pair == <<value[call[t].var], call[t].val>>
<1>6. pair \in Values \X Values
  BY <1>0, <1>3 DEF TypeOK
<1>7. /\ told[entry.listener] \in Seq(Values \X Values)
      /\ told'[entry.listener] = Append(told[entry.listener], pair)
      /\ \A l \in Listener : l # entry.listener => told'[l] = told[l]
  BY <1>0, <1>1, <1>5 DEF TypeOK, Entries
<1>8. told'[entry.listener] # <<>> /\ Last(told'[entry.listener]) = pair
  <2> DEFINE T == Values \X Values  s == told[entry.listener]
  <2> HIDE DEF pair, T, s
  <2>1. s \in Seq(T) /\ pair \in T
    BY <1>6, <1>7 DEF T, s
  <2>2. /\ Append(s, pair) \in Seq(T) /\ Len(Append(s, pair)) = Len(s) + 1
        /\ Append(s, pair)[Len(s) + 1] = pair
    BY <2>1
  <2>3. Last(Append(s, pair)) = pair
    BY <2>2 DEF Last
  <2>4. Append(s, pair) # <<>>
    BY <2>1, <2>2
  <2>5. QED BY <1>7, <2>3, <2>4 DEF s
<1>9. CASE call[t].var # v
  <2>1. \A k \in DOMAIN func[v] : func[v][k] \in Listener /\ func[v][k] # entry.listener
    BY <1>0, <1>3, <1>5, <1>9 DEF Homes, TypeOK, ListenersOK
  <2>2. KnowledgeStays(v)
    BY <1>2, <1>7, <2>1 DEF KnowledgeStays
  <2>3. t \notin Setting(v) /\ t \notin Setting(v)'
    BY <1>2, <1>4, <1>9 DEF Setting
  <2>4. SettersStay(v)
    BY <1>4, <2>3, OtherSetters
  <2>5. QED BY <1>2, <2>2, <2>4, HeardKept
<1>10. CASE call[t].var = v
  <2>1. Setting(v)' = Setting(v) /\ t \in Setting(v)
    <3>1. \A u \in Threads : call'[u].var = call[u].var
      BY <1>4 DEF OthersStay
    <3>2. QED BY <1>2, <1>10, <3>1 DEF Setting
  <2>2. \A u \in Setting(v) : u = t
    BY <2>1 DEF Heard
  <2>3. ASSUME NEW k \in DOMAIN func'[v], func'[v][k] \in call'[t].there
        PROVE  \/ [key |-> k, listener |-> func'[v][k]] \in call'[t].todo
               \/ ToldOf(func[v][k], value[v], call[t].val)'
    <3>1. func'[v][k] = func[v][k] /\ k \in DOMAIN func[v] /\ func[v][k] \in Listener
          /\ value'[v] = value[v] /\ call'[t].val = call[t].val
      BY <1>0, <1>2, <1>4 DEF TypeOK, ListenersOK
    <3>2. CASE func[v][k] = entry.listener
      BY <1>8, <1>10, <3>1, <3>2 DEF ToldOf
    <3>3. CASE func[v][k] # entry.listener
      <4>1. [key |-> k, listener |-> func[v][k]] # entry
        BY <3>3
      <4>2. \/ [key |-> k, listener |-> func[v][k]] \in call[t].todo
            \/ ToldOf(func[v][k], value[v], call[t].val)
        BY <1>4, <2>1, <2>3, <3>1 DEF Heard
      <4>3. CASE [key |-> k, listener |-> func[v][k]] \in call[t].todo
        BY <1>4, <3>1, <4>1, <4>3
      <4>4. CASE ToldOf(func[v][k], value[v], call[t].val)
        BY <1>7, <3>1, <3>3, <4>4 DEF ToldOf
      <4>5. QED BY <4>2, <4>3, <4>4
    <3>4. QED BY <3>2, <3>3
  <2>4. QED BY <1>2, <2>1, <2>2, <2>3 DEF Heard
<1>11. QED BY <1>9, <1>10

\* Nothing is left to call: all listeners found and still there know the change.
LEMMA HeardUnlock ==
    ASSUME ConfigInv, NEW v \in Vars, Heard(v), NEW t \in Threads, unlockShared(t)
    PROVE  Heard(v)'
<1>1. /\ OthersStay(t) /\ pc[t] = "notify" /\ pc'[t] = "write" /\ call' = call
      /\ call[t].todo = {} /\ func' = func /\ told' = told /\ value' = value
  BY UnlockPlaces DEF ConfigInv, CallAt, OthersStay, unlockShared
<1>2. Setting(v)' = Setting(v)
  <2>1. \A u \in Threads : pc'[u] \in {"notify", "write"} <=> pc[u] \in {"notify", "write"}
    BY <1>1 DEF OthersStay
  <2>2. QED BY <1>1, <2>1 DEF Setting
<1>3. ASSUME NEW u \in Setting(v), NEW k \in DOMAIN func[v], func[v][k] \in call[u].there
      PROVE  \/ pc'[u] = "notify" /\ [key |-> k, listener |-> func[v][k]] \in call[u].todo
             \/ ToldOf(func[v][k], value[v], call[u].val)
  <2>1. CASE u = t
    BY <1>1, <1>3, <2>1 DEF Heard
  <2>2. CASE u # t
    <3>1. pc'[u] = pc[u]
      BY <1>1, <2>2 DEF OthersStay, Setting
    <3>2. QED BY <1>3, <3>1 DEF Heard
  <2>3. QED BY <2>1, <2>2
<1>4. QED BY <1>1, <1>2, <1>3 DEF Heard, ToldOf

LEMMA HeardWrite ==
    ASSUME ConfigInv, NEW v \in Vars, Heard(v), NEW t \in Threads, write(t)
    PROVE  Heard(v)'
<1>0. TypeOK
  BY DEF ConfigInv
<1>1. CallAt(t, "idle") /\ Locals(t, NoCall)
  BY <1>0, WritePlaces
<1>2. /\ OthersStay(t) /\ pc[t] = "write" /\ pc'[t] = "idle"
      /\ func' = func /\ told' = told /\ value' = [value EXCEPT ![call[t].var] = call[t].val]
  BY <1>1 DEF CallAt, Locals, OthersStay, write
<1>3. call[t].var \in Vars /\ value \in [Vars -> Values] /\ t \notin Setting(v)'
  BY <1>0, <1>2 DEF TypeOK, PlacesOK, InSet, SetCall, Setting
<1>4. CASE call[t].var # v
  <2>1. t \notin Setting(v) /\ KnowledgeStays(v) /\ value'[v] = value[v]
    BY <1>2, <1>3, <1>4 DEF Setting, KnowledgeStays
  <2>2. QED BY <1>2, <1>3, <2>1, OtherSetters, HeardKept
<1>5. CASE call[t].var = v
  <2>1. t \in Setting(v)
    BY <1>2, <1>5 DEF Setting
  <2>2. \A u \in Setting(v) : u = t
    BY <2>1 DEF Heard
  <2>3. Setting(v)' = {}
    <3>1. \A u \in Threads \ {t} : u \notin Setting(v)'
      BY <1>2, <2>2 DEF OthersStay, Setting
    <3>2. QED BY <1>3, <3>1 DEF Setting
  <2>4. QED BY <2>3 DEF Heard
<1>6. QED BY <1>4, <1>5

\* A listener that comes was not found by who sets the variable, one that goes is no
\* longer asked.
LEMMA HeardAdd ==
    ASSUME ConfigInv, Known, NEW v \in Vars, Heard(v), NEW t \in Threads,
           storeId(t) \/ insert(t) \/ addReturns(t) \/ \E w \in Vars : lockAndLoad(t, w)
    PROVE  Heard(v)'
<1>0. TypeOK
  BY DEF ConfigInv
<1>1. /\ OthersStay(t) /\ t \notin Setting(v) /\ t \notin Setting(v)'
      /\ told' = told /\ value' = value
  <2>1. CASE storeId(t)
    BY <1>0, <2>1, StorePlaces DEF CallAt, OthersStay, Setting, storeId
  <2>2. CASE insert(t)
    BY <1>0, <2>2, InsertPlaces DEF CallAt, OthersStay, Setting, insert
  <2>3. CASE addReturns(t)
    BY <1>0, <2>3, ReturnPlaces DEF CallAt, Locals, OthersStay, Setting, addReturns
  <2>4. ASSUME NEW w \in Vars, lockAndLoad(t, w)
        PROVE  /\ OthersStay(t) /\ t \notin Setting(v) /\ t \notin Setting(v)'
               /\ told' = told /\ value' = value
    <3>1. CallAt(t, "store") /\ Locals(t, AddLocals(w))
      BY <1>0, <2>4, LoadPlaces
    <3>2. QED BY <2>4, <3>1 DEF CallAt, Locals, OthersStay, Setting, lockAndLoad, begins
  <2>5. QED BY <2>1, <2>2, <2>3, <2>4
<1>2. KnowledgeStays(v)
  <2>1. CASE insert(t)
    <3>1. \A u \in Setting(v) : call[t].listener \notin call[u].there
      BY <2>1 DEF Known, Old, InSet, Setting, insert
    <3>2. ASSUME NEW k \in DOMAIN func'[v]
          PROVE  \/ k \in DOMAIN func[v] /\ func'[v][k] = func[v][k]
                 \/ func'[v][k] = call[t].listener
      <4>1. CASE v = call[t].var
        BY <1>0, <2>1, <4>1, InsertEffect
      <4>2. CASE v # call[t].var
        BY <1>0, <2>1, <4>2, InsertEffect
      <4>3. QED BY <4>1, <4>2
    <3>3. QED BY <1>1, <3>1, <3>2 DEF KnowledgeStays
  <2>2. CASE ~insert(t)
    BY <1>1, <2>2 DEF KnowledgeStays, storeId, addReturns, lockAndLoad
  <2>3. QED BY <2>1, <2>2
<1>3. QED BY <1>1, <1>2, OtherSetters, HeardKept

LEMMA RemovalEffect ==
    ASSUME TypeOK, NEW t \in Threads,
           \/ \E h \in handles : deleteListener(t, h)
           \/ \E w \in Vars : clearListener(t, w)
    PROVE  /\ MapsShrink /\ told' = told /\ value' = value /\ pc' = pc /\ call' = call
           /\ calls' \in Nat /\ calls <= calls'
<1>1. calls \in Nat
  BY InputsAssumption DEF TypeOK
<1>2. ASSUME NEW h \in handles, deleteListener(t, h) PROVE MapsShrink
  <2>1. h.var \in Vars
    BY DEF TypeOK
  <2>2. func' = [func EXCEPT ![h.var] = Restrict(@, DOMAIN @ \ {h.key})]
    BY <1>2 DEF deleteListener
  <2>3. QED BY <2>1, <2>2 DEF MapsShrink, TypeOK, ListenersOK, Restrict
<1>3. ASSUME NEW w \in Vars, clearListener(t, w) PROVE MapsShrink
  <2>1. DOMAIN <<>> = {}
    OBVIOUS
  <2>2. func' = [func EXCEPT ![w] = <<>>]
    BY <1>3 DEF clearListener
  <2>3. QED BY <2>1, <2>2 DEF MapsShrink, TypeOK, ListenersOK
<1>4. MapsShrink
  BY <1>2, <1>3
<1>5. told' = told /\ value' = value /\ pc' = pc /\ call' = call /\ calls' = calls + 1
  BY DEF deleteListener, clearListener, begins
<1>6. QED BY <1>1, <1>4, <1>5

LEMMA HeardRemoval ==
    ASSUME NEW v \in Vars, Heard(v),
           MapsShrink /\ told' = told /\ value' = value /\ pc' = pc /\ call' = call
    PROVE  Heard(v)'
<1>1. SettersStay(v) /\ KnowledgeStays(v) /\ value'[v] = value[v]
  BY DEF SettersStay, Setting, KnowledgeStays, MapsShrink
<1>2. QED BY <1>1, HeardKept

LEMMA FreshStep ==
    ASSUME ConfigInv, Fresh, Homes, [Next]_vars
    PROVE  Fresh' /\ Homes'
<1>0. TypeOK /\ calls \in Nat
  BY InputsAssumption DEF ConfigInv, TypeOK
<1>a. CASE UNCHANGED vars
  BY <1>a DEF vars, Fresh, Homes, InAdd
<1>b. CASE Next
  <2>1. OnlyRegisteredTold
    BY <1>b, RegisteredTold
  <2>2. ASSUME NEW t \in Threads, NEW v \in Vars, NEW val \in Values, look(t, v, val)
        PROVE  Fresh' /\ Homes'
    <3>1. OthersStay(t) /\ pc'[t] \in {"idle", "notify"}
      <4>1. CASE val = value[v]
        BY <2>2, <4>1 DEF look, begins, OthersStay
      <4>2. CASE val # value[v]
        BY <1>0, <2>2, <4>2, LookPlaces DEF CallAt, Locals, OthersStay
      <4>3. QED BY <4>1, <4>2
    <3>2. MapsShrink /\ calls' \in Nat /\ calls <= calls'
      BY <1>0, <2>2 DEF look, begins, MapsShrink
    <3>3. QED BY <1>0, <2>1, <3>1, <3>2, FreshKept, HomesKept DEF InAdd
  <2>3. ASSUME NEW t \in Threads, notify(t) \/ unlockShared(t) \/ write(t) \/ addReturns(t)
        PROVE  Fresh' /\ Homes'
    <3>1. OthersStay(t) /\ pc'[t] \in {"idle", "notify", "write"}
      <4>1. CASE notify(t)
        <5>1. PICK entry \in call[t].todo : call' = [call EXCEPT ![t].todo = @ \ {entry}]
          BY <4>1 DEF notify
        <5>2. QED BY <1>0, <4>1, <5>1, NotifyPlaces DEF notify, CallAt, Locals, OthersStay
      <4>2. CASE unlockShared(t)
        BY <1>0, <4>2, UnlockPlaces DEF CallAt, OthersStay
      <4>3. CASE write(t)
        BY <1>0, <4>3, WritePlaces DEF CallAt, Locals, OthersStay
      <4>4. CASE addReturns(t)
        BY <1>0, <4>4, ReturnPlaces DEF CallAt, Locals, OthersStay
      <4>5. QED BY <2>3, <4>1, <4>2, <4>3, <4>4
    <3>2. MapsShrink /\ calls' \in Nat /\ calls <= calls'
      BY <1>0, <2>3 DEF notify, unlockShared, write, addReturns, MapsShrink
    <3>3. QED BY <1>0, <2>1, <3>1, <3>2, FreshKept, HomesKept DEF InAdd
  <2>4. ASSUME NEW t \in Threads, NEW v \in Vars, lockAndLoad(t, v)
        PROVE  Fresh' /\ Homes'
    <3>1. Homes'
      BY <2>4 DEF lockAndLoad, Homes
    <3>2. QED BY <2>4, <3>1, FreshLoad
  <2>5. ASSUME NEW t \in Threads, storeId(t) PROVE Fresh' /\ Homes'
    <3>1. OthersStay(t) /\ pc[t] = "store" /\ pc'[t] = "insert" /\ call' = call
      BY <1>0, <2>5, StorePlaces DEF CallAt, OthersStay, storeId
    <3>2. MapsShrink /\ calls' \in Nat /\ calls <= calls'
      BY <1>0, <2>5 DEF storeId, MapsShrink
    <3>3. QED BY <1>0, <2>1, <3>1, <3>2, FreshKept, HomesKept DEF InAdd
  <2>6. ASSUME NEW t \in Threads, insert(t) PROVE Fresh' /\ Homes'
    BY <2>6, FreshInsert
  <2>7. ASSUME NEW t \in Threads,
               \/ \E h \in handles : deleteListener(t, h)
               \/ \E v \in Vars : clearListener(t, v)
        PROVE  Fresh' /\ Homes'
    <3>1. /\ MapsShrink /\ pc' = pc /\ call' = call /\ calls' \in Nat /\ calls <= calls'
      BY <1>0, <2>7, RemovalEffect
    <3>2. OthersStay(t) /\ (InAdd(t)' => InAdd(t) /\ call'[t] = call[t])
      BY <3>1 DEF OthersStay, InAdd
    <3>3. pc'[t] \in {"store", "insert"} => pc[t] \in {"store", "insert"}
      BY <3>1
    <3>4. QED BY <1>0, <2>1, <3>1, <3>2, <3>3, FreshKept, HomesKept
  <2>8. QED BY <1>b, <2>2, <2>3, <2>4, <2>5, <2>6, <2>7 DEF Next, goesOn
<1>c. QED BY <1>a, <1>b

LEMMA KnownStep ==
    ASSUME ConfigInv, Fresh, Known, [Next]_vars
    PROVE  Known'
<1>0. TypeOK /\ calls \in Nat
  BY InputsAssumption DEF ConfigInv, TypeOK
<1>1. CASE UNCHANGED vars
  BY <1>1 DEF vars, Known, Old, InSet
<1>2. ASSUME NEW t \in Threads, NEW v \in Vars, NEW val \in Values, look(t, v, val)
      PROVE  Known'
  <2>1. calls' \in Nat /\ calls <= calls'
    BY <1>0, <1>2 DEF look, begins
  <2>2. CASE val = value[v]
    <3>1. OthersStay(t) /\ pc'[t] = "idle"
      BY <1>2, <2>2 DEF look, begins, OthersStay
    <3>2. QED BY <1>0, <2>1, <3>1, KnownKept DEF InSet
  <2>3. CASE val # value[v]
    <3>1. OthersStay(t) /\ pc'[t] = "notify" /\ call'[t].there = {func[v][k] : k \in DOMAIN func[v]}
      <4>1. CallAt(t, "notify") /\ Locals(t, SetLocals(v, val))
        BY <1>0, <1>2, <2>3, LookPlaces
      <4>2. OthersStay(t) /\ pc'[t] = "notify" /\ call'[t] = SetLocals(v, val)
        BY <4>1 DEF CallAt, Locals, OthersStay
      <4>3. QED BY <4>2 DEF SetLocals
    <3>2. \A l \in call'[t].there : Old(l) /\ l \in Listener
      BY <1>0, <3>1 DEF Fresh, Old, TypeOK, ListenersOK
    <3>3. QED BY <1>0, <2>1, <3>1, <3>2, KnownKept
  <2>4. QED BY <2>2, <2>3
<1>3. ASSUME NEW t \in Threads, notify(t) \/ unlockShared(t) PROVE Known'
  <2>1. /\ OthersStay(t) /\ InSet(t) /\ pc'[t] \in {"notify", "write"}
        /\ call'[t].there = call[t].there
    <3>1. CASE notify(t)
      <4>1. PICK entry \in call[t].todo : call' = [call EXCEPT ![t].todo = @ \ {entry}]
        BY <3>1 DEF notify
      <4>2. CallAt(t, "notify") /\ Locals(t, [call[t] EXCEPT !.todo = @ \ {entry}])
        BY <1>0, <3>1, <4>1, NotifyPlaces DEF notify
      <4>3. call[t] \in SetCall /\ InSet(t)
        BY <1>0, <3>1 DEF TypeOK, PlacesOK, InSet, notify
      <4>4. QED BY <4>2, <4>3 DEF CallAt, Locals, OthersStay, SetCall
    <3>2. CASE unlockShared(t)
      BY <1>0, <3>2, UnlockPlaces DEF CallAt, OthersStay, InSet, unlockShared
    <3>3. QED BY <1>3, <3>1, <3>2
  <2>2. calls' \in Nat /\ calls <= calls'
    BY <1>0, <1>3 DEF notify, unlockShared
  <2>3. \A l \in call'[t].there : Old(l) /\ l \in Listener
    BY <1>0, <2>1 DEF Known, TypeOK, PlacesOK, SetCall
  <2>4. QED BY <1>0, <2>1, <2>2, <2>3, KnownKept
<1>4. ASSUME NEW t \in Threads, write(t) \/ addReturns(t) PROVE Known'
  <2>1. OthersStay(t) /\ pc'[t] = "idle"
    BY <1>0, <1>4, WritePlaces, ReturnPlaces DEF CallAt, Locals, OthersStay
  <2>2. calls' \in Nat /\ calls <= calls'
    BY <1>0, <1>4 DEF write, addReturns
  <2>3. QED BY <1>0, <2>1, <2>2, KnownKept DEF InSet
<1>5. ASSUME NEW t \in Threads, NEW v \in Vars, lockAndLoad(t, v) PROVE Known'
  <2>1. OthersStay(t) /\ pc'[t] = "store" /\ call'[t].listener = calls'
    <3>1. CallAt(t, "store") /\ Locals(t, AddLocals(v))
      BY <1>0, <1>5, LoadPlaces
    <3>2. QED BY <3>1 DEF CallAt, Locals, AddLocals, OthersStay
  <2>2. calls' = calls + 1 /\ calls' \in Nat /\ calls <= calls'
    BY <1>0, <1>5 DEF lockAndLoad, begins
  <2>3. QED BY <1>0, <2>1, <2>2, KnownKept DEF InSet
<1>6. ASSUME NEW t \in Threads, storeId(t) \/ insert(t) PROVE Known'
  <2>1. /\ OthersStay(t) /\ pc[t] \in {"store", "insert"} /\ call' = call
        /\ pc'[t] \in {"insert", "return"}
    BY <1>0, <1>6, StorePlaces, InsertPlaces DEF CallAt, OthersStay, storeId, insert
  <2>2. calls' \in Nat /\ calls <= calls'
    BY <1>0, <1>6 DEF storeId, insert
  <2>3. QED BY <1>0, <2>1, <2>2, KnownKept DEF InSet
<1>7. ASSUME NEW t \in Threads,
             \/ \E h \in handles : deleteListener(t, h)
             \/ \E v \in Vars : clearListener(t, v)
      PROVE  Known'
  <2>1. pc' = pc /\ call' = call /\ calls' \in Nat /\ calls <= calls'
    BY <1>0, <1>7, RemovalEffect
  <2>2. OthersStay(t) /\ (InSet(t)' => InSet(t))
    BY <2>1 DEF OthersStay, InSet
  <2>3. InSet(t)' => \A l \in call'[t].there : Old(l) /\ l \in Listener
    BY <1>0, <2>1, <2>2 DEF Known, TypeOK, PlacesOK, SetCall
  <2>4. QED BY <1>0, <2>1, <2>2, <2>3, KnownKept
<1>8. QED BY <1>1, <1>2, <1>3, <1>4, <1>5, <1>6, <1>7 DEF Next, goesOn

\* Every step keeps what the listeners know of a variable, unless it sets the variable
\* while another thread is setting it, which is remembered until nobody does.
LEMMA HeardStep ==
    ASSUME ConfigInv, HeardInv, RegisteredAreVars, [LoadNext]_allVars, NEW v \in Vars \ overlapped'
    PROVE  Heard(v)'
<1>0. TypeOK
  BY DEF ConfigInv
<1>1. v \in overlapped => Setting(v)' = {}
  BY DEF LoadNext, use, setValue, callGoesOn, loadGoesOn, lstat, compare, LoadFile, LoadFromYaml,
         loadReturns, Lookup, LoadFromConfDir, edit, allVars, loadVars
<1>2. SUFFICES ASSUME Heard(v) PROVE Heard(v)'
  BY <1>1 DEF HeardInv, Heard
<1>2a. Homes /\ Known /\ v \in Vars
  BY DEF HeardInv
<1>3. CASE UNCHANGED vars
  <2>1. SettersStay(v) /\ KnowledgeStays(v) /\ value'[v] = value[v]
    BY <1>3 DEF vars, SettersStay, Setting, KnowledgeStays
  <2>2. QED BY <1>2, <1>2a, <2>1, HeardKept
<1>4. ASSUME NEW t \in Threads, NEW w \in registered, NEW val \in Values, setValue(t, w, val)
      PROVE  Heard(v)'
  <2>1. w \in Vars /\ look(t, w, val)
    BY <1>4 DEF RegisteredAreVars, setValue
  <2>2. w = v /\ val # value[v] => Setting(v) = {}
    BY <1>4 DEF setValue
  <2>3. QED BY <1>2, <1>2a, <2>1, <2>2, HeardLook
<1>5. ASSUME NEW t \in Threads, goesOn(t) PROVE Heard(v)'
  BY <1>2, <1>2a, <1>5, HeardNotify, HeardUnlock, HeardWrite, HeardAdd DEF goesOn
<1>6. ASSUME NEW t \in Threads, NEW w \in Vars, lockAndLoad(t, w) PROVE Heard(v)'
  BY <1>2, <1>2a, <1>6, HeardAdd
<1>7. ASSUME NEW t \in Threads,
             \/ \E h \in handles : deleteListener(t, h)
             \/ \E w \in Vars : clearListener(t, w)
      PROVE  Heard(v)'
  BY <1>0, <1>2, <1>2a, <1>7, RemovalEffect, HeardRemoval
<1>8. ASSUME NEW t \in Threads, use(t) PROVE Heard(v)'
  <2>1. registered \subseteq Vars
    BY DEF RegisteredAreVars
  <2>2. QED BY <1>4, <1>6, <1>7, <1>8, <2>1 DEF use
<1>9. ASSUME NEW t \in Threads, LoadFromYaml(t) PROVE Heard(v)'
  <2>1. CASE Head(load[t].nodes).at \in registered /\ Head(load[t].nodes).holds \in Values
    BY <1>4, <1>9, <2>1 DEF LoadFromYaml
  <2>2. CASE ~(Head(load[t].nodes).at \in registered /\ Head(load[t].nodes).holds \in Values)
    BY <1>3, <1>9, <2>2 DEF LoadFromYaml
  <2>3. QED BY <2>1, <2>2
<1>10. ASSUME NEW t \in Threads, lstat(t) \/ compare(t) \/ LoadFile(t) \/ loadReturns(t)
       PROVE  UNCHANGED vars
  BY <1>10 DEF lstat, compare, LoadFile, loadReturns
<1>11. CASE \/ \E t \in Threads, w \in Vars : Lookup(t, w)
            \/ \E t \in Loaders, force \in BOOLEAN : LoadFromConfDir(t, force)
            \/ \E f \in Files : edit(f)
            \/ UNCHANGED allVars
  BY <1>3, <1>11 DEF Lookup, LoadFromConfDir, edit, allVars
<1>12. QED BY <1>3, <1>5, <1>8, <1>9, <1>10, <1>11 DEF LoadNext, callGoesOn, loadGoesOn

\* config.h:424-425: while files are loaded and the variables are used, whoever writes a
\* value has told each listener that it found, and that is still there, of this change, and
\* nothing since, as long as no other thread sets the variable at the same time.
THEOREM ListenersAreTold == LoadSpec => ListenersTold
<1>1. LoadInit => HeardInv /\ RegisteredAreVars
  <2> SUFFICES ASSUME LoadInit PROVE HeardInv /\ RegisteredAreVars
    OBVIOUS
  <2>1. DOMAIN <<>> = {}
    OBVIOUS
  <2>2. /\ \A v \in Vars : DOMAIN func[v] = {}
        /\ \A t \in Threads : pc[t] = "idle"
        /\ \A l \in Listener : told[l] = <<>>
    BY <2>1 DEF LoadInit, Init
  <2>3. Fresh /\ Homes /\ Known
    <3>1. \A t \in Threads : ~InAdd(t) /\ ~InSet(t) /\ pc[t] \notin {"store", "insert"}
      BY <2>2 DEF InAdd, InSet
    <3>2. QED BY <2>2, <3>1 DEF Fresh, Homes, Known
  <2>4. \A v \in Vars : Heard(v)
    BY <2>2 DEF Heard, Setting
  <2>5. QED BY <2>3, <2>4 DEF HeardInv, LoadInit, RegisteredAreVars
<1>2. ConfigInv /\ HeardInv /\ RegisteredAreVars /\ [LoadNext]_allVars =>
          HeardInv' /\ RegisteredAreVars'
  <2> SUFFICES ASSUME ConfigInv, HeardInv, RegisteredAreVars, [LoadNext]_allVars
               PROVE  HeardInv' /\ RegisteredAreVars'
    OBVIOUS
  <2>1. Fresh' /\ Homes' /\ Known'
    <3>1. [Next]_vars
      BY StepOfVariables
    <3>2. QED BY <3>1, FreshStep, KnownStep DEF HeardInv
  <2>2. \A v \in Vars \ overlapped' : Heard(v)'
    BY HeardStep
  <2>3. QED BY <2>1, <2>2, RegisteredStep DEF HeardInv
<1>3. HeardInv => \A t \in Threads, v \in Vars \ overlapped :
                       write(t) /\ call[t].var = v => HasTold(t, v)
  <2> SUFFICES ASSUME HeardInv, NEW t \in Threads, NEW v \in Vars \ overlapped,
                      write(t), call[t].var = v,
                      NEW k \in DOMAIN func[v], func[v][k] \in call[t].there
               PROVE  ToldOf(func[v][k], value[v], call[t].val)
    BY DEF HasTold, ToldOf
  <2>1. t \in Setting(v) /\ pc[t] = "write"
    BY DEF Setting, write
  <2>2. QED BY <2>1 DEF HeardInv, Heard
<1>4. QED BY <1>1, <1>2, <1>3, LoadsUseVariables, ConfigInvariant, PTL DEF LoadSpec, ListenersTold

-----------------------------------------------------------------------------
(* The nodes of a document *)

LEMMA AppendedNode ==
    ASSUME NEW T, NEW s \in Seq(T), NEW x \in T, NEW v
    PROVE  /\ Names(Append(s, x), v) <=> Fits(x, v) \/ Names(s, v)
           /\ \A val : GivesLast(Append(s, x), v, val) <=>
                  IF Fits(x, v) THEN x.holds = val ELSE GivesLast(s, v, val)
<1> DEFINE more == Append(s, x)  n == Len(s)
<1>1. /\ n \in Nat /\ DOMAIN s = 1 .. n /\ DOMAIN more = 1 .. n + 1
      /\ \A i \in 1 .. n : more[i] = s[i]
      /\ more[n + 1] = x
  BY AppendProperties, LenProperties
<1> HIDE DEF more, n
<1>2. \A i \in 1 .. n + 1 : i \in 1 .. n \/ i = n + 1
  BY <1>1
<1>3. n + 1 \in 1 .. n + 1 /\ \A i \in 1 .. n : i \in 1 .. n + 1 /\ ~(n + 1 <= i) /\ i <= n + 1
  BY <1>1
<1>4. Names(more, v) <=> Fits(x, v) \/ Names(s, v)
  BY <1>1, <1>2, <1>3 DEF Names
<1>5. ASSUME NEW val, Fits(x, v)
      PROVE  GivesLast(more, v, val) <=> x.holds = val
  <2>1. ASSUME x.holds = val PROVE GivesLast(more, v, val)
    <3>1. n + 1 <= n + 1
      BY <1>1
    <3>2. \A j \in DOMAIN more : j <= n + 1
      BY <1>1, <1>2, <1>3, <3>1
    <3>3. QED BY <1>1, <1>3, <1>5, <2>1, <3>2 DEF GivesLast
  <2>2. ASSUME GivesLast(more, v, val) PROVE x.holds = val
    <3>1. PICK i \in DOMAIN more : more[i].holds = val /\ \A j \in DOMAIN more : Fits(more[j], v) => j <= i
      BY <2>2 DEF GivesLast
    <3>2. n + 1 <= i
      BY <1>1, <1>3, <1>5, <3>1
    <3>3. i = n + 1
      BY <1>1, <1>2, <1>3, <3>1, <3>2
    <3>4. QED BY <1>1, <3>1, <3>3
  <2>3. QED BY <2>1, <2>2
<1>6. ASSUME NEW val, ~Fits(x, v)
      PROVE  GivesLast(more, v, val) <=> GivesLast(s, v, val)
  <2>1. \A i \in DOMAIN more : Fits(more[i], v) => i \in DOMAIN s /\ more[i] = s[i]
    BY <1>1, <1>2, <1>6
  <2>2. \A i \in DOMAIN s : i \in DOMAIN more /\ more[i] = s[i]
    BY <1>1, <1>3
  <2>3. QED BY <2>1, <2>2 DEF GivesLast
<1>7. QED BY <1>4, <1>5, <1>6 DEF more

\* What is left when the first node has been taken.
LEMMA FirstNode ==
    ASSUME NEW T, NEW s \in Seq(T), s # <<>>, NEW v
    PROVE  /\ Head(s) \in T /\ Tail(s) \in Seq(T)
           /\ Names(s, v) <=> Fits(Head(s), v) \/ Names(Tail(s), v)
           /\ \A val : GivesLast(s, v, val) =>
                 IF Names(Tail(s), v) THEN GivesLast(Tail(s), v, val) ELSE Head(s).holds = val
<1> DEFINE n == Len(s)  rest == Tail(s)
<1>1. /\ n \in Nat /\ n > 0 /\ DOMAIN s = 1 .. n /\ Head(s) = s[1]
      /\ rest \in Seq(T) /\ DOMAIN rest = 1 .. n - 1
      /\ \A i \in 1 .. n - 1 : rest[i] = s[i + 1]
  BY HeadTailProperties, LenProperties, EmptySeq
<1>0. Head(s) \in T
  BY HeadTailProperties
<1> HIDE DEF rest, n
<1>2. 1 \in 1 .. n /\ \A i \in 1 .. n - 1 : i + 1 \in 1 .. n
  BY <1>1
<1>3. \A i \in 1 .. n : i = 1 \/ (i - 1 \in 1 .. n - 1 /\ (i - 1) + 1 = i)
  BY <1>1
<1>4. \A i \in 1 .. n : i = 1 \/ (i - 1 \in DOMAIN rest /\ rest[i - 1] = s[i])
  BY <1>1, <1>3
<1>5. Names(s, v) <=> Fits(Head(s), v) \/ Names(rest, v)
  <2>1. ASSUME Names(s, v) PROVE Fits(Head(s), v) \/ Names(rest, v)
    <3>1. PICK i \in 1 .. n : Fits(s[i], v)
      BY <1>1, <2>1 DEF Names
    <3>2. QED BY <1>1, <1>4, <3>1 DEF Names
  <2>2. ASSUME Fits(Head(s), v) \/ Names(rest, v) PROVE Names(s, v)
    BY <1>1, <1>2, <2>2 DEF Names
  <2>3. QED BY <2>1, <2>2
<1>6. ASSUME NEW val, GivesLast(s, v, val)
      PROVE  IF Names(rest, v) THEN GivesLast(rest, v, val) ELSE Head(s).holds = val
  <2>1. PICK i \in 1 .. n : /\ Fits(s[i], v) /\ s[i].holds = val
                            /\ \A j \in 1 .. n : Fits(s[j], v) => j <= i
    BY <1>1, <1>6 DEF GivesLast
  <2>2. CASE Names(rest, v)
    <3>1. PICK k \in 1 .. n - 1 : Fits(s[k + 1], v)
      BY <1>1, <2>2 DEF Names
    <3>2. i # 1
      BY <1>1, <1>2, <2>1, <3>1
    <3>3. /\ i - 1 \in DOMAIN rest /\ rest[i - 1] = s[i]
          /\ \A j \in DOMAIN rest : Fits(rest[j], v) => j <= i - 1
      <4>1. ASSUME NEW j \in 1 .. n - 1, Fits(rest[j], v) PROVE j <= i - 1
        <5>1. j + 1 <= i
          BY <1>1, <1>2, <2>1, <4>1
        <5>2. QED BY <5>1
      <4>2. QED BY <1>1, <1>4, <3>2, <4>1
    <3>4. GivesLast(rest, v, val)
      BY <2>1, <3>3 DEF GivesLast
    <3>5. QED BY <2>2, <3>4
  <2>3. CASE ~Names(rest, v)
    <3>1. i = 1
      BY <1>4, <2>1, <2>3 DEF Names
    <3>2. QED BY <1>1, <2>1, <2>3, <3>1
  <2>4. QED BY <2>2, <2>3
<1>7. QED BY <1>0, <1>1, <1>5, <1>6 DEF rest

\* One more node is a member if its name is valid.
LEMMA MemberAppend ==
    ASSUME NEW T, NEW s \in Seq(T), NEW x \in T
    PROVE  ListAllMember(Append(s, x)) = ListAllMember(s) \o memberOf(x)
<1> DEFINE more == Append(s, x)  n == Len(s)
           a == [i \in DOMAIN s |-> memberOf(s[i])]
           b == [i \in DOMAIN more |-> memberOf(more[i])]
<1>1. /\ n \in Nat /\ DOMAIN s = 1 .. n /\ DOMAIN more = 1 .. n + 1
      /\ \A i \in 1 .. n : more[i] = s[i]
      /\ more[n + 1] = x
  BY AppendProperties, LenProperties
<1>2. \A y \in T : memberOf(y) \in Seq(T)
  BY DEF memberOf
<1>3. a \in Seq(Seq(T)) /\ Len(a) = n
  <2>1. \A i \in 1 .. n : memberOf(s[i]) \in Seq(T)
    BY <1>1, <1>2, ElementOfSeq
  <2>2. a = [i \in 1 .. n |-> memberOf(s[i])]
    BY <1>1
  <2> HIDE DEF a, n
  <2>3. QED BY <1>1, <2>1, <2>2
<1>4. b = Append(a, memberOf(x))
  <2> DEFINE c == Append(a, memberOf(x))
  <2>1. memberOf(x) \in Seq(T)
    BY <1>2
  <2>2. c = [i \in 1 .. n + 1 |-> c[i]] /\ (\A i \in 1 .. n : c[i] = a[i]) /\ c[n + 1] = memberOf(x)
    <3> HIDE DEF a, n
    <3>1. c \in Seq(Seq(T)) /\ Len(c) = n + 1
          /\ (\A i \in 1 .. n : c[i] = a[i]) /\ c[n + 1] = memberOf(x)
      BY <1>3, <2>1, AppendProperties
    <3> HIDE DEF c
    <3>2. QED BY <3>1
  <2>3. b = [i \in 1 .. n + 1 |-> b[i]]
    BY <1>1
  <2>4. \A i \in 1 .. n + 1 : b[i] = c[i]
    <3>1. \A i \in 1 .. n : b[i] = a[i]
      BY <1>1
    <3>2. b[n + 1] = memberOf(x)
      BY <1>1
    <3>3. \A i \in 1 .. n + 1 : i \in 1 .. n \/ i = n + 1
      BY <1>1
    <3> HIDE DEF a, b, c, n
    <3>4. QED BY <2>2, <3>1, <3>2, <3>3
  <2> HIDE DEF b, c
  <2>5. b = c
    BY <2>2, <2>3, <2>4
  <2>6. QED BY <2>5 DEF c
<1>5. FlattenSeq(Append(a, memberOf(x))) = FlattenSeq(a) \o memberOf(x)
  <2>1. memberOf(x) \in Seq(T)
    BY <1>2
  <2> HIDE DEF a
  <2>2. QED BY <1>3, <2>1, FlattenAppend
<1>6. QED BY <1>4, <1>5 DEF ListAllMember

\* The members name the variables under valid names as the document does.
MembersKeep(s, v) ==
    /\ Names(ListAllMember(s), v) <=> Names(s, v)
    /\ \A val : GivesLast(ListAllMember(s), v, val) <=> GivesLast(s, v, val)

LEMMA MembersOfAll ==
    ASSUME NEW T, NEW s \in Seq(T), NEW v, isValid(v)
    PROVE  ListAllMember(s) \in Seq(T) /\ MembersKeep(s, v)
<1> DEFINE Good(r) == ListAllMember(r) \in Seq(T) /\ MembersKeep(r, v)
           S == {n \in Nat : \A r \in Seq(T) : Len(r) = n => Good(r)}
<1>1. 0 \in S
  <2>1. ASSUME NEW r \in Seq(T), Len(r) = 0 PROVE Good(r)
    <3>1. r = <<>>
      BY <2>1, EmptySeq
    <3>2. [i \in DOMAIN <<>> |-> memberOf(<<>>[i])] = <<>>
      OBVIOUS
    <3>3. ListAllMember(<<>>) = <<>>
      BY <3>2, FlattenEmpty DEF ListAllMember
    <3>4. <<>> \in Seq(T)
      OBVIOUS
    <3>5. QED BY <3>1, <3>3, <3>4 DEF MembersKeep
  <2>2. QED BY <2>1
<1>2. ASSUME NEW n \in Nat, n \in S PROVE n + 1 \in S
  <2>1. ASSUME NEW r \in Seq(T), Len(r) = n + 1 PROVE Good(r)
    <3>1. r # <<>>
      BY <2>1, EmptySeq
    <3>2. PICK front \in Seq(T), x \in T : r = Append(front, x)
      BY <3>1, SequenceEmptyOrAppend
    <3>3. Len(front) = n
      BY <2>1, <3>2, AppendProperties, LenProperties
    <3>4. ListAllMember(front) \in Seq(T) /\ MembersKeep(front, v)
      BY <1>2, <3>3
    <3>5. ListAllMember(r) = ListAllMember(front) \o memberOf(x)
      BY <3>2, MemberAppend
    <3>6. CASE isValid(x.at)
      <4>1. ListAllMember(r) = Append(ListAllMember(front), x)
        BY <3>4, <3>5, <3>6, AppendIsConcat DEF memberOf
      <4>2. ListAllMember(r) \in Seq(T)
        BY <3>4, <4>1, AppendProperties
      <4>3. /\ Names(ListAllMember(r), v) <=> Fits(x, v) \/ Names(ListAllMember(front), v)
            /\ \A val : GivesLast(ListAllMember(r), v, val) <=>
                  IF Fits(x, v) THEN x.holds = val ELSE GivesLast(ListAllMember(front), v, val)
        BY <3>4, <4>1, AppendedNode
      <4>4. /\ Names(r, v) <=> Fits(x, v) \/ Names(front, v)
            /\ \A val : GivesLast(r, v, val) <=>
                  IF Fits(x, v) THEN x.holds = val ELSE GivesLast(front, v, val)
        BY <3>2, AppendedNode
      <4>5. QED BY <3>4, <4>2, <4>3, <4>4 DEF MembersKeep
    <3>7. CASE ~isValid(x.at)
      <4>1. ListAllMember(r) = ListAllMember(front)
        BY <3>4, <3>5, <3>7, ConcatEmptySeq DEF memberOf
      <4>2. ~Fits(x, v)
        BY <3>7 DEF Fits
      <4>3. /\ Names(r, v) <=> Names(front, v)
            /\ \A val : GivesLast(r, v, val) <=> GivesLast(front, v, val)
        BY <3>2, <4>2, AppendedNode
      <4>4. QED BY <3>4, <4>1, <4>3 DEF MembersKeep
    <3>8. QED BY <3>6, <3>7
  <2>2. QED BY <2>1
<1>3. Len(s) \in S
  <2> HIDE DEF S
  <2>1. QED BY <1>1, <1>2, SetInduction, LenProperties
<1>4. QED BY <1>3

LEMMA MembersType ==
    ASSUME NEW T, NEW s \in Seq(T)
    PROVE  ListAllMember(s) \in Seq(T)
<1>1. isValid(<<>>)
  BY DEF isValid
<1>2. QED BY <1>1, MembersOfAll

\* A document that names v gives it a value.
LEMMA NamedGives ==
    ASSUME NEW T, NEW s \in Seq(T), NEW v, Names(s, v)
    PROVE  \E val \in Values : GivesLast(s, v, val)
<1> DEFINE n == Len(s)
           C == {m \in Nat : m < n /\ Fits(s[n - m], v)}
<1>1. n \in Nat /\ DOMAIN s = 1 .. n
  BY LenProperties
<1> HIDE DEF n
<1>2. C # {}
  <2>1. PICK i \in 1 .. n : Fits(s[i], v)
    BY <1>1 DEF Names
  <2>2. n - i \in Nat /\ n - i < n /\ n - (n - i) = i
    BY <1>1
  <2>3. QED BY <2>1, <2>2
<1>3. PICK m \in C : \A k \in C : m <= k
  BY <1>2, LeastElement
<1>4. n - m \in 1 .. n /\ Fits(s[n - m], v)
  BY <1>1, <1>3
<1>5. ASSUME NEW j \in 1 .. n, Fits(s[j], v) PROVE j <= n - m
  <2>1. n - j \in Nat /\ n - j < n /\ n - (n - j) = j
    BY <1>1
  <2>2. n - j \in C
    BY <1>5, <2>1
  <2>3. m <= n - j /\ m \in Nat
    BY <1>3, <2>2
  <2>4. QED BY <1>1, <2>3
<1>6. GivesLast(s, v, s[n - m].holds) /\ s[n - m].holds \in Values
  BY <1>1, <1>4, <1>5 DEF GivesLast, Fits
<1>7. QED BY <1>6

-----------------------------------------------------------------------------
(* What is in force *)

AnyNode == UNION {Range(document) : document \in Documents}

\* The forms of a call of LoadFromConfDir.
Waiting == [at : {"next"}, force : BOOLEAN, files : SUBSET Files, known : SUBSET Vars,
            begun : Nat]
AtFile  == [at : {"next", "compare", "read"}, file : Files, time : Nat, force : BOOLEAN,
            files : SUBSET Files, known : SUBSET Vars, begun : Nat]
AtNodes == [at : {"next", "apply"}, nodes : Seq(AnyNode), force : BOOLEAN,
            files : SUBSET Files, known : SUBSET Vars, begun : Nat]

FilesOK ==
    /\ load \in [Threads -> {NotLoading} \cup Waiting \cup AtFile \cup AtNodes]
    /\ file \in [Files -> [mtime : Times, document : Documents \cup {Unparsable, Gone}]]
    /\ recorded \in [Files -> Nat]
    /\ edits \in Nat
    /\ registered \subseteq {v \in Vars : isValid(v)}
    /\ \A t \in Threads : load[t].at \in {"compare", "read"} => pc[t] = "idle"
    /\ \A t \in Threads : load[t].at = "apply" => load[t].nodes # <<>>
    /\ \A t \in Threads : Loading(t) => load[t].known \subseteq registered /\ load[t].begun <= edits

NodesOf(t) == IF At(t, "apply") THEN load[t].nodes ELSE <<>>

\* What a load that has still nodes to apply, or a call that sets v, brings about is val.
Agrees(t, v, val) ==
    /\ Names(NodesOf(t), v) => GivesLast(NodesOf(t), v, val)
    /\ t \in Setting(v) => Loading(t) /\ (call[t].val # val => Names(NodesOf(t), v))

Brings(t, v, val) == Names(NodesOf(t), v) \/ (t \in Setting(v) /\ call[t].val = val)

Settles(v, val) ==
    /\ \A t \in Threads : Agrees(t, v, val)
    /\ value[v] # val => \E t \in Threads : Brings(t, v, val)

\* v has the value that f holds, or loads will set it so.
Settled(v, f) ==
    \E val \in Values : GivesLast(nodesIn(file[f].document), v, val) /\ Settles(v, val)

Compares(t, f) == At(t, "compare") /\ load[t].file = f
Reads(t, f)    == At(t, "read") /\ load[t].file = f

WillRead(t, f) ==
    Reads(t, f) \/ (Loading(t) /\ load[t].force /\ (f \in load[t].files \/ Compares(t, f)))

ToBeRead(f) == recorded[f] # file[f].mtime \/ \E t \in Threads : WillRead(t, f)

\* A load that no edit has overlapped records each file as it is.
Progress(t) ==
    load[t].begun = edits =>
        \A f \in Files :
            /\ \/ file[f].document = Gone \/ recorded[f] = file[f].mtime
               \/ f \in load[t].files \/ Compares(t, f)
            /\ Compares(t, f) => file[f].document = Gone \/ load[t].time = file[f].mtime

Watched(v) ==
    /\ \A t, u \in Threads : Loading(t) /\ Loading(u) => t = u
    /\ \A t \in Setting(v) : Loading(t)
    /\ \A t \in Threads : Loading(t) => Progress(t)
    /\ v \in registered =>
          \A f \in Files \ unseen : Namers(v) = {f} => ToBeRead(f) \/ Settled(v, f)

Forced(v) == v \in registered /\ \E f \in Files : Namers(v) = {f} /\ Settled(v, f)

ForceInv ==
    /\ FilesOK
    /\ \A v \in Vars \ touched : Watched(v)
    /\ \A v \in inForce : Forced(v)

-----------------------------------------------------------------------------
(* The forms of a load *)

LEMMA LoadForm ==
    ASSUME FilesOK, NEW t \in Threads
    PROVE  /\ Loading(t) <=> load[t].at \in {"next", "compare", "read", "apply"}
           /\ Loading(t) => /\ load[t].force \in BOOLEAN /\ load[t].files \subseteq Files
                            /\ load[t].known \subseteq Vars /\ load[t].begun \in Nat
           /\ load[t].at \in {"compare", "read"} => load[t] \in AtFile
           /\ At(t, "apply") => load[t] \in AtNodes
           /\ NodesOf(t) \in Seq(AnyNode)
<1>1. load[t] \in {NotLoading} \cup Waiting \cup AtFile \cup AtNodes
  BY DEF FilesOK
<1>2. CASE load[t] = NotLoading
  BY <1>2 DEF NotLoading, Loading, At, NodesOf
<1>3. CASE load[t] \in Waiting
  BY <1>3 DEF NotLoading, Waiting, Loading, At, NodesOf
<1>4. CASE load[t] \in AtFile
  BY <1>4 DEF NotLoading, AtFile, Loading, At, NodesOf
<1>5. CASE load[t] \in AtNodes
  BY <1>5 DEF NotLoading, AtNodes, Loading, At, NodesOf
<1>6. QED BY <1>1, <1>2, <1>3, <1>4, <1>5

LEMMA NodesInType ==
    ASSUME FilesOK, NEW f \in Files
    PROVE  nodesIn(file[f].document) \in Seq(AnyNode)
<1>1. file[f].document \in Documents \cup {Unparsable, Gone}
  BY DEF FilesOK
<1>2. <<>> \in Seq(AnyNode)
  OBVIOUS
<1>3. ASSUME NEW document \in Documents PROVE document \in Seq(AnyNode)
  <2>1. document \in Seq(Range(document)) /\ Range(document) \subseteq AnyNode
    BY LoadAssumption DEF AnyNode
  <2>2. QED BY <2>1, SeqMonotonic
<1>4. QED BY <1>1, <1>2, <1>3 DEF nodesIn

LoadsOthersStay(t) == \A u \in Threads \ {t} : load'[u] = load[u]

\* What the steps of a load keep of its arguments.
GoesOnLoading(t) ==
    /\ LoadsOthersStay(t) /\ Loading(t) /\ Loading(t)'
    /\ load'[t].force = load[t].force /\ load'[t].known = load[t].known
    /\ load'[t].begun = load[t].begun

LoadKept(t) ==
    /\ load' \in [Threads -> {NotLoading} \cup Waiting \cup AtFile \cup AtNodes]
    /\ load'[t].at = "apply" => load'[t].nodes # <<>>
    /\ GoesOnLoading(t)

LEMMA LstatEffect ==
    ASSUME FilesOK, NEW t \in Threads, lstat(t)
    PROVE  \E f \in load[t].files :
              /\ LoadKept(t) /\ NodesOf(t) = <<>> /\ NodesOf(t)' = <<>>
              /\ load'[t].at = "compare" /\ load'[t].file = f
              /\ load'[t].files = load[t].files \ {f}
              /\ file[f].document = Gone \/ load'[t].time = file[f].mtime
<1>1. /\ Loading(t) /\ load[t].at = "next" /\ load[t].force \in BOOLEAN
      /\ load[t].files \subseteq Files /\ load[t].known \subseteq Vars /\ load[t].begun \in Nat
  BY LoadForm DEF lstat, At
<1>a. PICK f \in load[t].files : \E time \in TimesRead(f) :
        load' = [load EXCEPT ![t] =
            [at |-> "compare", file |-> f, time |-> time, force |-> load[t].force,
             files |-> load[t].files \ {f}, known |-> load[t].known, begun |-> load[t].begun]]
  BY DEF lstat
<1>2. PICK time \in TimesRead(f) :
        load' = [load EXCEPT ![t] =
            [at |-> "compare", file |-> f, time |-> time, force |-> load[t].force,
             files |-> load[t].files \ {f}, known |-> load[t].known, begun |-> load[t].begun]]
  BY <1>a
<1>3. time \in Nat /\ (file[f].document = Gone \/ time = file[f].mtime)
  <2>1. f \in Files /\ file[f].mtime \in Times /\ Times \subseteq Nat
    BY <1>1, LoadAssumption DEF FilesOK
  <2>2. CASE file[f].document = Gone
    BY <2>1, <2>2 DEF TimesRead
  <2>3. CASE file[f].document # Gone
    BY <2>1, <2>3 DEF TimesRead
  <2>4. QED BY <2>2, <2>3
<1> DEFINE l == [at |-> "compare", file |-> f, time |-> time, force |-> load[t].force,
                 files |-> load[t].files \ {f}, known |-> load[t].known, begun |-> load[t].begun]
<1>4. l \in AtFile
  BY <1>1, <1>3 DEF AtFile
<1>5. /\ l.at = "compare" /\ l.file = f /\ l.time = time /\ l.force = load[t].force
      /\ l.files = load[t].files \ {f} /\ l.known = load[t].known /\ l.begun = load[t].begun
      /\ l # NotLoading
  BY DEF NotLoading
<1> HIDE DEF l
<1>6. load'[t] = l /\ LoadsOthersStay(t)
      /\ load' \in [Threads -> {NotLoading} \cup Waiting \cup AtFile \cup AtNodes]
  BY <1>2, <1>4 DEF l, FilesOK, LoadsOthersStay
<1>7. LoadKept(t)
  BY <1>1, <1>5, <1>6 DEF LoadKept, GoesOnLoading, Loading
<1>8. QED BY <1>1, <1>3, <1>5, <1>6, <1>7 DEF NodesOf, At

LEMMA CompareEffect ==
    ASSUME FilesOK, NEW t \in Threads, compare(t)
    PROVE  /\ LoadKept(t) /\ NodesOf(t) = <<>> /\ NodesOf(t)' = <<>> /\ pc[t] = "idle"
           /\ load'[t].files = load[t].files /\ load[t].file \in Files /\ load[t].time \in Nat
           /\ \/ /\ ~load[t].force /\ load[t].time = recorded[load[t].file]
                 /\ load'[t].at = "next" /\ recorded' = recorded /\ unseen' = unseen
              \/ /\ load'[t].at = "read" /\ load'[t].file = load[t].file
                 /\ recorded' = [recorded EXCEPT ![load[t].file] = load[t].time]
                 /\ unseen' = unseen \ {load[t].file}
<1>1. /\ Loading(t) /\ load[t].at = "compare" /\ load[t] \in AtFile /\ pc[t] = "idle"
  BY LoadForm DEF compare, At, FilesOK
<1>2. ASSUME NEW place \in {"next", "read"}, load' = [load EXCEPT ![t].at = place]
      PROVE  /\ LoadKept(t) /\ NodesOf(t)' = <<>> /\ load'[t].files = load[t].files
             /\ load'[t].at = place /\ load'[t].file = load[t].file
  <2> DEFINE l == [load[t] EXCEPT !.at = place]
  <2>1. l \in AtFile
    BY <1>1 DEF AtFile
  <2>2. /\ l.at = place /\ l.file = load[t].file /\ l.force = load[t].force
        /\ l.files = load[t].files /\ l.known = load[t].known /\ l.begun = load[t].begun
    BY <1>1 DEF AtFile
  <2>3. l # NotLoading
    BY <2>2 DEF NotLoading
  <2>4. load' = [load EXCEPT ![t] = l]
    BY <1>2
  <2> HIDE DEF l
  <2>5. load'[t] = l /\ LoadsOthersStay(t)
        /\ load' \in [Threads -> {NotLoading} \cup Waiting \cup AtFile \cup AtNodes]
    BY <2>1, <2>4 DEF FilesOK, LoadsOthersStay
  <2>6. QED BY <1>1, <2>2, <2>3, <2>5 DEF LoadKept, GoesOnLoading, Loading, NodesOf, At
<1>3. NodesOf(t) = <<>> /\ load[t].file \in Files /\ load[t].time \in Nat /\ load[t].force \in BOOLEAN
  BY <1>1 DEF NodesOf, At, AtFile
<1>4. CASE ~load[t].force /\ isUnchanged(load[t].file, load[t].time)
  <2>1. load' = [load EXCEPT ![t].at = "next"] /\ recorded' = recorded /\ unseen' = unseen
    BY <1>4 DEF compare
  <2>2. QED BY <1>1, <1>2, <1>3, <1>4, <2>1 DEF isUnchanged
<1>5. CASE ~(~load[t].force /\ isUnchanged(load[t].file, load[t].time))
  <2>1. /\ load' = [load EXCEPT ![t].at = "read"]
        /\ recorded' = [recorded EXCEPT ![load[t].file] = load[t].time]
        /\ unseen' = unseen \ {load[t].file}
    BY <1>5 DEF compare
  <2>2. QED BY <1>1, <1>2, <1>3, <2>1
<1>6. QED BY <1>4, <1>5

LEMMA WithNodesEffect ==
    ASSUME FilesOK, NEW t \in Threads, Loading(t), NEW nodes \in Seq(AnyNode),
           load' = [load EXCEPT ![t] = withNodes(load[t], nodes)]
    PROVE  /\ LoadKept(t) /\ NodesOf(t)' = nodes /\ load'[t].files = load[t].files
           /\ load'[t].at \in {"next", "apply"}
<1> DEFINE l == withNodes(load[t], nodes)
<1>1. /\ load[t].force \in BOOLEAN
      /\ load[t].files \subseteq Files /\ load[t].known \subseteq Vars /\ load[t].begun \in Nat
  BY LoadForm
<1>2. /\ l.at = (IF nodes = <<>> THEN "next" ELSE "apply") /\ l.nodes = nodes
      /\ l.force = load[t].force
      /\ l.files = load[t].files /\ l.known = load[t].known /\ l.begun = load[t].begun
      /\ l \in AtNodes
  BY <1>1 DEF withNodes, AtNodes
<1>3. l # NotLoading
  BY <1>2 DEF NotLoading
<1> HIDE DEF l
<1>4. load'[t] = l /\ LoadsOthersStay(t)
      /\ load' \in [Threads -> {NotLoading} \cup Waiting \cup AtFile \cup AtNodes]
  BY <1>2 DEF l, FilesOK, LoadsOthersStay
<1>5. NodesOf(t)' = nodes
  BY <1>2, <1>4 DEF NodesOf, At
<1>6. QED BY <1>2, <1>3, <1>4, <1>5 DEF LoadKept, GoesOnLoading, Loading

LEMMA LoadFileEffect ==
    ASSUME FilesOK, NEW t \in Threads, LoadFile(t)
    PROVE  /\ LoadKept(t) /\ NodesOf(t) = <<>> /\ pc[t] = "idle"
           /\ NodesOf(t)' = ListAllMember(nodesIn(file[load[t].file].document))
           /\ load'[t].files = load[t].files /\ load[t].file \in Files
           /\ load'[t].at \in {"next", "apply"}
<1>1. /\ Loading(t) /\ load[t].at = "read" /\ load[t] \in AtFile /\ pc[t] = "idle"
  BY LoadForm DEF LoadFile, At, FilesOK
<1> DEFINE nodes == ListAllMember(nodesIn(file[load[t].file].document))
<1>2. load[t].file \in Files /\ NodesOf(t) = <<>>
  BY <1>1 DEF AtFile, NodesOf, At
<1>3. nodes \in Seq(AnyNode)
  BY <1>2, NodesInType, MembersType
<1>4. load' = [load EXCEPT ![t] = withNodes(load[t], nodes)]
  BY DEF LoadFile
<1> HIDE DEF nodes
<1>5. LoadKept(t) /\ NodesOf(t)' = nodes /\ load'[t].files = load[t].files
      /\ load'[t].at \in {"next", "apply"}
  BY <1>1, <1>3, <1>4, WithNodesEffect
<1>6. QED BY <1>1, <1>2, <1>5 DEF nodes

LEMMA ApplyEffect ==
    ASSUME FilesOK, NEW t \in Threads, LoadFromYaml(t)
    PROVE  /\ LoadKept(t) /\ load[t].nodes # <<>> /\ NodesOf(t) = load[t].nodes /\ NodesOf(t)' = Tail(load[t].nodes)
           /\ load[t].nodes \in Seq(AnyNode)
           /\ load'[t].files = load[t].files
           /\ load'[t].at \in {"next", "apply"}
<1>1. /\ Loading(t) /\ load[t].at = "apply" /\ load[t] \in AtNodes
  BY LoadForm DEF LoadFromYaml, At
<1>2. load[t].nodes \in Seq(AnyNode) /\ NodesOf(t) = load[t].nodes /\ load[t].nodes # <<>>
  BY <1>1 DEF AtNodes, NodesOf, At, FilesOK
<1>3. Tail(load[t].nodes) \in Seq(AnyNode)
  BY <1>2, HeadTailProperties
<1>4. load' = [load EXCEPT ![t] = withNodes(load[t], Tail(load[t].nodes))]
  BY DEF LoadFromYaml
<1>5. QED BY <1>1, <1>2, <1>3, <1>4, WithNodesEffect

-----------------------------------------------------------------------------
(* A step of one thread, as it concerns the value of v *)

NodesKept(t, v) ==
    /\ Names(NodesOf(t), v)' <=> Names(NodesOf(t), v)
    /\ \A val : GivesLast(NodesOf(t), v, val) => GivesLast(NodesOf(t), v, val)'

\* It does not set v.
Elsewhere(t, v) ==
    OthersStay(t) /\ t \notin Setting(v) /\ t \notin Setting(v)' /\ value'[v] = value[v]

LEMMA OthersAgree ==
    ASSUME NEW t \in Threads, NEW v, NEW val, OthersStay(t), LoadsOthersStay(t),
           NEW u \in Threads \ {t}
    PROVE  /\ Agrees(u, v, val)' <=> Agrees(u, v, val)
           /\ Brings(u, v, val)' <=> Brings(u, v, val)
<1>1. pc'[u] = pc[u] /\ call'[u] = call[u] /\ load'[u] = load[u]
  BY DEF OthersStay, LoadsOthersStay
<1>2. /\ NodesOf(u)' = NodesOf(u) /\ (Loading(u)' <=> Loading(u))
      /\ (u \in Setting(v)' <=> u \in Setting(v))
  BY <1>1 DEF NodesOf, At, Loading, Setting
<1>3. Agrees(u, v, val)' <=> Agrees(u, v, val)
  BY <1>1, <1>2 DEF Agrees
<1>4. Brings(u, v, val)' <=> Brings(u, v, val)
  BY <1>1, <1>2 DEF Brings
<1>5. QED BY <1>3, <1>4

LEMMA SettlesStep ==
    ASSUME NEW t \in Threads, NEW v, NEW val, OthersStay(t), LoadsOthersStay(t),
           Settles(v, val), Agrees(t, v, val)',
           value'[v] # val => Brings(t, v, val)' \/ (value[v] # val /\ ~Brings(t, v, val))
    PROVE  Settles(v, val)'
<1>1. \A u \in Threads : Agrees(u, v, val)'
  BY OthersAgree DEF Settles
<1>2. ASSUME value'[v] # val PROVE \E u \in Threads : Brings(u, v, val)'
  <2>1. CASE Brings(t, v, val)'
    BY <2>1
  <2>2. CASE value[v] # val /\ ~Brings(t, v, val)
    <3>1. PICK u \in Threads : Brings(u, v, val)
      BY <2>2 DEF Settles
    <3>2. u \in Threads \ {t}
      BY <2>2, <3>1
    <3>3. QED BY <3>1, <3>2, OthersAgree
  <2>3. QED BY <1>2, <2>1, <2>2
<1>3. QED BY <1>1, <1>2 DEF Settles

LEMMA SettlesElsewhere ==
    ASSUME NEW t \in Threads, NEW v, NEW val, LoadsOthersStay(t), Settles(v, val),
           Elsewhere(t, v), NodesKept(t, v)
    PROVE  Settles(v, val)'
<1>1. Agrees(t, v, val)'
  BY DEF Settles, Agrees, Elsewhere, NodesKept
<1>2. Brings(t, v, val)' <=> Brings(t, v, val)
  BY DEF Brings, Elsewhere, NodesKept
<1>3. QED BY <1>1, <1>2, SettlesStep DEF Elsewhere

\* It goes on with a call.
LEMMA NotifyEffect ==
    ASSUME TypeOK, NEW t \in Threads, notify(t)
    PROVE  /\ OthersStay(t) /\ pc[t] = "notify" /\ pc'[t] = "notify" /\ value' = value
           /\ call'[t].var = call[t].var /\ call'[t].val = call[t].val
<1>1. PICK entry \in call[t].todo : call' = [call EXCEPT ![t].todo = @ \ {entry}]
  BY DEF notify
<1>2. CallAt(t, "notify") /\ Locals(t, [call[t] EXCEPT !.todo = @ \ {entry}])
  BY <1>1, NotifyPlaces DEF notify
<1>3. call[t] \in SetCall
  BY DEF TypeOK, PlacesOK, InSet, notify
<1>4. QED BY <1>2, <1>3 DEF notify, CallAt, Locals, OthersStay, SetCall

LEMMA GoesOnSetting ==
    ASSUME ConfigInv, NEW v \in Vars, NEW t \in Threads, goesOn(t)
    PROVE  Setting(v)' \subseteq Setting(v)
<1>1. TypeOK
  BY DEF ConfigInv
<1>2. ASSUME NEW u \in Threads, u \in Setting(v)' PROVE u \in Setting(v)
  <2>1. CASE notify(t)
    BY <1>1, <1>2, <2>1, NotifyEffect DEF OthersStay, Setting
  <2>2. CASE unlockShared(t)
    BY <1>1, <1>2, <2>2, UnlockPlaces DEF CallAt, Setting, unlockShared
  <2>3. CASE write(t)
    BY <1>1, <1>2, <2>3, WritePlaces DEF CallAt, Locals, Setting
  <2>4. CASE storeId(t)
    BY <1>1, <1>2, <2>4, StorePlaces DEF CallAt, Setting
  <2>5. CASE insert(t)
    BY <1>1, <1>2, <2>5, InsertPlaces DEF CallAt, Setting
  <2>6. CASE addReturns(t)
    BY <1>1, <1>2, <2>6, ReturnPlaces DEF CallAt, Locals, Setting
  <2>7. QED BY <2>1, <2>2, <2>3, <2>4, <2>5, <2>6 DEF goesOn
<1>3. QED BY <1>2 DEF Setting

LEMMA SettlesGoesOn ==
    ASSUME ConfigInv, NEW v \in Vars, NEW val, Settles(v, val),
           NEW t \in Threads, goesOn(t), load' = load
    PROVE  Settles(v, val)'
<1>0. TypeOK
  BY DEF ConfigInv
<1>1. LoadsOthersStay(t) /\ NodesOf(t)' = NodesOf(t) /\ (Loading(t)' <=> Loading(t)) /\ NodesKept(t, v)
  BY DEF LoadsOthersStay, NodesOf, At, Loading, NodesKept
<1>2. CASE notify(t) \/ unlockShared(t)
  <2>1. /\ OthersStay(t) /\ call'[t].var = call[t].var /\ call'[t].val = call[t].val
        /\ pc[t] \in {"notify", "write"} /\ pc'[t] \in {"notify", "write"} /\ value' = value
    <3>1. CASE notify(t)
      BY <1>0, <3>1, NotifyEffect
    <3>2. CASE unlockShared(t)
      BY <1>0, <3>2, UnlockPlaces DEF CallAt, OthersStay, unlockShared
    <3>3. QED BY <1>2, <3>1, <3>2
  <2>2. t \in Setting(v)' <=> t \in Setting(v)
    BY <2>1 DEF Setting
  <2>3. Agrees(t, v, val)' /\ (Brings(t, v, val)' <=> Brings(t, v, val))
    BY <1>1, <2>1, <2>2 DEF Settles, Agrees, Brings
  <2>4. Settles(v, val)'
    BY <1>1, <2>1, <2>3, SettlesStep
  <2>5. QED BY <2>4
<1>3. CASE write(t)
  <2>1. CallAt(t, "idle") /\ Locals(t, NoCall)
    BY <1>0, <1>3, WritePlaces
  <2>2. /\ OthersStay(t) /\ pc[t] = "write" /\ pc'[t] = "idle"
        /\ value' = [value EXCEPT ![call[t].var] = call[t].val]
    BY <1>3, <2>1 DEF CallAt, Locals, OthersStay, write
  <2>3. call[t].var \in Vars /\ value \in [Vars -> Values] /\ t \notin Setting(v)'
    BY <1>0, <2>2 DEF TypeOK, PlacesOK, InSet, SetCall, Setting
  <2>5. CASE call[t].var # v
    <3>1. Elsewhere(t, v)
      BY <2>2, <2>3, <2>5 DEF Elsewhere, Setting
    <3>2. QED BY <1>1, <3>1, SettlesElsewhere
  <2>6. CASE call[t].var = v
    <3>1. t \in Setting(v) /\ value'[v] = call[t].val
      BY <2>2, <2>3, <2>6 DEF Setting
    <3>2. Agrees(t, v, val)' /\ (value'[v] # val => Brings(t, v, val)')
      BY <1>1, <2>3, <3>1 DEF Settles, Agrees, Brings
    <3>3. QED BY <1>1, <2>2, <3>2, SettlesStep
  <2>7. QED BY <2>5, <2>6
<1>4. CASE storeId(t) \/ insert(t) \/ addReturns(t)
  <2>1. Elsewhere(t, v)
    <3>1. CASE storeId(t)
      BY <1>0, <3>1, StorePlaces DEF CallAt, OthersStay, Elsewhere, Setting, storeId
    <3>2. CASE insert(t)
      BY <1>0, <3>2, InsertPlaces DEF CallAt, OthersStay, Elsewhere, Setting, insert
    <3>3. CASE addReturns(t)
      BY <1>0, <3>3, ReturnPlaces DEF CallAt, Locals, OthersStay, Elsewhere, Setting, addReturns
    <3>4. QED BY <1>4, <3>1, <3>2, <3>3
  <2>2. QED BY <1>1, <2>1, SettlesElsewhere
<1>5. QED BY <1>2, <1>3, <1>4 DEF goesOn

\* It calls setValue, or the load does.
LEMMA LookEffect ==
    ASSUME ConfigInv, NEW t \in Threads, NEW w \in Vars, NEW val \in Values, look(t, w, val)
    PROVE  /\ OthersStay(t) /\ value' = value /\ pc[t] = "idle"
           /\ IF val = value[w] THEN pc'[t] = "idle"
              ELSE pc'[t] = "notify" /\ call'[t].var = w /\ call'[t].val = val
<1>0. TypeOK
  BY DEF ConfigInv
<1>1. value' = value /\ pc[t] = "idle"
  BY DEF look, begins
<1>2. CASE val = value[w]
  BY <1>1, <1>2 DEF look, OthersStay
<1>3. CASE val # value[w]
  <2>1. CallAt(t, "notify") /\ Locals(t, SetLocals(w, val))
    BY <1>0, <1>3, LookPlaces
  <2>2. QED BY <1>1, <1>3, <2>1 DEF CallAt, Locals, OthersStay, SetLocals
<1>4. QED BY <1>2, <1>3

LEMMA SettlesApply ==
    ASSUME ConfigInv, FilesOK, NEW v \in registered, NEW val, Settles(v, val),
           NEW t \in Threads, LoadFromYaml(t)
    PROVE  Settles(v, val)'
<1> DEFINE nodes == load[t].nodes  node == Head(nodes)
<1>1. /\ LoadsOthersStay(t) /\ Loading(t)' /\ nodes # <<>> /\ nodes \in Seq(AnyNode)
      /\ NodesOf(t) = nodes /\ NodesOf(t)' = Tail(nodes)
  BY ApplyEffect DEF LoadKept, GoesOnLoading
<1>2. /\ Names(nodes, v) <=> Fits(node, v) \/ Names(Tail(nodes), v)
      /\ GivesLast(nodes, v, val) =>
            IF Names(Tail(nodes), v) THEN GivesLast(Tail(nodes), v, val) ELSE node.holds = val
  <2> HIDE DEF nodes
  <2>1. QED BY <1>1, FirstNode
<1>3. pc[t] = "idle" /\ t \notin Setting(v)
  BY DEF LoadFromYaml, Setting
<1>4. CASE node.at \in registered /\ node.holds \in Values
  <2>1. look(t, node.at, node.holds)
    BY <1>4 DEF LoadFromYaml, setValue
  <2>2. node.at \in Vars
    BY <1>4 DEF FilesOK
  <2>3. /\ OthersStay(t) /\ value' = value
        /\ IF node.holds = value[node.at] THEN pc'[t] = "idle"
           ELSE pc'[t] = "notify" /\ call'[t].var = node.at /\ call'[t].val = node.holds
    <3> HIDE DEF node
    <3>1. QED BY <1>4, <2>1, <2>2, LookEffect
  <2> HIDE DEF node, nodes
  <2>4. CASE node.at = v
    <3>1. Fits(node, v)
      BY <1>4, <2>4 DEF Fits
    <3>2. GivesLast(nodes, v, val)
      BY <1>1, <1>2, <3>1 DEF Settles, Agrees
    <3>3. t \in Setting(v)' => node.holds # value[v] /\ call'[t].val = node.holds
      BY <2>3, <2>4 DEF Setting
    <3>4. Agrees(t, v, val)'
      BY <1>1, <1>2, <3>2, <3>3 DEF Agrees
    <3>5. node.holds # value[v] => t \in Setting(v)' /\ call'[t].val = node.holds
      BY <2>3, <2>4 DEF Setting
    <3>6. value'[v] # val => Brings(t, v, val)'
      BY <1>1, <1>2, <2>3, <3>2, <3>5 DEF Brings
    <3>7. QED BY <1>1, <2>3, <3>4, <3>6, SettlesStep
  <2>5. CASE node.at # v
    <3>1. ~Fits(node, v)
      BY <2>5 DEF Fits
    <3>2. Names(nodes, v) <=> Names(Tail(nodes), v)
      BY <1>2, <3>1
    <3>3. t \notin Setting(v)'
      BY <2>3, <2>5 DEF Setting
    <3>4. Agrees(t, v, val)' /\ (Brings(t, v, val)' <=> Brings(t, v, val))
      BY <1>1, <1>2, <1>3, <3>2, <3>3 DEF Settles, Agrees, Brings
    <3>5. QED BY <1>1, <2>3, <3>4, SettlesStep
  <2>6. QED BY <2>4, <2>5
<1>5. CASE ~(node.at \in registered /\ node.holds \in Values)
  <2>1. UNCHANGED vars
    BY <1>5 DEF LoadFromYaml
  <2>2. OthersStay(t) /\ value' = value /\ t \notin Setting(v)'
    BY <1>3, <2>1 DEF vars, OthersStay, Setting
  <2>3. ~Fits(node, v)
    BY <1>5 DEF Fits
  <2> HIDE DEF node, nodes
  <2>4. Agrees(t, v, val)' /\ (Brings(t, v, val)' <=> Brings(t, v, val))
    BY <1>1, <1>2, <1>3, <2>2, <2>3 DEF Settles, Agrees, Brings
  <2>5. QED BY <1>1, <2>2, <2>4, SettlesStep
<1>6. QED BY <1>4, <1>5

-----------------------------------------------------------------------------
(* A file is read *)

LEMMA NamersName ==
    ASSUME NEW v \in Vars, NEW f \in Files, Namers(v) = {f}
    PROVE  /\ Names(nodesIn(file[f].document), v)
           /\ \A g \in Files : Names(nodesIn(file[g].document), v) => g = f
BY DEF Namers, NamedIn

LEMMA ReadGives ==
    ASSUME FilesOK, NEW t \in Threads, LoadFile(t), NEW v \in registered
    PROVE  /\ Names(NodesOf(t), v)' <=> Names(nodesIn(file[load[t].file].document), v)
           /\ \A val : GivesLast(NodesOf(t), v, val)' <=>
                  GivesLast(nodesIn(file[load[t].file].document), v, val)
<1> DEFINE nodes == nodesIn(file[load[t].file].document)
<1>1. NodesOf(t)' = ListAllMember(nodes) /\ nodes \in Seq(AnyNode)
  BY LoadFileEffect, NodesInType
<1>2. isValid(v)
  BY DEF FilesOK
<1> HIDE DEF nodes
<1>3. MembersKeep(nodes, v)
  BY <1>1, <1>2, MembersOfAll
<1>4. QED BY <1>1, <1>3 DEF MembersKeep, nodes

LEMMA SettlesRead ==
    ASSUME FilesOK, NEW t \in Threads, LoadFile(t), NEW v \in registered, NEW f \in Files,
           Namers(v) = {f}, NEW val, GivesLast(nodesIn(file[f].document), v, val),
           Settles(v, val)
    PROVE  Settles(v, val)'
<1>1. /\ LoadsOthersStay(t) /\ NodesOf(t) = <<>> /\ pc[t] = "idle" /\ load[t].file \in Files
  BY LoadFileEffect DEF LoadKept, GoesOnLoading
<1>2. OthersStay(t) /\ value' = value /\ t \notin Setting(v) /\ t \notin Setting(v)'
  BY <1>1 DEF LoadFile, vars, OthersStay, Setting
<1>3. v \in Vars
  BY DEF FilesOK
<1>4. Names(NodesOf(t), v)' => GivesLast(NodesOf(t), v, val)'
  BY <1>1, <1>3, NamersName, ReadGives
<1>5. Agrees(t, v, val)'
  BY <1>2, <1>4 DEF Agrees
<1>6. ~Brings(t, v, val)
  <2>1. ~Names(<<>>, v)
    BY DEF Names
  <2>2. QED BY <1>1, <1>2, <2>1 DEF Brings
<1>7. QED BY <1>1, <1>2, <1>5, <1>6, SettlesStep

\* The only load reads the file that names v, while no caller sets v.
LEMMA SettledRead ==
    ASSUME FilesOK, NEW t \in Threads, LoadFile(t), NEW v \in registered,
           NEW f \in Files, load[t].file = f, Namers(v) = {f}, Watched(v)
    PROVE  Settled(v, f)'
<1>1. /\ LoadsOthersStay(t) /\ NodesOf(t) = <<>> /\ pc[t] = "idle" /\ f \in Files
      /\ Loading(t)
  BY LoadFileEffect DEF LoadKept, GoesOnLoading
<1>2. vars' = vars /\ file' = file /\ v \in Vars
  BY DEF LoadFile, FilesOK
<1>3. Names(nodesIn(file[f].document), v) /\ nodesIn(file[f].document) \in Seq(AnyNode)
  BY <1>1, <1>2, NamersName, NodesInType
<1>4. PICK val \in Values : GivesLast(nodesIn(file[f].document), v, val)
  BY <1>3, NamedGives
<1>5. /\ GivesLast(NodesOf(t), v, val)' /\ Names(NodesOf(t), v)'
  BY <1>3, <1>4, ReadGives
<1>6. \A u \in Threads \ {t} : ~Loading(u) /\ load'[u] = load[u]
  BY <1>1 DEF Watched, LoadsOthersStay
<1>7. \A u \in Threads : u \notin Setting(v)'
  <2>1. \A u \in Threads : u \notin Setting(v)
    BY <1>1, <1>6 DEF Watched, Setting
  <2>2. QED BY <1>2, <2>1 DEF vars, Setting
<1>8. \A u \in Threads \ {t} : NodesOf(u)' = <<>>
  BY <1>6 DEF Loading, NotLoading, NodesOf, At
<1>9. ~Names(<<>>, v)
  BY DEF Names
<1>10. Settles(v, val)'
  <2>1. \A u \in Threads : Agrees(u, v, val)'
    <3>1. Agrees(t, v, val)'
      BY <1>5, <1>7 DEF Agrees
    <3>2. \A u \in Threads \ {t} : Agrees(u, v, val)'
      BY <1>7, <1>8, <1>9 DEF Agrees
    <3>3. QED BY <3>1, <3>2
  <2>2. Brings(t, v, val)'
    BY <1>5 DEF Brings
  <2>3. QED BY <2>1, <2>2 DEF Settles
<1>11. QED BY <1>2, <1>4, <1>10 DEF Settled

-----------------------------------------------------------------------------
(* Variables that are watched stay so *)

SettlesKept(v) == \A val : Settles(v, val) => Settles(v, val)'

LEMMA SettledKept ==
    ASSUME NEW v, NEW f, Settled(v, f), file'[f].document = file[f].document, SettlesKept(v)
    PROVE  Settled(v, f)'
BY DEF Settled, SettlesKept

LEMMA WatchedKept ==
    ASSUME NEW v \in Vars, Watched(v), UNCHANGED <<load, file, recorded, edits, unseen>>,
           Setting(v)' \subseteq Setting(v), v \in registered' => v \in registered,
           SettlesKept(v)
    PROVE  Watched(v)'
<1>1. \A t \in Threads : Loading(t)' <=> Loading(t)
  BY DEF Loading
<1>2. \A t \in Threads : Progress(t)' <=> Progress(t)
  BY DEF Progress, Compares, At
<1>3. \A f \in Files : ToBeRead(f) => ToBeRead(f)'
  BY <1>1 DEF ToBeRead, WillRead, Reads, Compares, At
<1>4. \A f \in Files : Settled(v, f) => Settled(v, f)'
  BY SettledKept
<1>5. Namers(v)' = Namers(v)
  BY DEF Namers
<1>6. \A f \in Files \ unseen' : v \in registered' /\ Namers(v)' = {f} => ToBeRead(f)' \/ Settled(v, f)'
  BY <1>3, <1>4, <1>5 DEF Watched
<1>7. /\ \A t, u \in Threads : Loading(t)' /\ Loading(u)' => t = u
      /\ \A t \in Setting(v)' : Loading(t)'
      /\ \A t \in Threads : Loading(t)' => Progress(t)'
  <2>1. Setting(v) \subseteq Threads
    BY DEF Setting
  <2>2. QED BY <1>1, <1>2, <2>1 DEF Watched
<1>8. QED BY <1>6, <1>7 DEF Watched

LEMMA ForcedKept ==
    ASSUME NEW v \in Vars, Forced(v), file' = file, registered \subseteq registered',
           SettlesKept(v)
    PROVE  Forced(v)'
<1>1. Namers(v)' = Namers(v)
  BY DEF Namers
<1>2. \A f \in Files : Settled(v, f) => Settled(v, f)'
  BY SettledKept
<1>3. QED BY <1>1, <1>2 DEF Forced

\* What a step of a load has to keep.
LEMMA WatchedLoading ==
    ASSUME NEW v \in Vars, Watched(v), NEW t \in Threads, GoesOnLoading(t),
           UNCHANGED <<file, edits, registered>>,
           Setting(v)' \subseteq Setting(v) \cup {t}, Progress(t) => Progress(t)',
           \A f \in Files \ unseen' : v \in registered /\ Namers(v) = {f} =>
               ToBeRead(f)' \/ Settled(v, f)'
    PROVE  Watched(v)'
<1>1. \A u \in Threads : (Loading(u) <=> u = t) /\ (Loading(u)' <=> u = t)
  BY DEF Watched, GoesOnLoading, LoadsOthersStay, Loading
<1>2. \A u \in Threads : Loading(u)' => Progress(u)'
  BY <1>1 DEF Watched
<1>3. Setting(v) \subseteq Threads
  BY DEF Setting
<1>4. \A u \in Setting(v)' : Loading(u)'
  BY <1>1, <1>3 DEF Watched
<1>5. Namers(v)' = Namers(v)
  BY DEF Namers
<1>6. \A f \in Files \ unseen' : v \in registered' /\ Namers(v)' = {f} => ToBeRead(f)' \/ Settled(v, f)'
  BY <1>5
<1>7. \A x, y \in Threads : Loading(x)' /\ Loading(y)' => x = y
  BY <1>1
<1>8. QED BY <1>2, <1>4, <1>6, <1>7 DEF Watched

\* Files to be read by others, or for another reason.
LEMMA ToBeReadKept ==
    ASSUME NEW t \in Threads, LoadsOthersStay(t), NEW f \in Files, ToBeRead(f),
           recorded'[f] = recorded[f], file' = file,
           WillRead(t, f) => WillRead(t, f)'
    PROVE  ToBeRead(f)'
<1>1. \A u \in Threads \ {t} : WillRead(u, f) => WillRead(u, f)'
  BY DEF LoadsOthersStay, WillRead, Reads, Compares, At, Loading
<1>2. QED BY <1>1 DEF ToBeRead

\* A step that neither sets v nor reads a file.
LEMMA SettlesKeptElsewhere ==
    ASSUME NEW v, NEW t \in Threads, LoadsOthersStay(t), pc[t] = "idle",
           UNCHANGED vars, NodesOf(t)' = NodesOf(t)
    PROVE  SettlesKept(v) /\ Setting(v)' = Setting(v)
<1>1. Elsewhere(t, v) /\ NodesKept(t, v)
  BY DEF vars, Elsewhere, OthersStay, NodesKept, Setting
<1>2. SettlesKept(v)
  BY <1>1, SettlesElsewhere DEF SettlesKept
<1>3. QED BY <1>2 DEF vars, Setting

LEMMA LstatStep ==
    ASSUME FilesOK, NEW t \in Threads, lstat(t), NEW v \in Vars
    PROVE  SettlesKept(v) /\ (Watched(v) => Watched(v)')
<1>1. PICK g \in load[t].files :
         /\ GoesOnLoading(t) /\ NodesOf(t) = <<>> /\ NodesOf(t)' = <<>>
         /\ load'[t].at = "compare" /\ load'[t].file = g
         /\ load'[t].files = load[t].files \ {g}
         /\ file[g].document = Gone \/ load'[t].time = file[g].mtime
  BY LstatEffect DEF LoadKept
<1>2. /\ load[t].at = "next" /\ pc[t] = "idle" /\ LoadsOthersStay(t)
      /\ UNCHANGED <<vars, file, edits, registered, recorded, unseen>>
  BY <1>1 DEF lstat, At, GoesOnLoading
<1>3. SettlesKept(v) /\ Setting(v)' = Setting(v)
  BY <1>1, <1>2, SettlesKeptElsewhere
<1>4. Progress(t) => Progress(t)'
  BY <1>1, <1>2 DEF Progress, Compares, At, GoesOnLoading
<1>5. ASSUME NEW f \in Files, ToBeRead(f) PROVE ToBeRead(f)'
  <2>1. WillRead(t, f) => WillRead(t, f)'
    BY <1>1, <1>2 DEF WillRead, Reads, Compares, At, GoesOnLoading
  <2>2. QED BY <1>2, <1>5, <2>1, ToBeReadKept
<1>6. \A f \in Files : Settled(v, f) => Settled(v, f)'
  BY <1>2, <1>3, SettledKept
<1>7. ASSUME Watched(v) PROVE Watched(v)'
  <2>1. \A f \in Files \ unseen' : v \in registered /\ Namers(v) = {f} => ToBeRead(f)' \/ Settled(v, f)'
    BY <1>2, <1>5, <1>6, <1>7 DEF Watched
  <2>2. QED BY <1>1, <1>2, <1>3, <1>4, <1>7, <2>1, WatchedLoading
<1>8. QED BY <1>3, <1>7

LEMMA CompareStep ==
    ASSUME FilesOK, NEW t \in Threads, compare(t), NEW v \in Vars
    PROVE  SettlesKept(v) /\ (Watched(v) => Watched(v)')
<1> DEFINE g == load[t].file  time == load[t].time
<1>1. /\ GoesOnLoading(t) /\ NodesOf(t) = <<>> /\ NodesOf(t)' = <<>> /\ pc[t] = "idle"
      /\ load'[t].files = load[t].files /\ g \in Files
  BY CompareEffect DEF LoadKept
<1>2. /\ load[t].at = "compare" /\ LoadsOthersStay(t)
      /\ UNCHANGED <<vars, file, edits, registered>> /\ recorded \in [Files -> Nat]
  BY <1>1 DEF compare, At, GoesOnLoading, FilesOK
<1>3. SettlesKept(v) /\ Setting(v)' = Setting(v)
  BY <1>1, <1>2, SettlesKeptElsewhere
<1>4. \A f \in Files : Settled(v, f) => Settled(v, f)'
  BY <1>2, <1>3, SettledKept
<1>5. CASE /\ ~load[t].force /\ time = recorded[g]
           /\ load'[t].at = "next" /\ recorded' = recorded /\ unseen' = unseen
  <2>1. Progress(t) => Progress(t)'
    BY <1>1, <1>2, <1>5 DEF Progress, Compares, At, GoesOnLoading
  <2>2. ASSUME NEW f \in Files, ToBeRead(f) PROVE ToBeRead(f)'
    <3>1. ~WillRead(t, f)
      BY <1>2, <1>5 DEF WillRead, Reads, At
    <3>2. QED BY <1>2, <1>5, <2>2, <3>1, ToBeReadKept
  <2>3. ASSUME Watched(v) PROVE Watched(v)'
    <3>1. \A f \in Files \ unseen' : v \in registered /\ Namers(v) = {f} => ToBeRead(f)' \/ Settled(v, f)'
      BY <1>4, <1>5, <2>2, <2>3 DEF Watched
    <3>2. QED BY <1>1, <1>2, <1>3, <2>1, <2>3, <3>1, WatchedLoading
  <2>4. QED BY <1>3, <2>3
<1>6. CASE /\ load'[t].at = "read" /\ load'[t].file = g
           /\ recorded' = [recorded EXCEPT ![g] = time]
           /\ unseen' = unseen \ {g}
  <2>1. recorded'[g] = time /\ \A f \in Files \ {g} : recorded'[f] = recorded[f]
    BY <1>1, <1>2, <1>6
  <2>2. Progress(t) => Progress(t)'
    BY <1>1, <1>2, <1>6, <2>1 DEF Progress, Compares, At, GoesOnLoading
  <2>3. ToBeRead(g)'
    BY <1>6 DEF ToBeRead, WillRead, Reads, At
  <2>4. ASSUME NEW f \in Files \ {g}, ToBeRead(f) PROVE ToBeRead(f)'
    <3>1. WillRead(t, f) => WillRead(t, f)'
      BY <1>1, <1>2 DEF WillRead, Reads, Compares, At, GoesOnLoading
    <3>2. QED BY <1>2, <2>1, <2>4, <3>1, ToBeReadKept
  <2>5. ASSUME Watched(v) PROVE Watched(v)'
    <3>1. \A f \in Files \ unseen' : v \in registered /\ Namers(v) = {f} => ToBeRead(f)' \/ Settled(v, f)'
      BY <1>4, <1>6, <2>3, <2>4, <2>5 DEF Watched
    <3>2. QED BY <1>1, <1>2, <1>3, <2>2, <2>5, <3>1, WatchedLoading
  <2>6. QED BY <1>3, <2>5
<1>7. QED BY <1>5, <1>6, CompareEffect

LEMMA ReadStep ==
    ASSUME FilesOK, NEW t \in Threads, LoadFile(t), NEW v \in Vars
    PROVE  (Watched(v) => Watched(v)') /\ (Forced(v) => Forced(v)')
<1> DEFINE g == load[t].file
<1>1. /\ GoesOnLoading(t) /\ pc[t] = "idle" /\ g \in Files
      /\ load'[t].files = load[t].files /\ load'[t].at \in {"next", "apply"}
  BY LoadFileEffect DEF LoadKept
<1>2. /\ load[t].at = "read" /\ LoadsOthersStay(t) /\ Setting(v)' = Setting(v)
      /\ UNCHANGED <<vars, file, edits, registered, recorded, unseen>>
  BY <1>1 DEF LoadFile, At, GoesOnLoading, vars, Setting
<1>3. Namers(v)' = Namers(v)
  BY <1>2 DEF Namers
<1>4. ASSUME v \in registered, NEW f \in Files, Namers(v) = {f}, Settled(v, f)
      PROVE  Settled(v, f)'
  BY <1>2, <1>4, SettlesRead DEF Settled
<1>5. Progress(t) => Progress(t)'
  BY <1>1, <1>2 DEF Progress, Compares, At, GoesOnLoading
<1>6. ASSUME v \in registered, NEW f \in Files, Namers(v) = {f}, Watched(v), ToBeRead(f)
      PROVE  ToBeRead(f)' \/ Settled(v, f)'
  <2>1. CASE f = g
    BY <1>6, <2>1, SettledRead
  <2>2. CASE f # g
    <3>1. WillRead(t, f) => WillRead(t, f)'
      BY <1>1, <1>2, <2>2 DEF WillRead, Reads, Compares, At, GoesOnLoading
    <3>2. QED BY <1>2, <1>6, <3>1, ToBeReadKept
  <2>3. QED BY <2>1, <2>2
<1>7. ASSUME Watched(v) PROVE Watched(v)'
  <2>1. \A f \in Files \ unseen' : v \in registered /\ Namers(v) = {f} => ToBeRead(f)' \/ Settled(v, f)'
    BY <1>2, <1>4, <1>6, <1>7 DEF Watched
  <2>2. QED BY <1>1, <1>2, <1>5, <1>7, <2>1, WatchedLoading
<1>8. ASSUME Forced(v) PROVE Forced(v)'
  BY <1>2, <1>3, <1>4, <1>8 DEF Forced
<1>9. QED BY <1>7, <1>8

LEMMA ApplyStep ==
    ASSUME ConfigInv, FilesOK, NEW t \in Threads, LoadFromYaml(t), NEW v \in Vars
    PROVE  (Watched(v) => Watched(v)') /\ (Forced(v) => Forced(v)')
<1>1. /\ GoesOnLoading(t)
      /\ load'[t].files = load[t].files /\ load'[t].at \in {"next", "apply"}
  BY ApplyEffect DEF LoadKept
<1>2. /\ load[t].at = "apply" /\ LoadsOthersStay(t)
      /\ UNCHANGED <<file, edits, registered, recorded, unseen>>
  BY <1>1 DEF LoadFromYaml, At, GoesOnLoading
<1>3. Namers(v)' = Namers(v)
  BY <1>2 DEF Namers
<1>4. ASSUME v \in registered, NEW f \in Files, Settled(v, f) PROVE Settled(v, f)'
  BY <1>2, <1>4, SettlesApply DEF Settled
<1>5. Progress(t) => Progress(t)'
  BY <1>1, <1>2 DEF Progress, Compares, At, GoesOnLoading
<1>6. ASSUME NEW f \in Files, ToBeRead(f) PROVE ToBeRead(f)'
  <2>1. WillRead(t, f) => WillRead(t, f)'
    BY <1>1, <1>2 DEF WillRead, Reads, Compares, At, GoesOnLoading
  <2>2. QED BY <1>2, <1>6, <2>1, ToBeReadKept
<1>7. Setting(v)' \subseteq Setting(v) \cup {t}
  <2> DEFINE node == Head(load[t].nodes)
  <2>1. OthersStay(t)
    <3>1. CASE node.at \in registered /\ node.holds \in Values
      <4>1. look(t, node.at, node.holds) /\ node.at \in Vars
        BY <3>1 DEF LoadFromYaml, setValue, FilesOK
      <4> HIDE DEF node
      <4>2. QED BY <3>1, <4>1, LookEffect
    <3>2. CASE ~(node.at \in registered /\ node.holds \in Values)
      BY <3>2 DEF LoadFromYaml, vars, OthersStay
    <3>3. QED BY <3>1, <3>2
  <2>2. QED BY <2>1 DEF OthersStay, Setting
<1>8. ASSUME Watched(v) PROVE Watched(v)'
  <2>1. \A f \in Files \ unseen' : v \in registered /\ Namers(v) = {f} => ToBeRead(f)' \/ Settled(v, f)'
    BY <1>2, <1>4, <1>6, <1>8 DEF Watched
  <2>2. QED BY <1>1, <1>2, <1>5, <1>7, <1>8, <2>1, WatchedLoading
<1>9. ASSUME Forced(v) PROVE Forced(v)'
  BY <1>2, <1>3, <1>4, <1>9 DEF Forced
<1>10. QED BY <1>8, <1>9

-----------------------------------------------------------------------------
(* Loads begin and return *)

LEMMA ReturnsEffect ==
    ASSUME FilesOK, NEW t \in Threads, loadReturns(t)
    PROVE  /\ Loading(t) /\ load[t].at = "next" /\ load[t].files = {} /\ pc[t] = "idle"
           /\ load' \in [Threads -> {NotLoading} \cup Waiting \cup AtFile \cup AtNodes]
           /\ load'[t] = NotLoading /\ LoadsOthersStay(t) /\ ~Loading(t)'
           /\ NodesOf(t) = <<>> /\ NodesOf(t)' = <<>>
           /\ UNCHANGED <<vars, file, edits, registered, recorded, unseen, touched>>
<1>1. load'[t] = NotLoading /\ LoadsOthersStay(t)
      /\ load' \in [Threads -> {NotLoading} \cup Waiting \cup AtFile \cup AtNodes]
  BY DEF loadReturns, FilesOK, LoadsOthersStay
<1>2. Loading(t) /\ load[t].at = "next"
  BY LoadForm DEF loadReturns, At
<1>3. NodesOf(t) = <<>> /\ NodesOf(t)' = <<>> /\ ~Loading(t)'
  BY <1>1, <1>2 DEF NodesOf, At, NotLoading, Loading
<1>4. QED BY <1>1, <1>2, <1>3 DEF loadReturns

LEMMA LoadReturnsStep ==
    ASSUME FilesOK, NEW t \in Threads, loadReturns(t), NEW v \in Vars
    PROVE  SettlesKept(v) /\ (Watched(v) => Watched(v)')
<1>1. SettlesKept(v) /\ Setting(v)' = Setting(v)
  BY ReturnsEffect, SettlesKeptElsewhere
<1>2. \A u \in Threads \ {t} : /\ load'[u] = load[u] /\ (Loading(u)' <=> Loading(u))
                               /\ Progress(u)' <=> Progress(u)
  BY ReturnsEffect DEF LoadsOthersStay, Loading, Progress, Compares, At
<1>3. ASSUME NEW f \in Files, ToBeRead(f) PROVE ToBeRead(f)'
  <2>1. ~WillRead(t, f)
    BY ReturnsEffect DEF WillRead, Reads, Compares, At
  <2>2. QED BY <1>3, <2>1, ReturnsEffect, ToBeReadKept
<1>4. \A f \in Files : Settled(v, f) => Settled(v, f)'
  BY <1>1, ReturnsEffect, SettledKept
<1>5. Namers(v)' = Namers(v)
  BY ReturnsEffect DEF Namers
<1>6. t \notin Setting(v)' /\ Setting(v) \subseteq Threads
  BY <1>1, ReturnsEffect DEF Setting
<1>7. ASSUME Watched(v) PROVE Watched(v)'
  <2>1. \A f \in Files \ unseen' : v \in registered' /\ Namers(v)' = {f} => ToBeRead(f)' \/ Settled(v, f)'
    BY <1>3, <1>4, <1>5, <1>7, ReturnsEffect DEF Watched
  <2>2. \A u \in Threads : Loading(u)' => u # t
    BY ReturnsEffect
  <2>3. \A u \in Setting(v)' : Loading(u)'
    BY <1>1, <1>2, <1>6, <1>7 DEF Watched
  <2>4. \A x, y \in Threads : Loading(x)' /\ Loading(y)' => x = y
    BY <1>2, <1>7, <2>2 DEF Watched
  <2>5. \A u \in Threads : Loading(u)' => Progress(u)'
    BY <1>2, <1>7, <2>2 DEF Watched
  <2>6. QED BY <2>1, <2>3, <2>4, <2>5 DEF Watched
<1>8. QED BY <1>1, <1>7

\* What the return of a load puts in force has its value.
LEMMA ReturnsForce ==
    ASSUME FilesOK, NEW t \in Threads, loadReturns(t), NEW v \in inForce' \ inForce,
           v \notin touched => Watched(v)
    PROVE  Forced(v)'
<1>1. load[t].begun = edits /\ v \in load[t].known \ touched
      /\ \E f \in Files \ unseen : Namers(v) = {f}
  BY DEF loadReturns
<1>2. Watched(v) /\ v \in registered /\ v \in Vars
  BY <1>1, ReturnsEffect DEF FilesOK
<1>3. PICK f \in Files \ unseen : Namers(v) = {f}
  BY <1>1
<1>4. file[f].document # Gone
  <2>1. Names(nodesIn(file[f].document), v)
    BY <1>2, <1>3, NamersName
  <2>2. QED BY <2>1 DEF nodesIn, Names
<1>5. recorded[f] = file[f].mtime
  <2>1. Progress(t)
    BY <1>2, ReturnsEffect DEF Watched
  <2>2. QED BY <1>1, <1>3, <1>4, <2>1, ReturnsEffect DEF Progress, Compares, At
<1>6. \A u \in Threads : ~WillRead(u, f)
  <2>1. \A u \in Threads : Loading(u) => u = t
    BY <1>2, ReturnsEffect DEF Watched
  <2>2. \A u \in Threads : WillRead(u, f) => Loading(u)
    BY LoadForm DEF WillRead, Reads, At
  <2>3. ~WillRead(t, f)
    BY ReturnsEffect DEF WillRead, Reads, Compares, At
  <2>4. QED BY <2>1, <2>2, <2>3
<1>7. Settled(v, f)
  BY <1>2, <1>3, <1>5, <1>6 DEF Watched, ToBeRead
<1>8. SettlesKept(v)
  BY <1>2, LoadReturnsStep
<1>9. Forced(v)
  BY <1>2, <1>3, <1>7 DEF Forced
<1>10. QED BY <1>2, <1>8, <1>9, ReturnsEffect, ForcedKept

LEMMA BeginEffect ==
    ASSUME FilesOK, NEW t \in Threads, NEW force \in BOOLEAN, LoadFromConfDir(t, force)
    PROVE  /\ ~Loading(t) /\ Loading(t)' /\ pc[t] = "idle"
           /\ load' \in [Threads -> {NotLoading} \cup Waiting \cup AtFile \cup AtNodes]
           /\ LoadsOthersStay(t) /\ load'[t].at = "next" /\ load'[t].force = force
           /\ load'[t].files = {f \in Files : file[f].document # Gone}
           /\ load'[t].known = registered /\ load'[t].begun = edits
           /\ NodesOf(t) = <<>> /\ NodesOf(t)' = <<>>
           /\ UNCHANGED <<vars, file, edits, registered, recorded, unseen, inForce>>
<1> DEFINE l == [at |-> "next", force |-> force,
                 files |-> {f \in Files : file[f].document # Gone},
                 known |-> registered, begun |-> edits]
<1>1. l \in Waiting /\ l # NotLoading
  BY DEF Waiting, NotLoading, FilesOK
<1>2. /\ l.at = "next" /\ l.force = force /\ l.known = registered /\ l.begun = edits
      /\ l.files = {f \in Files : file[f].document # Gone}
  OBVIOUS
<1>3. load' = [load EXCEPT ![t] = l]
  BY DEF LoadFromConfDir
<1> HIDE DEF l
<1>4. load'[t] = l /\ LoadsOthersStay(t)
      /\ load' \in [Threads -> {NotLoading} \cup Waiting \cup AtFile \cup AtNodes]
  BY <1>1, <1>3 DEF FilesOK, LoadsOthersStay
<1>5. ~Loading(t) /\ pc[t] = "idle"
      /\ UNCHANGED <<vars, file, edits, registered, recorded, unseen, inForce>>
  BY DEF LoadFromConfDir
<1>6. NodesOf(t) = <<>> /\ NodesOf(t)' = <<>> /\ Loading(t)'
  BY <1>1, <1>2, <1>4, <1>5 DEF NodesOf, At, NotLoading, Loading
<1>7. QED BY <1>2, <1>4, <1>5, <1>6

\* A load that begins with no other under way will read what is due.
LEMMA BeginStep ==
    ASSUME FilesOK, NEW t \in Threads, NEW force \in BOOLEAN, LoadFromConfDir(t, force),
           NEW v \in Vars
    PROVE  SettlesKept(v) /\ (v \notin touched' /\ (v \notin touched => Watched(v)) => Watched(v)')
<1>1. SettlesKept(v) /\ Setting(v)' = Setting(v)
  BY BeginEffect, SettlesKeptElsewhere
<1>2. ASSUME v \notin touched', v \notin touched => Watched(v) PROVE Watched(v)'
  <2>1. /\ \A u \in Threads : ~Loading(u)
        /\ v \notin busyVars
        /\ v \in touched => Namers(v) \subseteq Due(force)
    BY <1>2 DEF LoadFromConfDir
  <2>2. Setting(v) = {}
    BY <2>1 DEF busyVars
  <2>3. \A u \in Threads : Loading(u)' => u = t
    BY <2>1, BeginEffect DEF LoadsOthersStay, Loading
  <2>4. Progress(t)'
    BY BeginEffect DEF Progress, Compares, At
  <2>5. Namers(v)' = Namers(v)
    BY BeginEffect DEF Namers
  <2>6. ASSUME NEW f \in Files \ unseen', v \in registered', Namers(v) = {f}
        PROVE  ToBeRead(f)' \/ Settled(v, f)'
    <3>1. file[f].document # Gone
      <4>1. Names(nodesIn(file[f].document), v)
        BY <2>6, NamersName
      <4>2. QED BY <4>1 DEF nodesIn, Names
    <3>2. CASE v \in touched
      <4>1. force \/ recorded[f] # file[f].mtime
        BY <2>1, <2>6, <3>2 DEF Due
      <4>2. CASE recorded[f] # file[f].mtime
        BY <4>2, BeginEffect DEF ToBeRead
      <4>3. CASE force
        <5>1. f \in load'[t].files /\ load'[t].force /\ Loading(t)'
          BY <3>1, <4>3, BeginEffect
        <5>2. WillRead(t, f)'
          BY <5>1 DEF WillRead
        <5>3. QED BY <5>2 DEF ToBeRead
      <4>4. QED BY <4>1, <4>2, <4>3
    <3>3. CASE v \notin touched
      <4>1. ToBeRead(f) \/ Settled(v, f)
        BY <1>2, <2>6, <3>3, BeginEffect DEF Watched
      <4>2. CASE ToBeRead(f)
        <5>1. ~WillRead(t, f)
          BY <2>1, BeginEffect, LoadForm DEF WillRead, Reads, At
        <5>2. QED BY <4>2, <5>1, BeginEffect, ToBeReadKept
      <4>3. CASE Settled(v, f)
        BY <1>1, <4>3, BeginEffect, SettledKept
      <4>4. QED BY <4>1, <4>2, <4>3
    <3>4. QED BY <3>2, <3>3
  <2>7. \A u \in Setting(v)' : Loading(u)'
    BY <1>1, <2>2
  <2>8. \A x, y \in Threads : Loading(x)' /\ Loading(y)' => x = y
    BY <2>3
  <2>9. \A u \in Threads : Loading(u)' => Progress(u)'
    BY <2>3, <2>4
  <2>10. \A f \in Files \ unseen' : v \in registered' /\ Namers(v)' = {f} => ToBeRead(f)' \/ Settled(v, f)'
    BY <2>5, <2>6
  <2>11. QED BY <2>7, <2>8, <2>9, <2>10 DEF Watched
<1>3. QED BY <1>1, <1>2

-----------------------------------------------------------------------------
(* An edit: what the file names is to be read, unless its time is the recorded one *)

LEMMA EditStep ==
    ASSUME FilesOK, NEW g \in Files, edit(g), NEW v \in Vars \ touched',
           v \notin touched => Watched(v)
    PROVE  Watched(v)'
<1>0. UNCHANGED <<vars, registered, recorded, load>> /\ edits' = edits + 1
  BY DEF edit
<1>a. PICK time \in Times : \E document \in Documents \cup {Unparsable, Gone} :
         /\ file' = [file EXCEPT ![g] = [mtime |-> time, document |-> document]]
         /\ unseen' = IF time = recorded[g] THEN unseen \cup {g} ELSE unseen \ {g}
         /\ touched' = IF LoadsOverlap THEN Vars
                       ELSE ((touched \cup NamedIn(file[g].document)) \ NamedIn(document))
                            \cup busyVars
  BY DEF edit
<1>1. PICK document \in Documents \cup {Unparsable, Gone} :
         /\ file' = [file EXCEPT ![g] = [mtime |-> time, document |-> document]]
         /\ unseen' = IF time = recorded[g] THEN unseen \cup {g} ELSE unseen \ {g}
         /\ touched' = IF LoadsOverlap THEN Vars
                       ELSE ((touched \cup NamedIn(file[g].document)) \ NamedIn(document))
                            \cup busyVars
  BY <1>a
<1>2. /\ file'[g].mtime = time /\ file'[g].document = document
      /\ \A f \in Files \ {g} : file'[f] = file[f]
  BY <1>1 DEF FilesOK
<1>3. /\ ~LoadsOverlap /\ v \notin busyVars
      /\ v \in NamedIn(document) \/ (v \notin touched /\ v \notin NamedIn(file[g].document))
  BY <1>1
<1>4. Setting(v)' = {} /\ SettlesKept(v)
  <2>1. Setting(v) = {} /\ Setting(v)' = Setting(v)
    BY <1>0, <1>3 DEF busyVars, vars, Setting
  <2>2. QED BY <1>0, <2>1
         DEF SettlesKept, Settles, Agrees, Brings, NodesOf, At, Loading, vars
<1>5. \A t, u \in Threads : Loading(t)' /\ Loading(u)' => t = u
  BY <1>0, <1>3 DEF LoadsOverlap, Loading
<1>6. \A t \in Threads : Loading(t)' => Progress(t)'
  <2>1. \A t \in Threads : Loading(t)' => load'[t].begun # edits'
    <3>1. \A t \in Threads : Loading(t)' => load'[t].begun <= edits /\ load'[t].begun \in Nat
      BY <1>0, LoadForm DEF FilesOK, Loading
    <3>2. edits \in Nat
      BY DEF FilesOK
    <3>3. QED BY <1>0, <3>1, <3>2
  <2>2. QED BY <2>1 DEF Progress
<1>7. ASSUME NEW f \in Files \ unseen', v \in registered', Namers(v)' = {f}
      PROVE  ToBeRead(f)' \/ Settled(v, f)'
  <2>1. \A h \in Files : h \in Namers(v)' <=> v \in NamedIn(file'[h].document)
    BY DEF Namers
  <2>2. CASE v \in NamedIn(document)
    <3>1. f = g
      BY <1>2, <1>7, <2>1, <2>2
    <3>2. recorded'[f] # file'[f].mtime
      BY <1>0, <1>1, <1>2, <1>7, <3>1
    <3>3. QED BY <3>2 DEF ToBeRead
  <2>3. CASE v \notin NamedIn(document)
    <3>1. f # g /\ v \notin touched /\ v \notin NamedIn(file[g].document)
      BY <1>2, <1>3, <1>7, <2>1, <2>3
    <3>2. Namers(v) = {f}
      <4>1. \A h \in Files : v \in NamedIn(file[h].document) <=> h = f
        BY <1>2, <1>7, <2>1, <3>1
      <4>2. QED BY <4>1 DEF Namers
    <3>3. f \notin unseen
      BY <1>1, <1>7, <3>1
    <3>4. ToBeRead(f) \/ Settled(v, f)
      BY <1>0, <1>7, <3>1, <3>2, <3>3 DEF Watched
    <3>5. file'[f] = file[f]
      BY <1>2, <3>1
    <3>6. ToBeRead(f) => ToBeRead(f)'
      BY <1>0, <3>5 DEF ToBeRead, WillRead, Reads, Compares, At, Loading
    <3>7. Settled(v, f) => Settled(v, f)'
      BY <1>4, <3>5, SettledKept
    <3>8. QED BY <3>4, <3>6, <3>7
  <2>4. QED BY <2>2, <2>3
<1>8. QED BY <1>4, <1>5, <1>6, <1>7 DEF Watched

-----------------------------------------------------------------------------
(* Callers *)

\* What a caller does to other variables than v, or without setting any.
LEMMA UseStep ==
    ASSUME ConfigInv, RegisteredAreVars, NEW t \in Threads, NEW v \in Vars,
           \/ \E w \in Vars : Lookup(t, w)
           \/ use(t) /\ (v \notin touched' \/ v \in inForce')
    PROVE  SettlesKept(v) /\ Setting(v)' \subseteq Setting(v)
<1>0. TypeOK
  BY DEF ConfigInv
<1>1. LoadsOthersStay(t) /\ NodesKept(t, v)
  BY DEF Lookup, use, LoadsOthersStay, NodesKept, NodesOf, At
<1>2. Elsewhere(t, v)
  <2>1. CASE \E w \in Vars : Lookup(t, w)
    BY <2>1 DEF Lookup, vars, Elsewhere, OthersStay, Setting
  <2>2. ASSUME NEW w \in registered, NEW val \in Values, setValue(t, w, val), w # v
        PROVE  Elsewhere(t, v)
    <3>1. look(t, w, val) /\ w \in Vars
      BY <2>2 DEF setValue, RegisteredAreVars
    <3>2. QED BY <2>2, <3>1, LookEffect DEF Elsewhere, Setting
  <2>3. ASSUME NEW w \in Vars, lockAndLoad(t, w) PROVE Elsewhere(t, v)
    <3>1. CallAt(t, "store") /\ Locals(t, AddLocals(w))
      BY <1>0, <2>3, LoadPlaces
    <3>2. QED BY <2>3, <3>1 DEF CallAt, Locals, OthersStay, Setting, lockAndLoad, begins, Elsewhere
  <2>4. CASE \/ \E w \in Vars : clearListener(t, w)
             \/ \E h \in handles : deleteListener(t, h)
    BY <2>4 DEF clearListener, deleteListener, begins, OthersStay, Setting, Elsewhere
  <2>5. registered \subseteq Vars
    BY DEF RegisteredAreVars
  <2>6. CASE use(t) /\ (v \notin touched' \/ v \in inForce')
    BY <2>2, <2>3, <2>4, <2>5, <2>6 DEF use
  <2>7. QED BY <2>1, <2>6
<1>3. SettlesKept(v)
  BY <1>1, <1>2, SettlesElsewhere DEF SettlesKept
<1>4. QED BY <1>2, <1>3 DEF Elsewhere, OthersStay, Setting

-----------------------------------------------------------------------------
(* The invariant *)

LEMMA FilesStep ==
    ASSUME ConfigInv, FilesOK, [LoadNext]_allVars
    PROVE  FilesOK'
<1> DEFINE Forms == {NotLoading} \cup Waiting \cup AtFile \cup AtNodes
<1>1. ASSUME NEW t \in Threads, use(t) \/ callGoesOn(t) PROVE FilesOK'
  <2>1. UNCHANGED <<load, file, recorded, edits, registered>>
    BY <1>1 DEF use, callGoesOn, loadVars
  <2>2. load[t].at \notin {"compare", "read"}
    <3>1. CASE use(t)
      BY <3>1, LoadForm DEF use
    <3>2. CASE callGoesOn(t)
      BY <3>2 DEF callGoesOn, goesOn, notify, unlockShared, write, storeId, insert, addReturns,
                  FilesOK
    <3>3. QED BY <1>1, <3>1, <3>2
  <2>3. \A u \in Threads \ {t} : pc'[u] = pc[u]
    <3>1. pc \in [Threads -> Places]
      BY DEF ConfigInv, TypeOK, PlacesOK
    <3>2. pc' = pc \/ \E place : pc' = [pc EXCEPT ![t] = place]
      <4>1. CASE use(t)
        BY <4>1 DEF use, setValue, look, begins, lockAndLoad, clearListener, deleteListener, Goto
      <4>2. CASE callGoesOn(t)
        BY <4>2 DEF callGoesOn, goesOn, notify, unlockShared, write, storeId, insert,
                    addReturns, Goto
      <4>3. QED BY <1>1, <4>1, <4>2
    <3>3. QED BY <3>1, <3>2
  <2>4. \A u \in Threads : load'[u].at \in {"compare", "read"} => pc'[u] = "idle"
    BY <2>1, <2>2, <2>3 DEF FilesOK
  <2>5. \A u \in Threads : Loading(u)' <=> Loading(u)
    BY <2>1 DEF Loading
  <2>6. QED BY <2>1, <2>4, <2>5 DEF FilesOK
<1>2. ASSUME NEW t \in Threads, LoadKept(t), UNCHANGED <<file, edits, registered>>,
             recorded' \in [Files -> Nat],
             \A u \in Threads \ {t} : pc'[u] = pc[u],
             load'[t].at \in {"compare", "read"} => pc'[t] = "idle"
      PROVE  FilesOK'
  <2>1. \A u \in Threads \ {t} : load'[u] = load[u] /\ (Loading(u)' <=> Loading(u))
    BY <1>2 DEF LoadKept, GoesOnLoading, LoadsOthersStay, Loading
  <2>2. \A u \in Threads : load'[u].at \in {"compare", "read"} => pc'[u] = "idle"
    BY <1>2, <2>1 DEF FilesOK
  <2>3. \A u \in Threads : load'[u].at = "apply" => load'[u].nodes # <<>>
    BY <1>2, <2>1 DEF FilesOK, LoadKept
  <2>4. \A u \in Threads : Loading(u)' => load'[u].known \subseteq registered' /\ load'[u].begun <= edits'
    BY <1>2, <2>1 DEF FilesOK, LoadKept, GoesOnLoading
  <2>5. QED BY <1>2, <2>2, <2>3, <2>4 DEF FilesOK, LoadKept
<1>3. ASSUME NEW t \in Threads, lstat(t) PROVE FilesOK'
  <2>1. LoadKept(t)
    BY <1>3, LstatEffect
  <2>2. UNCHANGED <<vars, file, edits, registered, recorded>> /\ pc[t] = "idle" /\ pc' = pc
    BY <1>3 DEF lstat, vars
  <2>3. recorded' \in [Files -> Nat]
    BY <2>2 DEF FilesOK
  <2>4. QED BY <1>2, <2>1, <2>2, <2>3
<1>4. ASSUME NEW t \in Threads, compare(t) PROVE FilesOK'
  <2>1. LoadKept(t) /\ pc[t] = "idle" /\ load[t].file \in Files /\ load[t].time \in Nat
    BY <1>4, CompareEffect
  <2>2. UNCHANGED <<file, edits, registered>> /\ pc' = pc
    BY <1>4 DEF compare, vars
  <2>3. recorded' \in [Files -> Nat]
    BY <1>4, <2>1 DEF compare, FilesOK
  <2>4. QED BY <1>2, <2>1, <2>2, <2>3
<1>5. ASSUME NEW t \in Threads, LoadFile(t) PROVE FilesOK'
  <2>1. LoadKept(t) /\ pc[t] = "idle"
    BY <1>5, LoadFileEffect
  <2>2. UNCHANGED <<file, edits, registered, recorded>> /\ pc' = pc
    BY <1>5 DEF LoadFile, vars
  <2>3. recorded' \in [Files -> Nat]
    BY <2>2 DEF FilesOK
  <2>4. QED BY <1>2, <2>1, <2>2, <2>3
<1>6. ASSUME NEW t \in Threads, LoadFromYaml(t) PROVE FilesOK'
  <2>1. LoadKept(t) /\ load'[t].at \notin {"compare", "read"}
    BY <1>6, ApplyEffect
  <2>2. UNCHANGED <<file, edits, registered, recorded>>
    BY <1>6 DEF LoadFromYaml
  <2>3. recorded' \in [Files -> Nat]
    BY <2>2 DEF FilesOK
  <2>4. \A u \in Threads \ {t} : pc'[u] = pc[u]
    <3>1. pc \in [Threads -> Places]
      BY DEF ConfigInv, TypeOK, PlacesOK
    <3>2. pc' = pc \/ \E place : pc' = [pc EXCEPT ![t] = place]
      BY <1>6 DEF LoadFromYaml, setValue, look, Goto, vars
    <3>3. QED BY <3>1, <3>2
  <2>5. QED BY <1>2, <2>1, <2>2, <2>3, <2>4
<1>7. ASSUME NEW t \in Threads, loadReturns(t) PROVE FilesOK'
  <2>1. /\ load'[t] = NotLoading /\ ~Loading(t)' /\ load' \in [Threads -> Forms]
        /\ UNCHANGED <<file, edits, registered, recorded>> /\ pc' = pc
        /\ \A u \in Threads \ {t} : load'[u] = load[u] /\ (Loading(u)' <=> Loading(u))
    BY <1>7, ReturnsEffect DEF vars, LoadsOthersStay, Loading
  <2>2. NotLoading.at = "none"
    BY DEF NotLoading
  <2>3. \A u \in Threads : load'[u].at \in {"compare", "read"} => pc'[u] = "idle"
    BY <2>1, <2>2 DEF FilesOK
  <2>4. \A u \in Threads : load'[u].at = "apply" => load'[u].nodes # <<>>
    BY <2>1, <2>2 DEF FilesOK
  <2>5. \A u \in Threads : Loading(u)' => load'[u].known \subseteq registered' /\ load'[u].begun <= edits'
    BY <2>1 DEF FilesOK
  <2>6. QED BY <2>1, <2>3, <2>4, <2>5 DEF FilesOK
<1>8. ASSUME NEW t \in Threads, NEW force \in BOOLEAN, LoadFromConfDir(t, force) PROVE FilesOK'
  <2>1. /\ load'[t].at = "next" /\ load' \in [Threads -> Forms]
        /\ load'[t].known = registered /\ load'[t].begun = edits
        /\ UNCHANGED <<file, edits, registered, recorded>> /\ pc' = pc
        /\ \A u \in Threads \ {t} : load'[u] = load[u] /\ (Loading(u)' <=> Loading(u))
    BY <1>8, BeginEffect DEF vars, LoadsOthersStay, Loading
  <2>2. \A u \in Threads : load'[u].at \in {"compare", "read"} => pc'[u] = "idle"
    BY <2>1 DEF FilesOK
  <2>3. \A u \in Threads : load'[u].at = "apply" => load'[u].nodes # <<>>
    BY <2>1 DEF FilesOK
  <2>4. \A u \in Threads : Loading(u)' => load'[u].known \subseteq registered' /\ load'[u].begun <= edits'
    BY <2>1 DEF FilesOK
  <2>5. QED BY <2>1, <2>2, <2>3, <2>4 DEF FilesOK
<1>9. ASSUME NEW t \in Threads, NEW v \in Vars, Lookup(t, v) PROVE FilesOK'
  <2>1. registered \subseteq registered' /\ registered' \subseteq {w \in Vars : isValid(w)}
    BY <1>9 DEF Lookup, FilesOK
  <2>2. UNCHANGED <<load, file, recorded, edits, pc>>
    BY <1>9 DEF Lookup, vars
  <2>3. \A u \in Threads : Loading(u)' <=> Loading(u)
    BY <2>2 DEF Loading
  <2>4. QED BY <2>1, <2>2, <2>3 DEF FilesOK
<1>10. ASSUME NEW g \in Files, edit(g) PROVE FilesOK'
  <2>1. UNCHANGED <<load, registered, recorded, pc>> /\ edits' = edits + 1
    BY <1>10 DEF edit, vars
  <2>2. PICK time \in Times : \E document \in Documents \cup {Unparsable, Gone} :
           file' = [file EXCEPT ![g] = [mtime |-> time, document |-> document]]
    BY <1>10 DEF edit
  <2>3. file' \in [Files -> [mtime : Times, document : Documents \cup {Unparsable, Gone}]]
    BY <2>2 DEF FilesOK
  <2>4. edits' \in Nat /\ \A u \in Threads : Loading(u)' => load'[u].begun <= edits'
    <3>1. \A u \in Threads : Loading(u) => load[u].begun \in Nat /\ load[u].begun <= edits
      BY LoadForm DEF FilesOK
    <3>2. edits \in Nat
      BY DEF FilesOK
    <3>3. QED BY <2>1, <3>1, <3>2 DEF Loading
  <2>5. \A u \in Threads : Loading(u)' <=> Loading(u)
    BY <2>1 DEF Loading
  <2>6. QED BY <2>1, <2>3, <2>4, <2>5 DEF FilesOK
<1>11. CASE UNCHANGED allVars
  BY <1>11 DEF allVars, loadVars, vars, FilesOK, Loading
<1>12. QED BY <1>1, <1>3, <1>4, <1>5, <1>6, <1>7, <1>8, <1>9, <1>10, <1>11, LoadAssumption
           DEF LoadNext, loadGoesOn

\* Steps that leave the files and the loads alone.
LEMMA CallStepKeeps ==
    ASSUME ConfigInv, FilesOK, NEW v \in Vars, NEW t \in Threads,
           callGoesOn(t) \/ UNCHANGED allVars
    PROVE  (Watched(v) => Watched(v)') /\ (Forced(v) => Forced(v)')
<1>1. UNCHANGED <<load, file, recorded, edits, unseen, registered>>
  BY DEF callGoesOn, loadVars, allVars
<1>2. SettlesKept(v) /\ Setting(v)' \subseteq Setting(v)
  <2>1. CASE callGoesOn(t)
    <3>1. Setting(v)' \subseteq Setting(v)
      BY <2>1, GoesOnSetting DEF callGoesOn
    <3>2. \A val : Settles(v, val) => Settles(v, val)'
      BY <1>1, <2>1, SettlesGoesOn DEF callGoesOn
    <3>3. QED BY <3>1, <3>2 DEF SettlesKept
  <2>2. CASE UNCHANGED allVars
    BY <2>2 DEF allVars, loadVars, vars, SettlesKept, Settles, Agrees, Brings, NodesOf, At,
                Loading, Setting
  <2>3. QED BY <2>1, <2>2
<1>3. QED BY <1>1, <1>2, WatchedKept, ForcedKept

LEMMA WatchedStep ==
    ASSUME ConfigInv, ForceInv, [LoadNext]_allVars, NEW v \in Vars \ touched'
    PROVE  Watched(v)'
<1>0. FilesOK /\ RegisteredAreVars /\ (v \notin touched => Watched(v))
  BY DEF ForceInv, FilesOK, RegisteredAreVars
<1>1. ASSUME NEW t \in Threads, use(t) \/ \E w \in Vars : Lookup(t, w) PROVE Watched(v)'
  <2>1. v \notin touched
    BY <1>1 DEF use, Lookup
  <2>2. UNCHANGED <<load, file, recorded, edits, unseen>> /\ (v \in registered' => v \in registered)
    BY <1>1 DEF use, Lookup
  <2>3. SettlesKept(v) /\ Setting(v)' \subseteq Setting(v)
    BY <1>0, <1>1, UseStep
  <2>4. QED BY <1>0, <2>1, <2>2, <2>3, WatchedKept
<1>2. ASSUME NEW t \in Threads, callGoesOn(t) PROVE Watched(v)'
  BY <1>0, <1>2, CallStepKeeps DEF callGoesOn, loadVars
<1>3. ASSUME NEW t \in Threads, loadGoesOn(t) PROVE Watched(v)'
  <2>1. touched' = touched
    BY <1>3 DEF loadGoesOn, lstat, compare, LoadFile, LoadFromYaml, loadReturns
  <2>2. Watched(v)
    BY <1>0, <2>1
  <2>3. QED BY <1>0, <1>3, <2>2, LstatStep, CompareStep, ReadStep, ApplyStep, LoadReturnsStep
             DEF loadGoesOn
<1>4. ASSUME NEW t \in Threads, NEW force \in BOOLEAN, LoadFromConfDir(t, force) PROVE Watched(v)'
  BY <1>0, <1>4, BeginStep
<1>5. ASSUME NEW g \in Files, edit(g) PROVE Watched(v)'
  BY <1>0, <1>5, EditStep
<1>6. CASE UNCHANGED allVars
  <2>1. v \notin touched
    BY <1>6 DEF allVars, loadVars
  <2>2. Watched(v)
    BY <1>0, <2>1
  <2>3. UNCHANGED <<load, file, recorded, edits, unseen, registered>>
    BY <1>6 DEF allVars, loadVars
  <2>4. SettlesKept(v) /\ Setting(v)' \subseteq Setting(v)
    BY <1>6 DEF allVars, loadVars, vars, SettlesKept, Settles, Agrees, Brings, NodesOf, At,
                Loading, Setting
  <2>5. QED BY <2>2, <2>3, <2>4, WatchedKept
<1>7. QED BY <1>1, <1>2, <1>3, <1>4, <1>5, <1>6, LoadAssumption DEF LoadNext

LEMMA ForcedStep ==
    ASSUME ConfigInv, ForceInv, [LoadNext]_allVars, NEW v \in inForce'
    PROVE  Forced(v)'
<1>0. FilesOK /\ RegisteredAreVars
      /\ (v \in inForce => v \in Vars /\ Forced(v))
  BY DEF ForceInv, FilesOK, RegisteredAreVars, Forced
<1>1. ASSUME NEW t \in Threads, use(t) \/ \E w \in Vars : Lookup(t, w) PROVE Forced(v)'
  <2>1. v \in inForce
    BY <1>1 DEF use, Lookup
  <2>2. file' = file /\ registered \subseteq registered'
    BY <1>1 DEF use, Lookup
  <2>3. SettlesKept(v)
    BY <1>0, <1>1, <2>1, UseStep
  <2>4. QED BY <1>0, <2>1, <2>2, <2>3, ForcedKept
<1>2. ASSUME NEW t \in Threads, callGoesOn(t) PROVE Forced(v)'
  BY <1>0, <1>2, CallStepKeeps DEF callGoesOn, loadVars
<1>3. ASSUME NEW t \in Threads, lstat(t) \/ compare(t) \/ LoadFile(t) \/ LoadFromYaml(t)
      PROVE  Forced(v)'
  <2>1. v \in inForce /\ file' = file /\ registered' = registered
    BY <1>3 DEF lstat, compare, LoadFile, LoadFromYaml
  <2>2. CASE lstat(t) \/ compare(t)
    BY <1>0, <2>1, <2>2, LstatStep, CompareStep, ForcedKept
  <2>3. CASE LoadFile(t) \/ LoadFromYaml(t)
    BY <1>0, <2>1, <2>3, ReadStep, ApplyStep
  <2>4. QED BY <1>3, <2>2, <2>3
<1>4. ASSUME NEW t \in Threads, loadReturns(t) PROVE Forced(v)'
  <2>1. CASE v \in inForce
    BY <1>0, <1>4, <2>1, LoadReturnsStep, ReturnsEffect, ForcedKept
  <2>2. CASE v \notin inForce
    <3>1. v \in load[t].known
      BY <1>4, <2>2 DEF loadReturns
    <3>2. v \in Vars
      BY <1>0, <1>4, <3>1, ReturnsEffect, LoadForm
    <3>3. v \notin touched => Watched(v)
      BY <3>2 DEF ForceInv
    <3>4. QED BY <1>0, <1>4, <2>2, <3>3, ReturnsForce
  <2>3. QED BY <2>1, <2>2
<1>5. ASSUME NEW t \in Threads, NEW force \in BOOLEAN, LoadFromConfDir(t, force) PROVE Forced(v)'
  <2>1. v \in inForce /\ file' = file /\ registered' = registered
    BY <1>0, <1>5, BeginEffect
  <2>2. SettlesKept(v)
    BY <1>0, <1>5, <2>1, BeginStep
  <2>3. QED BY <1>0, <2>1, <2>2, ForcedKept
<1>6. ASSUME NEW g \in Files, edit(g) PROVE FALSE
  BY <1>6 DEF edit
<1>7. CASE UNCHANGED allVars
  <2>1. v \in inForce /\ file' = file /\ registered' = registered
    BY <1>7 DEF allVars, loadVars
  <2>2. SettlesKept(v)
    BY <1>7 DEF allVars, loadVars, vars, SettlesKept, Settles, Agrees, Brings, NodesOf, At,
                Loading, Setting
  <2>3. QED BY <1>0, <2>1, <2>2, ForcedKept
<1>8. QED BY <1>1, <1>2, <1>3, <1>4, <1>5, <1>6, <1>7, LoadAssumption DEF LoadNext, loadGoesOn

\* config.cpp:211-234: once a load that no edit and no other load has overlapped has
\* returned, a variable has the value of the file that names it, for any files, documents,
\* edits, threads and callers, until the file is edited or a caller sets it.
THEOREM LoadsTakeEffect == LoadSpec => []LoadTakesEffect
<1>1. LoadInit => ForceInv
  <2> SUFFICES ASSUME LoadInit PROVE ForceInv
    OBVIOUS
  <2>1. \A t \in Threads : load[t] = NotLoading /\ ~Loading(t)
    BY DEF LoadInit, Loading
  <2>2. NotLoading.at = "none"
    BY DEF NotLoading
  <2>3. FilesOK
    <3>1. file \in [Files -> [mtime : Times, document : Documents \cup {Unparsable, Gone}]]
      BY DEF LoadInit
    <3>2. load \in [Threads -> {NotLoading} \cup Waiting \cup AtFile \cup AtNodes]
      BY DEF LoadInit
    <3>3. \A t \in Threads : load[t].at \notin {"compare", "read", "apply"}
      BY <2>1, <2>2
    <3>4. recorded \in [Files -> Nat] /\ edits \in Nat /\ registered = {}
      BY DEF LoadInit
    <3>5. QED BY <2>1, <3>1, <3>2, <3>3, <3>4 DEF FilesOK
  <2>4. \A v \in Vars : Watched(v)
    <3>1. \A v \in Vars : Setting(v) = {} /\ v \notin registered
      BY DEF LoadInit, Init, Setting
    <3>2. QED BY <2>1, <3>1 DEF Watched
  <2>5. QED BY <2>3, <2>4 DEF ForceInv, LoadInit
<1>2. ConfigInv /\ ForceInv /\ [LoadNext]_allVars => ForceInv'
  BY FilesStep, WatchedStep, ForcedStep DEF ForceInv
<1>3. ForceInv => LoadTakesEffect
  <2> SUFFICES ASSUME ForceInv, \A t \in Threads : pc[t] = "idle" /\ ~Loading(t),
                      NEW v \in inForce
               PROVE  \E f \in Files :
                         Namers(v) = {f} /\ GivesLast(nodesIn(file[f].document), v, value[v])
    BY DEF LoadTakesEffect
  <2>1. PICK f \in Files : Namers(v) = {f} /\ Settled(v, f)
    BY DEF ForceInv, Forced
  <2>2. PICK val : GivesLast(nodesIn(file[f].document), v, val) /\ Settles(v, val)
    BY <2>1 DEF Settled
  <2>3. \A t \in Threads : ~Brings(t, v, val)
    <3>1. ~Names(<<>>, v)
      BY DEF Names
    <3>2. \A t \in Threads : NodesOf(t) = <<>> /\ t \notin Setting(v)
      BY DEF Loading, NotLoading, NodesOf, At, Setting
    <3>3. QED BY <3>1, <3>2 DEF Brings
  <2>4. value[v] = val
    BY <2>2, <2>3 DEF Settles
  <2>5. QED BY <2>1, <2>2, <2>4
<1>4. QED BY <1>1, <1>2, <1>3, LoadsUseVariables, ConfigInvariant, PTL DEF LoadSpec

-----------------------------------------------------------------------------
(* The texts of values *)

\* What the strings are read as: a leaf, unless the load throws; and a leaf is printed as a
\* string that is kept.
LEMMA StringsRead ==
    /\ \A s \in Strings : ReadAs[s] # Throws => ReadAs[s] \in Leaves
    /\ \A leaf \in Leaves : PrintedAs[leaf] \in Kept
BY YamlAssumption DEF Kept

LEMMA KindsOfNodes ==
    /\ \A s : /\ Text(s).kind = "text" /\ Text(s).string = s
             /\ Load(Text(s)) = NodeOf(ReadAs[s]) /\ (Loads(Text(s)) <=> ReadAs[s] # Throws)
    /\ \A leaf : NodeOf(leaf).kind = "leaf" /\ Emit(NodeOf(leaf)) = Text(PrintedAs[leaf])
<1>1. \A s : Text(s).kind = "text" /\ Text(s).string = s
  BY DEF Text
<1>2. \A leaf : NodeOf(leaf).kind = "leaf" /\ NodeOf(leaf).leaf = leaf
  BY DEF NodeOf
<1>3. QED BY <1>1, <1>2 DEF Load, Loads, Emit

\* The text of a container is its tree.
Unchanged(text) == Loads(text) /\ Load(text) = text /\ Emit(text) = text

LEMMA ItemsPrinted ==
    ASSUME NEW items
    PROVE  /\ Unchanged(SequenceOf(items)) /\ ItemsOf(SequenceOf(items)) = items
<1> DEFINE node == SequenceOf(items)
<1>1. node.kind = "sequence" /\ node.items = items
  BY DEF SequenceOf
<1> HIDE DEF node
<1>2. QED BY <1>1 DEF Unchanged, Load, Loads, Emit, ItemsOf, node

LEMMA EntriesPrinted ==
    ASSUME NEW entries
    PROVE  /\ Unchanged(MapOf(entries)) /\ EntriesOf(MapOf(entries)) = entries
<1> DEFINE node == MapOf(entries)
<1>1. node.kind = "map" /\ node.entries = entries
  BY DEF MapOf
<1> HIDE DEF node
<1>2. QED BY <1>1 DEF Unchanged, Load, Loads, Emit, EntriesOf, node

\* The order in which a set is printed has each of its elements.
LEMMA SetInOrder ==
    ASSUME NEW S, IsFiniteSet(S)
    PROVE  SetToSeq(S) \in [1 .. Cardinality(S) -> S] /\ Range(SetToSeq(S)) = S
<1> DEFINE n == Cardinality(S)
           f == SetToSeq(S)
<1>1. n \in Nat /\ ExistsBijection(1 .. n, S)
  BY FS_CardinalityType
<1>2. \E g \in [1 .. n -> S] : IsInjective(g)
  BY <1>1 DEF ExistsBijection, Bijection, Injection, IsInjective
<1>3. f \in [1 .. n -> S] /\ IsInjective(f)
  BY <1>2 DEF SetToSeq
<1> HIDE DEF f
<1>4. f \in Injection(1 .. n, S)
  BY <1>3 DEF Injection, IsInjective
<1>5. IsFiniteSet(1 .. n) /\ Cardinality(1 .. n) = n
  BY <1>1, FS_Interval
<1>6. f \in Surjection(1 .. n, S)
  BY <1>4, <1>5, FS_Injection
<1>7. \A x \in S : \E i \in 1 .. n : f[i] = x
  BY <1>6 DEF Surjection
<1>8. Range(f) = S
  BY <1>3, <1>7 DEF Range
<1>9. QED BY <1>3, <1>8 DEF f

\* A plain value has a text of which it is read back, also when it is printed as part of
\* another one.
ReadsBack(cast, x) ==
    LET text == cast.toText[x]
    IN  /\ x \in cast.printing
        /\ Loads(text) /\ Load(text) \in cast.texts /\ Emit(Load(text)) = text
        /\ text \in cast.converting /\ cast.fromText[text] = x

\* Whatever has been printed as part of another value, if anything is read of it, it is plain.
ReadsPlain(cast, x) ==
    LET text == Emit(Load(cast.toText[x]))
    IN  text \in cast.converting => cast.fromText[text] \in cast.plain

\* The conversions of a type lose nothing of a plain value, and make no other of any text
\* that was printed.
Faithful(cast) ==
    /\ \A x \in cast.values \cap cast.plain : ReadsBack(cast, x)
    /\ \A x \in cast.values : elementPrints(x, cast.printing, cast.toText) => ReadsPlain(cast, x)

\* A container needs no reading and printing to be the text that an element is.
AllUnchanged(cast) == \A x \in cast.values : Unchanged(cast.toText[x])

LEMMA ScalarFaithful ==
    ASSUME NEW type
    PROVE  Faithful(ScalarCast(type))
<1> DEFINE cast == ScalarCast(type)
           values == IF type = <<"int">> THEN Numerals ELSE Strings
           texts == TextsOf({})
<1>1. /\ cast.values = values /\ cast.texts = texts /\ cast.plain = Kept
      /\ cast.printing = values /\ cast.toText = [v \in values |-> Text(v)]
      /\ cast.converting = {t \in texts : /\ t.kind = "text"
                                          /\ type = <<"int">> => t.string \in Numerals}
      /\ cast.fromText = [t \in texts |-> t.string]
  BY DEF ScalarCast
<1>2. values \subseteq Strings /\ (type = <<"int">> => values = Numerals) /\ Kept \subseteq Strings
  BY CastAssumption DEF Kept
<1> HIDE DEF cast, values
<1>3. (\A s \in Strings : Text(s) \in texts) /\ \A leaf \in Leaves : NodeOf(leaf) \in texts
  BY DEF TextsOf
<1> HIDE DEF texts
<1>4. ASSUME NEW v \in values PROVE cast.toText[v] = Text(v)
  BY <1>1
<1>5. ASSUME NEW v \in values, v \in Kept PROVE ReadsBack(cast, v)
  <2>1. /\ Loads(Text(v)) /\ Load(Text(v)) = NodeOf(ReadAs[v])
        /\ Emit(NodeOf(ReadAs[v])) = Text(v) /\ ReadAs[v] \in Leaves
    BY <1>5, StringsRead, KindsOfNodes DEF Kept
  <2>2. Text(v) \in texts /\ Text(v).kind = "text" /\ Text(v).string = v
    BY <1>2, <1>3, KindsOfNodes
  <2>3. Text(v) \in cast.converting /\ cast.fromText[Text(v)] = v
    BY <1>1, <1>2, <2>2
  <2>4. QED BY <1>1, <1>3, <1>4, <2>1, <2>3 DEF ReadsBack
<1>6. ASSUME NEW v \in values, elementPrints(v, cast.printing, cast.toText)
      PROVE  ReadsPlain(cast, v)
  <2> DEFINE printed == PrintedAs[ReadAs[v]]
  <2>1. ReadAs[v] # Throws /\ Load(Text(v)) = NodeOf(ReadAs[v])
    BY <1>4, <1>6, KindsOfNodes DEF elementPrints
  <2>2. printed \in Kept
    BY <1>2, <2>1, StringsRead
  <2>3. Emit(Load(Text(v))) = Text(printed)
    BY <2>1, KindsOfNodes
  <2> HIDE DEF printed
  <2>4. Text(printed) \in texts /\ Text(printed).string = printed
    BY <1>2, <1>3, <2>2, KindsOfNodes
  <2>5. cast.fromText[Text(printed)] \in cast.plain
    BY <1>1, <2>2, <2>4
  <2>6. QED BY <1>4, <2>3, <2>5 DEF ReadsPlain
<1>7. QED BY <1>1, <1>5, <1>6 DEF Faithful, cast

\* config.h:55-61, 79-84: elements in an order, as they are printed and read.
LEMMA ItemsReadBack ==
    ASSUME NEW cast, Faithful(cast), NEW v, NEW n \in Nat,
           v \in [1 .. n -> cast.values \cap cast.plain]
    PROVE  LET text == vectorToText(v, cast.toText)
           IN  /\ \A i \in DOMAIN v : elementPrints(v[i], cast.printing, cast.toText)
               /\ text \in TextsOf(cast.texts)
               /\ itemsConvert(text, cast.converting)
               /\ vectorFromText(text, cast.fromText) = v
<1> DEFINE toText == cast.toText
           items == [i \in DOMAIN v |-> Load(toText[v[i]])]
           text  == vectorToText(v, toText)
<1>1. text = SequenceOf(items)
  BY ItemsPrinted DEF vectorToText, Unchanged
<1>2. DOMAIN items = DOMAIN v /\ \A i \in DOMAIN v : items[i] = Load(toText[v[i]])
  OBVIOUS
<1>3. /\ DOMAIN v = 1 .. n /\ v = [i \in DOMAIN v |-> v[i]]
      /\ \A i \in DOMAIN v : v[i] \in cast.values \cap cast.plain
  OBVIOUS
<1>4. ASSUME NEW i \in DOMAIN v
      PROVE  /\ elementPrints(v[i], cast.printing, toText)
             /\ items[i] \in cast.texts /\ elementText(items, i) = toText[v[i]]
             /\ toText[v[i]] \in cast.converting /\ cast.fromText[toText[v[i]]] = v[i]
  <2>1. v[i] \in cast.values \cap cast.plain
    BY <1>3
  <2>2. ReadsBack(cast, v[i])
    BY <2>1 DEF Faithful
  <2>3. QED BY <1>2, <2>2 DEF ReadsBack, elementText, elementPrints
<1>5. items \in Seq(cast.texts)
  <2>1. items \in [1 .. n -> cast.texts]
    BY <1>3, <1>4
  <2> HIDE DEF items
  <2>2. QED BY <2>1
<1> HIDE DEF items, text
<1>6. ItemsOf(text) = items /\ Loads(text)
  BY <1>1, ItemsPrinted DEF Unchanged
<1>7. text \in TextsOf(cast.texts)
  <2>1. SequenceOf(items) \in [kind : {"sequence"}, items : Seq(cast.texts)]
    BY <1>5 DEF SequenceOf
  <2>2. SequenceOf(items) \in TextsOf(cast.texts)
    BY <2>1 DEF TextsOf
  <2>3. QED BY <1>1, <2>2
<1>8. itemsConvert(text, cast.converting)
  BY <1>2, <1>4, <1>6 DEF itemsConvert
<1>9. vectorFromText(text, cast.fromText) = v
  <2>1. vectorFromText(text, cast.fromText) =
            [i \in DOMAIN v |-> cast.fromText[elementText(items, i)]]
    BY <1>2, <1>6 DEF vectorFromText
  <2>2. \A i \in DOMAIN v : cast.fromText[elementText(items, i)] = v[i]
    BY <1>4
  <2>3. QED BY <1>3, <2>1, <2>2
<1>10. QED BY <1>4, <1>7, <1>8, <1>9 DEF text

\* Whatever elements are printed, those that are read are plain.
LEMMA ItemsReadPlain ==
    ASSUME NEW cast, Faithful(cast), NEW v, NEW n \in Nat, v \in [1 .. n -> cast.values],
           \A i \in DOMAIN v : elementPrints(v[i], cast.printing, cast.toText),
           itemsConvert(vectorToText(v, cast.toText), cast.converting)
    PROVE  vectorFromText(vectorToText(v, cast.toText), cast.fromText) \in [1 .. n -> cast.plain]
<1> DEFINE toText == cast.toText
           items == [i \in DOMAIN v |-> Load(toText[v[i]])]
           text  == vectorToText(v, toText)
<1>1. text = SequenceOf(items)
  BY ItemsPrinted DEF vectorToText, Unchanged
<1>2. /\ DOMAIN items = 1 .. n /\ \A i \in 1 .. n : items[i] = Load(toText[v[i]])
      /\ DOMAIN v = 1 .. n /\ \A i \in 1 .. n : v[i] \in cast.values
  OBVIOUS
<1> HIDE DEF items
<1>3. ItemsOf(text) = items
  BY <1>1, ItemsPrinted
<1>4. ASSUME NEW i \in 1 .. n PROVE cast.fromText[elementText(items, i)] \in cast.plain
  <2>1. ReadsPlain(cast, v[i])
    BY <1>2 DEF Faithful
  <2>2. elementText(items, i) = Emit(Load(toText[v[i]])) /\ elementText(items, i) \in cast.converting
    BY <1>2, <1>3 DEF elementText, itemsConvert
  <2>3. QED BY <2>1, <2>2 DEF ReadsPlain
<1>5. vectorFromText(text, cast.fromText) = [i \in 1 .. n |-> cast.fromText[elementText(items, i)]]
  BY <1>2, <1>3 DEF vectorFromText
<1> HIDE DEF text
<1>6. vectorFromText(text, cast.fromText) \in [1 .. n -> cast.plain]
  BY <1>4, <1>5
<1>7. QED BY <1>6 DEF text

\* config.h:40-132: a vector or a list of elements is read back from its text as they are
\* from theirs.
LEMMA VectorFaithful ==
    ASSUME NEW element, Faithful(element)
    PROVE  Faithful(VectorCast(element)) /\ AllUnchanged(VectorCast(element))
<1> DEFINE cast   == VectorCast(element)
           values == Seq(element.values)
           texts  == TextsOf(element.texts)
           prints(v) == \A i \in DOMAIN v : elementPrints(v[i], element.printing, element.toText)
<1>1. /\ cast.values = values /\ cast.texts = texts /\ cast.plain = Seq(element.plain)
      /\ cast.printing = {v \in values : prints(v)}
      /\ cast.toText = [v \in values |-> vectorToText(v, element.toText)]
      /\ cast.converting = {t \in texts : itemsConvert(t, element.converting)}
      /\ cast.fromText = [t \in texts |-> vectorFromText(t, element.fromText)]
  BY DEF VectorCast
<1> HIDE DEF cast
<1>2. ASSUME NEW v \in values
      PROVE  cast.toText[v] = vectorToText(v, element.toText) /\ Unchanged(cast.toText[v])
  <2>1. cast.toText[v] = vectorToText(v, element.toText)
    BY <1>1
  <2>2. Unchanged(vectorToText(v, element.toText))
    BY ItemsPrinted DEF vectorToText, Unchanged
  <2>3. QED BY <2>1, <2>2
<1>3. ASSUME NEW v \in values, v \in Seq(element.plain) PROVE ReadsBack(cast, v)
  <2> DEFINE text == vectorToText(v, element.toText)
  <2>1. Len(v) \in Nat /\ v \in [1 .. Len(v) -> element.values \cap element.plain]
    BY <1>3, LenProperties
  <2>2. /\ text \in texts /\ itemsConvert(text, element.converting) /\ prints(v)
        /\ vectorFromText(text, element.fromText) = v
    BY <2>1, ItemsReadBack
  <2> HIDE DEF texts, values, prints
  <2>3. cast.toText[v] = text /\ Unchanged(text)
    BY <1>2
  <2> HIDE DEF text
  <2>4. text \in cast.converting /\ cast.fromText[text] = v /\ v \in cast.printing
    BY <1>1, <2>2
  <2>5. QED BY <1>1, <2>2, <2>3, <2>4 DEF ReadsBack, Unchanged
<1>4. ASSUME NEW v \in values, elementPrints(v, cast.printing, cast.toText)
      PROVE  ReadsPlain(cast, v)
  <2> DEFINE text == vectorToText(v, element.toText)
  <2>1. Len(v) \in Nat /\ v \in [1 .. Len(v) -> element.values] /\ prints(v)
    BY <1>1, <1>4, LenProperties DEF elementPrints
  <2>2. SUFFICES ASSUME text \in cast.converting PROVE cast.fromText[text] \in cast.plain
    BY <1>2 DEF ReadsPlain, Unchanged
  <2>3. text \in texts /\ itemsConvert(text, element.converting)
    BY <1>1, <2>2
  <2>4. vectorFromText(text, element.fromText) \in [1 .. Len(v) -> element.plain]
    BY <2>1, <2>3, ItemsReadPlain
  <2> DEFINE read == vectorFromText(text, element.fromText)
  <2> HIDE DEF text, texts, values, read
  <2>5. read \in Seq(element.plain)
    BY <2>1, <2>4 DEF read
  <2>6. cast.fromText[text] = read
    BY <1>1, <2>3 DEF read
  <2>7. QED BY <1>1, <2>5, <2>6
<1>5. QED BY <1>1, <1>2, <1>3, <1>4 DEF Faithful, AllUnchanged, cast

\* config.h:134-224: so is a set, ordered or not, in whatever order it is printed.
LEMMA SetFaithful ==
    ASSUME NEW element, Faithful(element)
    PROVE  Faithful(SetCast(element)) /\ AllUnchanged(SetCast(element))
<1> DEFINE cast   == SetCast(element)
           values == {s \in SUBSET element.values : IsFiniteSet(s)}
           texts  == TextsOf(element.texts)
           prints(v) == \A x \in v : elementPrints(x, element.printing, element.toText)
<1>1. /\ cast.values = values /\ cast.texts = texts /\ cast.plain = SUBSET element.plain
      /\ cast.printing = {v \in values : prints(v)}
      /\ cast.toText = [v \in values |-> setToText(v, element.toText)]
      /\ cast.converting = {t \in texts : itemsConvert(t, element.converting)}
      /\ cast.fromText = [t \in texts |-> setFromText(t, element.fromText)]
  BY DEF SetCast
<1> HIDE DEF cast
<1>2. ASSUME NEW v \in values
      PROVE  cast.toText[v] = setToText(v, element.toText) /\ Unchanged(cast.toText[v])
  <2>1. cast.toText[v] = setToText(v, element.toText)
    BY <1>1
  <2>2. Unchanged(setToText(v, element.toText))
    BY ItemsPrinted DEF setToText, vectorToText, Unchanged
  <2>3. QED BY <2>1, <2>2
<1>3. ASSUME NEW v \in values
      PROVE  /\ SetToSeq(v) \in [1 .. Cardinality(v) -> v] /\ Range(SetToSeq(v)) = v
             /\ Cardinality(v) \in Nat /\ v \subseteq element.values
  <2>1. v \subseteq element.values /\ IsFiniteSet(v)
    OBVIOUS
  <2>2. QED BY <2>1, SetInOrder, FS_CardinalityType
<1> HIDE DEF values
<1>4. ASSUME NEW v \in values, v \subseteq element.plain PROVE ReadsBack(cast, v)
  <2> DEFINE order == SetToSeq(v)
             text  == setToText(v, element.toText)
  <2>1. text = vectorToText(order, element.toText)
    BY DEF setToText
  <2>2. order \in [1 .. Cardinality(v) -> v] /\ Range(order) = v /\ Cardinality(v) \in Nat
        /\ v \subseteq element.values
    BY <1>3
  <2> HIDE DEF order, text
  <2>3. order \in [1 .. Cardinality(v) -> element.values \cap element.plain]
    BY <1>4, <2>2
  <2>4. /\ text \in texts /\ itemsConvert(text, element.converting)
        /\ \A i \in DOMAIN order : elementPrints(order[i], element.printing, element.toText)
        /\ vectorFromText(text, element.fromText) = order
    BY <2>1, <2>2, <2>3, ItemsReadBack
  <2>5. setFromText(text, element.fromText) = v
    BY <2>2, <2>4 DEF setFromText
  <2>6. prints(v)
    BY <2>2, <2>4 DEF Range
  <2> HIDE DEF texts, prints
  <2>7. cast.toText[v] = text /\ Unchanged(text)
    BY <1>2 DEF text
  <2>8. text \in cast.converting /\ cast.fromText[text] = v /\ v \in cast.printing
    BY <1>1, <2>4, <2>5, <2>6
  <2>9. QED BY <1>1, <2>4, <2>7, <2>8 DEF ReadsBack, Unchanged
<1>5. ASSUME NEW v \in values, elementPrints(v, cast.printing, cast.toText)
      PROVE  ReadsPlain(cast, v)
  <2> DEFINE order == SetToSeq(v)
             text  == setToText(v, element.toText)
             read  == vectorFromText(text, element.fromText)
  <2>1. text = vectorToText(order, element.toText)
    BY DEF setToText
  <2>2. order \in [1 .. Cardinality(v) -> v] /\ Cardinality(v) \in Nat /\ v \subseteq element.values
    BY <1>3
  <2>3. prints(v)
    BY <1>1, <1>5 DEF elementPrints
  <2>4. SUFFICES ASSUME text \in cast.converting PROVE cast.fromText[text] \in cast.plain
    BY <1>2 DEF ReadsPlain, Unchanged
  <2>5. text \in texts /\ itemsConvert(text, element.converting)
    BY <1>1, <2>4
  <2> HIDE DEF order, text
  <2>6. /\ order \in [1 .. Cardinality(v) -> element.values]
        /\ \A i \in DOMAIN order : elementPrints(order[i], element.printing, element.toText)
    BY <2>2, <2>3
  <2>7. read \in [1 .. Cardinality(v) -> element.plain]
    BY <2>1, <2>2, <2>5, <2>6, ItemsReadPlain
  <2>8. setFromText(text, element.fromText) = Range(read)
    BY DEF setFromText
  <2> HIDE DEF texts, read, prints
  <2>9. Range(read) \subseteq element.plain
    BY <2>7 DEF Range
  <2>10. cast.fromText[text] = Range(read)
    BY <1>1, <2>5, <2>8
  <2>11. QED BY <1>1, <2>9, <2>10
<1>6. QED BY <1>1, <1>2, <1>4, <1>5 DEF Faithful, AllUnchanged, cast

\* config.h:226-319: so is a map, ordered or not.
LEMMA MapFaithful ==
    ASSUME NEW element, Faithful(element)
    PROVE  Faithful(MapCast(element)) /\ AllUnchanged(MapCast(element))
<1> DEFINE cast   == MapCast(element)
           toText == element.toText
           values == MapsTo(element.values)
           texts  == TextsOf(element.texts)
           prints(v) == \A e \in v : elementPrints(e[2], element.printing, toText)
           entries(v) == {<<e[1], Load(toText[e[2]])>> : e \in v}
           read(d) == <<d[1], element.fromText[Emit(d[2])]>>
<1>1. /\ cast.values = values /\ cast.texts = texts
      /\ cast.plain = SUBSET (Keys \X element.plain)
      /\ cast.printing = {v \in values : prints(v)}
      /\ cast.toText = [v \in values |-> mapToText(v, toText)]
      /\ cast.converting = {t \in texts : entriesConvert(t, element.converting)}
      /\ cast.fromText = [t \in texts |-> mapFromText(t, element.fromText)]
  BY DEF MapCast
<1> HIDE DEF cast
<1>2. ASSUME NEW v \in values
      PROVE  /\ v \subseteq Keys \X element.values /\ \A e, f \in v : e[1] = f[1] => e = f
             /\ cast.toText[v] = MapOf(entries(v))
  <2>1. mapToText(v, toText) = MapOf(entries(v))
    BY EntriesPrinted DEF mapToText, Unchanged
  <2>2. cast.toText[v] = mapToText(v, toText)
    BY <1>1
  <2>3. QED BY <2>1, <2>2 DEF MapsTo
<1> HIDE DEF values, toText
<1>3. ASSUME NEW v
      PROVE  /\ Unchanged(MapOf(entries(v)))
             /\ entriesConvert(MapOf(entries(v)), element.converting) =>
                    \A d \in entries(v) : Emit(d[2]) \in element.converting
             /\ (\A d \in entries(v) : Emit(d[2]) \in element.converting) =>
                    entriesConvert(MapOf(entries(v)), element.converting)
             /\ mapFromText(MapOf(entries(v)), element.fromText) = {read(d) : d \in entries(v)}
  <2> HIDE DEF entries
  <2>1. Unchanged(MapOf(entries(v))) /\ EntriesOf(MapOf(entries(v))) = entries(v)
    BY EntriesPrinted
  <2>2. QED BY <2>1 DEF entriesConvert, mapFromText, Unchanged
<1>4. ASSUME NEW v \in values, v \subseteq Keys \X element.plain PROVE ReadsBack(cast, v)
  <2> DEFINE text == MapOf(entries(v))
  <2>1. ASSUME NEW e \in v
        PROVE  /\ e = <<e[1], e[2]>> /\ e[1] \in Keys
               /\ elementPrints(e[2], element.printing, toText)
               /\ Load(toText[e[2]]) \in element.texts
               /\ Emit(Load(toText[e[2]])) = toText[e[2]]
               /\ toText[e[2]] \in element.converting
               /\ element.fromText[toText[e[2]]] = e[2]
    <3>1. e[2] \in element.values \cap element.plain /\ e[1] \in Keys /\ e = <<e[1], e[2]>>
      <4>1. v \subseteq Keys \X element.values
        BY <1>2
      <4>2. e \in Keys \X element.values /\ e \in Keys \X element.plain
        BY <1>4, <4>1
      <4>3. QED BY <4>2
    <3>2. ReadsBack(element, e[2])
      BY <3>1 DEF Faithful
    <3>3. QED BY <3>1, <3>2 DEF ReadsBack, elementPrints, toText
  <2>2. entries(v) \in MapsTo(element.texts)
    <3>1. entries(v) \subseteq Keys \X element.texts
      BY <2>1
    <3>2. ASSUME NEW a \in entries(v), NEW b \in entries(v), a[1] = b[1] PROVE a = b
      <4>1. PICK e \in v : a = <<e[1], Load(toText[e[2]])>>
        OBVIOUS
      <4>2. PICK f \in v : b = <<f[1], Load(toText[f[2]])>>
        OBVIOUS
      <4>3. e[1] = f[1]
        BY <3>2, <4>1, <4>2
      <4>4. e = f
        BY <1>2, <4>3
      <4>5. QED BY <4>1, <4>2, <4>4
    <3> HIDE DEF entries
    <3>3. QED BY <3>1, <3>2 DEF MapsTo
  <2>3. ASSUME NEW d \in entries(v) PROVE Emit(d[2]) \in element.converting
    <3>1. PICK e \in v : d = <<e[1], Load(toText[e[2]])>>
      OBVIOUS
    <3>2. d[2] = Load(toText[e[2]])
      BY <3>1
    <3>3. QED BY <2>1, <3>2
  <2>4. {read(d) : d \in entries(v)} = v
    <3> DEFINE printed(e) == <<e[1], Load(toText[e[2]])>>
    <3>1. ASSUME NEW e \in v PROVE read(printed(e)) = e
      <4>1. printed(e)[1] = e[1] /\ printed(e)[2] = Load(toText[e[2]])
        OBVIOUS
      <4>2. QED BY <2>1, <4>1
    <3>2. entries(v) = {printed(e) : e \in v}
      OBVIOUS
    <3> HIDE DEF entries, read, printed
    <3>3. QED BY <3>1, <3>2
  <2>5. prints(v)
    BY <2>1
  <2> HIDE DEF entries, read, prints
  <2>6. text \in texts
    <3>1. text \in [kind : {"map"}, entries : MapsTo(element.texts)]
      BY <2>2 DEF MapOf
    <3> HIDE DEF text
    <3>2. QED BY <3>1 DEF TextsOf
  <2>7. /\ Unchanged(text) /\ entriesConvert(text, element.converting)
        /\ mapFromText(text, element.fromText) = v
    BY <1>3, <2>3, <2>4
  <2>8. cast.toText[v] = text
    BY <1>2
  <2> HIDE DEF texts, text
  <2>9. text \in cast.converting /\ cast.fromText[text] = v /\ v \in cast.printing
    BY <1>1, <2>5, <2>6, <2>7
  <2>10. QED BY <1>1, <2>6, <2>7, <2>8, <2>9 DEF ReadsBack, Unchanged
<1>5. ASSUME NEW v \in values, elementPrints(v, cast.printing, cast.toText)
      PROVE  ReadsPlain(cast, v)
  <2> DEFINE text == MapOf(entries(v))
  <2>1. prints(v)
    BY <1>1, <1>5 DEF elementPrints
  <2>2. cast.toText[v] = text /\ Unchanged(text)
    BY <1>2, <1>3
  <2>3. SUFFICES ASSUME text \in cast.converting PROVE cast.fromText[text] \in cast.plain
    BY <2>2 DEF ReadsPlain, Unchanged
  <2>4. text \in texts /\ entriesConvert(text, element.converting)
    BY <1>1, <2>3
  <2>5. ASSUME NEW d \in entries(v) PROVE read(d) \in Keys \X element.plain
    <3>1. PICK e \in v : d = <<e[1], Load(toText[e[2]])>>
      OBVIOUS
    <3>2. d[1] = e[1] /\ d[2] = Load(toText[e[2]])
      BY <3>1
    <3>3. e[1] \in Keys /\ e[2] \in element.values /\ elementPrints(e[2], element.printing, toText)
      BY <1>2, <2>1
    <3>4. ReadsPlain(element, e[2])
      BY <3>3 DEF Faithful, toText
    <3>5. Emit(d[2]) \in element.converting
      BY <1>3, <2>4
    <3>6. element.fromText[Emit(d[2])] \in element.plain
      BY <3>2, <3>4, <3>5 DEF ReadsPlain, toText
    <3>7. QED BY <3>2, <3>3, <3>6
  <2> HIDE DEF entries, read, text, texts
  <2>6. cast.fromText[text] = {read(d) : d \in entries(v)}
    BY <1>1, <1>3, <2>4 DEF text
  <2>7. QED BY <1>1, <2>5, <2>6
<1>6. ASSUME NEW v \in values PROVE Unchanged(cast.toText[v])
  <2> HIDE DEF entries
  <2>1. cast.toText[v] = MapOf(entries(v))
    BY <1>2
  <2>2. Unchanged(MapOf(entries(v)))
    BY <1>3
  <2>3. QED BY <2>1, <2>2
<1>7. QED BY <1>1, <1>4, <1>5, <1>6 DEF Faithful, AllUnchanged, cast

-----------------------------------------------------------------------------
(* The conversions of any type *)

\* What a type's conversions are made of.
Made(type, element) ==
    IF IsScalar(type) THEN ScalarCast(type) ELSE ContainerCast(Head(type), element)

LEMMA ElementType ==
    ASSUME NEW type \in Types
    PROVE  /\ Len(type) \in Nat
           /\ ~IsScalar(type) => /\ Head(type) \in {"vector", "set", "map"}
                                 /\ Tail(type) \in Types /\ Len(Tail(type)) < Len(type)
<1> DEFINE All == {"int", "string", "vector", "set", "map"}
           n == Len(type)
           rest == Tail(type)
<1>1. /\ type \in Seq(All) /\ type # <<>>
      /\ \A i \in DOMAIN type : type[i] \in {"int", "string"} <=> i = n
  BY DEF Types
<1> HIDE DEF All
<1>2. n \in Nat /\ DOMAIN type = 1 .. n /\ n # 0 /\ Head(type) = type[1]
  BY <1>1
<1>3. ASSUME n # 1
      PROVE  /\ type[1] \in {"vector", "set", "map"}
             /\ rest \in Types /\ Len(rest) < n
  <2>1. 1 \in 1 .. n /\ 1 # n /\ n - 1 \in Nat /\ n - 1 # 0
    BY <1>2, <1>3
  <2>2. type[1] \in All
    BY <1>1, <1>2, <2>1
  <2>3. type[1] \in {"vector", "set", "map"}
    BY <1>1, <1>2, <2>1, <2>2 DEF All
  <2>4. /\ rest \in Seq(All) /\ Len(rest) = n - 1 /\ \A i \in 1 .. n - 1 : rest[i] = type[i + 1]
    BY <1>1, <1>2
  <2> HIDE DEF rest
  <2>5. rest # <<>> /\ DOMAIN rest = 1 .. n - 1
    BY <2>1, <2>4
  <2>6. ASSUME NEW i \in 1 .. n - 1
        PROVE  rest[i] \in {"int", "string"} <=> i = n - 1
    <3>1. i + 1 \in 1 .. n /\ (i = n - 1 <=> i + 1 = n)
      BY <1>2
    <3>2. rest[i] = type[i + 1]
      BY <2>4
    <3>3. QED BY <1>1, <1>2, <3>1, <3>2
  <2>7. rest \in Types
    BY <2>4, <2>5, <2>6 DEF Types, All
  <2>8. n - 1 < n
    BY <1>2
  <2>9. QED BY <2>3, <2>4, <2>7, <2>8
<1>4. QED BY <1>2, <1>3 DEF IsScalar

\* A scalar's conversions do not depend on an element's.
LEMMA MadeAlike ==
    ASSUME NEW type, NEW a, NEW b, ~IsScalar(type) => a = b
    PROVE  Made(type, a) = Made(type, b)
BY DEF Made

MadeTo(n, f) == \A type \in Types : Len(type) < n => f[type] = Made(type, f[Tail(type)])

\* There are conversions for types of any length, and they are the same for longer ones.
LEMMA MadeSoFar ==
    ASSUME NEW n \in Nat
    PROVE  \E f : MadeTo(n, f)
<1> DEFINE P == {k \in Nat : \E f : MadeTo(k, f)}
<1>1. 0 \in P
  <2>1. \A type \in Types : ~(Len(type) < 0)
    BY ElementType
  <2>2. QED BY <2>1 DEF MadeTo
<1>2. ASSUME NEW k \in Nat, k \in P PROVE k + 1 \in P
  <2>1. PICK f : MadeTo(k, f)
    BY <1>2
  <2> DEFINE g == [type \in Types |-> IF Len(type) < k THEN f[type] ELSE Made(type, f[Tail(type)])]
  <2>2. ASSUME NEW type \in Types, Len(type) < k + 1 PROVE g[type] = Made(type, g[Tail(type)])
    <3>1. /\ Len(type) \in Nat
          /\ ~IsScalar(type) => Tail(type) \in Types /\ Len(Tail(type)) \in Nat
                                /\ Len(Tail(type)) < Len(type)
      BY ElementType
    <3>2. ~IsScalar(type) => g[Tail(type)] = f[Tail(type)]
      BY <2>2, <3>1
    <3>3. g[type] = Made(type, f[Tail(type)])
      <4>1. CASE Len(type) < k
        BY <2>1, <4>1 DEF MadeTo
      <4>2. CASE ~(Len(type) < k)
        BY <4>2
      <4>3. QED BY <4>1, <4>2
    <3> HIDE DEF g
    <3>4. Made(type, f[Tail(type)]) = Made(type, g[Tail(type)])
      BY <3>2, MadeAlike
    <3>5. QED BY <3>3, <3>4
  <2> HIDE DEF g
  <2>3. QED BY <2>2 DEF MadeTo
<1>3. QED
  <2> HIDE DEF P
  <2>1. n \in P
    BY <1>1, <1>2, SetInduction
  <2>2. QED BY <2>1 DEF P

LEMMA MadeOnce ==
    ASSUME NEW f, NEW g, NEW m \in Nat, NEW n \in Nat, m <= n, MadeTo(m, f), MadeTo(n, g)
    PROVE  \A type \in Types : Len(type) < m => f[type] = g[type]
<1> DEFINE P == {k \in Nat : \A type \in Types : Len(type) < k /\ Len(type) < m => f[type] = g[type]}
<1>1. 0 \in P
  BY ElementType
<1>2. ASSUME NEW k \in Nat, k \in P PROVE k + 1 \in P
  <2>1. SUFFICES ASSUME NEW type \in Types, Len(type) < k + 1, Len(type) < m
                 PROVE  f[type] = g[type]
    OBVIOUS
  <2>2. /\ Len(type) \in Nat
        /\ ~IsScalar(type) => Tail(type) \in Types /\ Len(Tail(type)) \in Nat
                              /\ Len(Tail(type)) < Len(type)
    BY ElementType
  <2>3. ~IsScalar(type) => f[Tail(type)] = g[Tail(type)]
    <3>1. SUFFICES ASSUME ~IsScalar(type) PROVE f[Tail(type)] = g[Tail(type)]
      OBVIOUS
    <3> DEFINE rest == Tail(type)
    <3>2. rest \in Types /\ Len(rest) < k /\ Len(rest) < m
      BY <2>1, <2>2, <3>1
    <3>3. \A t \in Types : Len(t) < k /\ Len(t) < m => f[t] = g[t]
      BY <1>2
    <3> HIDE DEF rest, P
    <3>4. QED BY <3>2, <3>3 DEF rest
  <2>4. Made(type, f[Tail(type)]) = Made(type, g[Tail(type)])
    BY <2>3, MadeAlike
  <2>5. Len(type) < n
    BY <2>1, <2>2
  <2>6. f[type] = Made(type, f[Tail(type)]) /\ g[type] = Made(type, g[Tail(type)])
    BY <2>1, <2>5 DEF MadeTo
  <2>7. QED BY <2>4, <2>6
<1>3. m \in P
  <2> HIDE DEF P
  <2>1. QED BY <1>1, <1>2, SetInduction
<1>4. QED BY <1>3

LEMMA CastIs ==
    ASSUME NEW type \in Types
    PROVE  LexicalCast[type] = Made(type, LexicalCast[Tail(type)])
<1> DEFINE Is(f) == f = [t \in Types |-> IF IsScalar(t) THEN ScalarCast(t)
                                         ELSE ContainerCast(Head(t), f[Tail(t)])]
           upto(n) == CHOOSE f : MadeTo(n, f)
           all == [t \in Types |-> upto(Len(t) + 1)[t]]
<1>1. ASSUME NEW n \in Nat PROVE MadeTo(n, upto(n))
  BY MadeSoFar
<1> HIDE DEF upto
<1>2. ASSUME NEW t \in Types PROVE all[t] = Made(t, all[Tail(t)])
  <2> DEFINE n == Len(t) + 1
             rest == Tail(t)
  <2>1. /\ Len(t) \in Nat /\ n \in Nat /\ Len(t) < n
        /\ ~IsScalar(t) => /\ rest \in Types /\ Len(rest) \in Nat /\ Len(rest) + 1 \in Nat
                           /\ Len(rest) + 1 <= n /\ Len(rest) < Len(rest) + 1
    BY ElementType
  <2>2. all[t] = upto(n)[t]
    OBVIOUS
  <2>3. upto(n)[t] = Made(t, upto(n)[rest])
    BY <1>1, <2>1 DEF MadeTo
  <2>4. ~IsScalar(t) => all[rest] = upto(n)[rest]
    <3>1. SUFFICES ASSUME ~IsScalar(t) PROVE all[rest] = upto(n)[rest]
      OBVIOUS
    <3> DEFINE m == Len(rest) + 1
    <3>2. rest \in Types /\ m \in Nat /\ m <= n /\ Len(rest) < m /\ n \in Nat
      BY <2>1, <3>1
    <3>3. all[rest] = upto(m)[rest]
      BY <3>2
    <3> HIDE DEF m, n, rest, all
    <3>4. MadeTo(m, upto(m)) /\ MadeTo(n, upto(n))
      BY <1>1, <3>2
    <3>5. upto(m)[rest] = upto(n)[rest]
      BY <3>2, <3>4, MadeOnce
    <3>6. QED BY <3>3, <3>5
  <2> HIDE DEF all, n, rest
  <2>5. Made(t, upto(n)[rest]) = Made(t, all[rest])
    BY <2>4, MadeAlike
  <2>6. QED BY <2>2, <2>3, <2>5 DEF rest
<1>3. Is(all)
  <2>1. all = [t \in Types |-> all[t]]
    OBVIOUS
  <2> HIDE DEF all
  <2>2. QED BY <1>2, <2>1 DEF Made
<1>4. LexicalCast = CHOOSE f : Is(f)
  BY DEF LexicalCast
<1>5. Is(LexicalCast)
  <2> HIDE DEF Is, all
  <2>1. QED BY <1>3, <1>4
<1>6. LexicalCast[type] = IF IsScalar(type) THEN ScalarCast(type)
                          ELSE ContainerCast(Head(type), LexicalCast[Tail(type)])
  BY <1>5
<1>7. QED BY <1>6 DEF Made

LEMMA ContainerFaithful ==
    ASSUME NEW container \in {"vector", "set", "map"}, NEW element, Faithful(element)
    PROVE  /\ Faithful(ContainerCast(container, element))
           /\ AllUnchanged(ContainerCast(container, element))
<1>1. CASE container = "vector"
  <2>1. ContainerCast(container, element) = VectorCast(element)
    BY <1>1 DEF ContainerCast
  <2>2. QED BY <2>1, VectorFaithful
<1>2. CASE container = "set"
  <2>1. ContainerCast(container, element) = SetCast(element)
    BY <1>2 DEF ContainerCast
  <2>2. QED BY <2>1, SetFaithful
<1>3. CASE container = "map"
  <2>1. ContainerCast(container, element) = MapCast(element)
    BY <1>3 DEF ContainerCast
  <2>2. QED BY <2>1, MapFaithful
<1>4. QED BY <1>1, <1>2, <1>3

\* config.h:28-319: of a value in containers of containers, to any depth, nothing is lost when
\* YAML prints its strings as it reads them; and what is read of any text that was printed
\* is such a value.
THEOREM EveryTypeFaithful ==
    ASSUME NEW type \in Types
    PROVE  Faithful(LexicalCast[type])
<1> DEFINE P == {k \in Nat : \A t \in Types : Len(t) < k => Faithful(LexicalCast[t])}
<1>1. 0 \in P
  BY ElementType
<1>2. ASSUME NEW k \in Nat, k \in P PROVE k + 1 \in P
  <2>1. SUFFICES ASSUME NEW t \in Types, Len(t) < k + 1 PROVE Faithful(LexicalCast[t])
    OBVIOUS
  <2>2. LexicalCast[t] = Made(t, LexicalCast[Tail(t)])
    BY CastIs
  <2>3. CASE IsScalar(t)
    <3>1. LexicalCast[t] = ScalarCast(t)
      BY <2>2, <2>3 DEF Made
    <3>2. QED BY <3>1, ScalarFaithful
  <2>4. CASE ~IsScalar(t)
    <3>1. /\ Head(t) \in {"vector", "set", "map"} /\ Tail(t) \in Types
          /\ Len(Tail(t)) < Len(t) /\ Len(t) \in Nat /\ Len(Tail(t)) \in Nat
      BY <2>4, ElementType
    <3>2. Faithful(LexicalCast[Tail(t)])
      <4> DEFINE rest == Tail(t)
      <4>1. rest \in Types /\ Len(rest) < k
        BY <2>1, <3>1
      <4>2. \A u \in Types : Len(u) < k => Faithful(LexicalCast[u])
        BY <1>2
      <4> HIDE DEF rest, P
      <4>3. QED BY <4>1, <4>2 DEF rest
    <3>3. LexicalCast[t] = ContainerCast(Head(t), LexicalCast[Tail(t)])
      BY <2>2, <2>4 DEF Made
    <3>4. QED BY <3>1, <3>2, <3>3, ContainerFaithful
  <2>5. QED BY <2>3, <2>4
<1>3. Len(type) \in Nat /\ Len(type) + 1 \in Nat /\ Len(type) < Len(type) + 1
  BY ElementType
<1>4. \A n \in Nat : n \in P
  <2> HIDE DEF P
  <2>1. QED BY <1>1, <1>2, SetInduction
<1>5. QED BY <1>3, <1>4

\* A value in containers is read back if and only if it is plain.
LEMMA ContainersReadBack ==
    ASSUME NEW cast, Faithful(cast), AllUnchanged(cast), NEW x \in cast.values
    PROVE  LET text == cast.toText[x]
           IN  (/\ x \in cast.printing
                /\ text \in cast.converting /\ cast.fromText[text] = x) <=> x \in cast.plain
<1> DEFINE text == cast.toText[x]
<1>1. Loads(text) /\ Emit(Load(text)) = text
  BY DEF AllUnchanged, Unchanged
<1>2. ASSUME x \in cast.plain
      PROVE  x \in cast.printing /\ text \in cast.converting /\ cast.fromText[text] = x
  BY <1>2 DEF Faithful, ReadsBack
<1>3. ASSUME x \in cast.printing, text \in cast.converting, cast.fromText[text] = x
      PROVE  x \in cast.plain
  BY <1>1, <1>3 DEF Faithful, ReadsPlain, elementPrints
<1>4. QED BY <1>2, <1>3

LEMMA ScalarsReadBack ==
    ASSUME NEW type, NEW x \in ScalarCast(type).values
    PROVE  LET cast == ScalarCast(type)
               text == cast.toText[x]
           IN  x \in cast.printing /\ text \in cast.converting /\ cast.fromText[text] = x
<1> DEFINE cast == ScalarCast(type)
           values == IF type = <<"int">> THEN Numerals ELSE Strings
           texts == TextsOf({})
<1>1. /\ cast.values = values /\ cast.printing = values /\ cast.toText = [v \in values |-> Text(v)]
      /\ cast.converting = {t \in texts : /\ t.kind = "text"
                                          /\ type = <<"int">> => t.string \in Numerals}
      /\ cast.fromText = [t \in texts |-> t.string]
  BY DEF ScalarCast
<1>2. x \in values /\ x \in Strings /\ (type = <<"int">> => x \in Numerals)
  BY <1>1, CastAssumption DEF Kept
<1> HIDE DEF cast, values
<1>3. Text(x) \in texts
  BY <1>2 DEF TextsOf
<1> HIDE DEF texts
<1>4. cast.toText[x] = Text(x) /\ Text(x).kind = "text" /\ Text(x).string = x
  BY <1>1, <1>2, KindsOfNodes
<1>5. x \in cast.printing /\ Text(x) \in cast.converting /\ cast.fromText[Text(x)] = x
  BY <1>1, <1>2, <1>3, <1>4
<1>6. QED BY <1>4, <1>5 DEF cast

\* config.h:28-319: a scalar is read back from its text, and a value of any type in containers
\* exactly when YAML prints its strings as it reads them.
THEOREM ValuesReadBack == CastSpec => []ValueReadsBack
<1> DEFINE Inv == walk = "cast" /\ input \in Types /\ original \in LexicalCast[input].values
<1>1. CastInit => Inv
  BY SamplesAssumption DEF CastInit
<1>2. Inv /\ [FALSE]_walkVars => Inv'
  BY DEF walkVars
<1>3. Inv => ValueReadsBack
  <2>1. SUFFICES ASSUME Inv PROVE ValueReadsBack
    OBVIOUS
  <2>2. LexicalCast[input] = Made(input, LexicalCast[Tail(input)])
    BY <2>1, CastIs
  <2>3. CASE IsScalar(input)
    <3>1. LexicalCast[input] = ScalarCast(input)
      BY <2>2, <2>3 DEF Made
    <3>2. QED BY <2>1, <2>3, <3>1, ScalarsReadBack DEF ValueReadsBack
  <2>4. CASE ~IsScalar(input)
    <3> DEFINE element == LexicalCast[Tail(input)]
               container == Head(input)
    <3>1. container \in {"vector", "set", "map"} /\ Tail(input) \in Types
      BY <2>1, <2>4, ElementType
    <3>2. Faithful(element)
      BY <3>1, EveryTypeFaithful
    <3>3. LexicalCast[input] = ContainerCast(container, element)
      BY <2>2, <2>4 DEF Made
    <3> HIDE DEF element, container
    <3>4. Faithful(LexicalCast[input]) /\ AllUnchanged(LexicalCast[input])
      BY <3>1, <3>2, <3>3, ContainerFaithful
    <3>5. QED BY <2>1, <2>4, <3>4, ContainersReadBack DEF ValueReadsBack
  <2>5. QED BY <2>3, <2>4
<1>4. QED
  <2> HIDE DEF Inv
  <2>1. QED BY <1>1, <1>2, <1>3, PTL DEF CastSpec
=============================================================================
