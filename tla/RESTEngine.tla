----------------------------- MODULE RESTEngine -----------------------------
(***************************************************************************)
(* rest/RESTEngine.cpp and RESTCallBack::call: the routes of an            *)
(* application, the calls that go through them, and the callbacks that the *)
(* engine owns.                                                            *)
(*                                                                         *)
(* Threads call invoke(), which is const "in order to be thread safe"; the *)
(* table is changed when no call is under way, or by the handler of the    *)
(* only one.  A regular expression is the set of the paths it matches; the *)
(* url of a call and its parameters are read as in RESTParameters.  With   *)
(* the table as it is, a call is one step up to its handler.               *)
(***************************************************************************)
EXTENDS RESTParameters

CONSTANTS Callbacks,   \* RESTCallBack objects the application makes
          Required,    \* those of which the Registered parameters are required
          Methods,
          Uris,        \* regular expressions, each a set of paths
          Paths,
          Threads,
          MaxRoutes,   \* bound: routes of the table
          Nothing

ASSUME RoutesAssumption == MaxRoutes \in Nat
ASSUME UrisAssumption == Uris \subseteq SUBSET Paths
ASSUME PathsAssumption == \A path \in Paths : path \in Seq(STRING \ {Question, Blank})
ASSUME NothingAssumption == Nothing \notin Callbacks
ASSUME MethodsAssumption == IsFiniteSet(Methods)
ASSUME AnswersAssumption == Callbacks \cap {"MethodNotAllowed", "NotFound"} = {}

VARIABLES mCallbacks,  \* method |-> list of routes, for the methods ever used
          memory,      \* of every callback: "new", "alive" or "deleted"
          calls,       \* of every thread: whether it is in a handler, of which callback,
                       \* the pairs its client wrote and the values read
          engine,      \* whether the engine is there
          crashed      \* a deleted callback was used, or deleted again

vars == <<mCallbacks, memory, calls, engine, crashed>>

Routes == [uri : Uris, mpCallback : Callbacks]

\* The routes of a method, and those of the table.
RoutesOf(m) == IF m \in DOMAIN mCallbacks THEN mCallbacks[m] ELSE <<>>
Table == {at \in Methods \X (1 .. MaxRoutes) : at[2] \in DOMAIN RoutesOf(at[1])}
Uses(c) == {at \in Table : RoutesOf(at[1])[at[2]].mpCallback = c}

Outside == [p |-> Nothing, pairs |-> <<>>, values |-> <<>>]
Inside == {t \in Threads : calls[t] # Outside}

TypeOK ==
    /\ DOMAIN mCallbacks \subseteq Methods
    /\ \A m \in DOMAIN mCallbacks : mCallbacks[m] \in Seq(Routes)
    /\ memory \in [Callbacks -> {"new", "alive", "deleted"}]
    /\ \A u \in Threads : calls[u] = Outside \/
          /\ calls[u].p \in Callbacks
          /\ calls[u].pairs \in BoundedSeq(Names \X Values, MaxPairs)
          /\ DOMAIN calls[u].values \subseteq Registered
    /\ engine \in BOOLEAN /\ crashed \in BOOLEAN

Init ==
    /\ mCallbacks = <<>>
    /\ memory = [c \in Callbacks |-> "new"]
    /\ calls = [t \in Threads |-> Outside]
    /\ engine = TRUE
    /\ crashed = FALSE

Crash == crashed' = TRUE /\ UNCHANGED <<mCallbacks, memory, calls, engine>>

\* What the application sees to, since nothing locks the table: it is changed when
\* no call is under way, or by the handler of the only one.
MayChange == engine /\ Cardinality(Inside) <= 1

-----------------------------------------------------------------------------
(* The table                                                               *)

\* The table with other routes for a method.
With(m, routes) ==
    [n \in DOMAIN mCallbacks \cup {m} |-> IF n = m THEN routes ELSE mCallbacks[n]]

\* Under one method a callback is registered once: removeCallBack() takes one route
\* of each method away, and would leave a second one behind.
MayAdd(m, c) ==
    /\ memory[c] # "deleted"
    /\ Cardinality(Table) < MaxRoutes
    /\ \A at \in Uses(c) : at[1] # m

\* Mutant of AddCallBack: the new route is the first one.
AddFirst(uri, m, c) ==
    /\ MayAdd(m, c)
    /\ memory' = [memory EXCEPT ![c] = "alive"]
    /\ mCallbacks' = With(m, <<[uri |-> uri, mpCallback |-> c]>> \o RoutesOf(m))
    /\ UNCHANGED <<calls, engine, crashed>>

\* addCallBack(), of a callback that new made or that is registered already.
AddCallBack(uri, m, c) ==
    /\ MayAdd(m, c)
    /\ memory' = [memory EXCEPT ![c] = "alive"]
    /\ mCallbacks' = With(m, Append(RoutesOf(m), [uri |-> uri, mpCallback |-> c]))
    /\ UNCHANGED <<calls, engine, crashed>>

\* Mutant of WithoutFirst: the search ends with the first method that has it.
WithoutFirstOfAll(c) ==
    LET m == CHOOSE n \in DOMAIN mCallbacks : \E k \in DOMAIN mCallbacks[n] :
                 mCallbacks[n][k].mpCallback = c
    IN  [mCallbacks EXCEPT ![m] = RemoveFirstMatch(@, LAMBDA r : r.mpCallback = c)]

\* The first route to c of every method is taken out.
WithoutFirst(c) ==
    [m \in DOMAIN mCallbacks |->
        RemoveFirstMatch(mCallbacks[m], LAMBDA r : r.mpCallback = c)]

\* removeCallBack(), which deletes c, also if it is the one that runs.
RemoveCallBack(c) ==
    /\ memory[c] = "alive"
    /\ mCallbacks' = WithoutFirst(c)
    /\ memory' = [memory EXCEPT ![c] = "deleted"]
    /\ UNCHANGED <<calls, engine, crashed>>

\* ~RESTEngine(): what every route points to is deleted, so that the application
\* first removes what it registered under several methods.
Destroy ==
    /\ engine /\ Inside = {}
    /\ \A c \in Callbacks : Cardinality(Uses(c)) <= 1
    /\ IF \A c \in Callbacks : Uses(c) # {} => memory[c] = "alive"
       THEN /\ engine' = FALSE
            /\ memory' = [c \in Callbacks |-> IF Uses(c) # {} THEN "deleted" ELSE memory[c]]
            /\ mCallbacks' = <<>>
            /\ UNCHANGED <<calls, crashed>>
       ELSE Crash

-----------------------------------------------------------------------------
(* invoke()                                                                *)

\* What clients write: with the pairs of the other calls no more than the bound.
Pairs ==
    LET others == SumFunctionOnSet([t \in Threads |-> Len(calls[t].pairs)], Threads)
    IN  {pairs \in BoundedSeq(Names \X Values, MaxPairs) : Len(pairs) + others <= MaxPairs}

\* Of a method that was never registered, and of one whose routes are all gone.
Answer(m, path) ==
    IF m \notin DOMAIN mCallbacks THEN "MethodNotAllowed"
    ELSE LET k == SelectInSeq(mCallbacks[m], LAMBDA r : path \in r.uri)
         IN  IF k = 0 THEN "NotFound" ELSE mCallbacks[m][k].mpCallback

\* A required parameter is not there, or is empty.
Missing(c, values) ==
    c \in Required /\ \E name \in Registered : GetParam(values, name) = <<>>

\* The callback of the first route that matches; RESTCallBack::call reads the
\* parameters, and runs the handler or answers BadRequest.
Invoke(t, m, path, pairs, text) ==
    /\ engine /\ calls[t] = Outside
    /\ LET url == path \o text
           c == Answer(m, PathOf(url))
           values == ReadParameters(QueryOf(url), Registered)
       IN  /\ c \in Callbacks
           /\ IF memory[c] # "alive" THEN Crash
              ELSE /\ ~Missing(c, values)
                   /\ calls' = [calls EXCEPT ![t] = [p |-> c, pairs |-> pairs, values |-> values]]
                   /\ UNCHANGED <<mCallbacks, memory, engine, crashed>>

\* The handler returns; call() and invoke() return its code, which is not in the
\* callback.
Return(t) ==
    /\ t \in Inside
    /\ calls' = [calls EXCEPT ![t] = Outside]
    /\ UNCHANGED <<mCallbacks, memory, engine, crashed>>

Next ==
    /\ ~crashed
    /\ \/ MayChange /\ \E c \in Callbacks :
             RemoveCallBack(c) \/ \E uri \in Uris, m \in Methods : AddCallBack(uri, m, c)
       \/ Destroy
       \/ \E t \in Threads :
             \/ \E m \in Methods, path \in Paths, pairs \in Pairs :
                   \E text \in Texts(pairs) : Invoke(t, m, path, pairs, text)
             \/ Return(t)

Spec == Init /\ [][Next]_vars

-----------------------------------------------------------------------------
(* Properties                                                              *)

\* A handler that runs finds each parameter of its callback with the value that the
\* client gave it last, whatever else the client wrote before, between and after,
\* and finds none that the client did not give.
LastGivenIsRead ==
    \A t \in Inside, name \in Registered :
        LET given == {k \in DOMAIN calls[t].pairs : calls[t].pairs[k][1] = name}
        IN  GetParam(calls[t].values, name)
            = IF given = {} THEN <<>> ELSE calls[t].pairs[Max(given)][2]

\* Whatever routes are added and removed, by a handler that removes itself or others
\* too, no call goes to a callback that was deleted, none is used by call() after
\* its handler deleted it, and none is deleted twice.
NothingDeletedIsUsed == ~crashed

\* A route that is added takes over no path that was answered, and one that is
\* removed gives only its own paths to others: the callback that answers changes
\* only when it is deleted.
AnswersAreStable ==
    [][engine' => \A m \in Methods, path \in Paths :
          Answer(m, path) \in Callbacks =>
              \/ Answer(m, path)' = Answer(m, path)
              \/ memory'[Answer(m, path)] = "deleted"]_vars

=============================================================================
