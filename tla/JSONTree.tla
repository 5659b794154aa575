------------------------------- MODULE JSONTree -------------------------------
(***************************************************************************)
(* json/JSON.cpp with Object, List and Value: who owns the nodes of the    *)
(* trees that an application builds, copies, moves, parses and destroys.   *)
(*                                                                         *)
(* A JSON is an instance: a variable of the application, a node (Object,   *)
(* List or Value) that new has made, or the one static mInvalid.  A node's *)
(* text and number are left out.  A label stands for a key of an Object,   *)
(* k for "key<k>", or for an index of a List.                              *)
(***************************************************************************)
EXTENDS Naturals, FiniteSets, FiniteSetsExt, Functions

CONSTANTS Vars,         \* variables of the application, of type JSON
          MaxNodes,     \* bound: nodes that exist at once
          MaxLabel,     \* bound: labels
          Moves,        \* what it moves: nothing, "trees" or "any" JSON
          ParseMember,  \* whether it calls parse() on a member of a tree
          Replace,      \* whether it adds a container under a key that exists
          Null

Nodes == 1 .. MaxNodes
Labels == 0 .. MaxLabel
Invalid == 0
Instances == Vars \cup {Invalid} \cup Nodes

ASSUME BoundsAssumption == MaxNodes \in Nat /\ MaxLabel \in Nat
ASSUME VarsAssumption == Vars \cap (Nat \cup {Null}) = {} /\ Null \notin Nat
ASSUME SwitchesAssumption ==
    {ParseMember, Replace} \subseteq BOOLEAN /\ Moves \in {"nothing", "trees", "any"}

VARIABLES live,     \* variables that are constructed
          root,     \* mRoot of every instance; its own address if it has none
          kind,     \* of a node, or "free"
          members,  \* mMembers of a node
          crashed   \* a null pointer was followed, or a pointer deleted wrongly

vars == <<live, root, kind, members, crashed>>

Allocated == {n \in Nodes : kind[n] # "free"}
Free == Nodes \ Allocated

TypeOK ==
    /\ live \subseteq Vars
    /\ root \in [Instances -> Instances \cup {Null}]
    /\ kind \in [Nodes -> {"free", "object", "list", "value"}]
    /\ \A n \in Nodes :
         /\ DOMAIN members[n] \subseteq Labels /\ Range(members[n]) \subseteq Nodes
         /\ kind[n] = "list" => DOMAIN members[n] = 0 .. Cardinality(DOMAIN members[n]) - 1
         /\ kind[n] \in {"value", "free"} => members[n] = <<>>
    /\ crashed \in BOOLEAN

Init ==
    /\ live = {}
    /\ root = [x \in Instances |-> x]
    /\ kind = [n \in Nodes |-> "free"]
    /\ members = [n \in Nodes |-> <<>>]
    /\ crashed = FALSE

-----------------------------------------------------------------------------
(* Trees                                                                   *)

\* What Step leads to, from any instance, as often as it takes.
Closure(x, Step(_)) ==
    LET after[k \in 0 .. MaxNodes + Cardinality(Vars) + 1] ==
            IF k = 0 THEN {x}
            ELSE LET before == after[k - 1] IN before \cup UNION {Step(y) : y \in before}
    IN  after[MaxNodes + Cardinality(Vars) + 1]

MembersOf(x) == IF x \in Nodes THEN Range(members[x]) ELSE {}

\* operator[]: what mRoot->getByKey and mRoot->getByIndex can return.  One that is
\* pure returns itself.
Selected(x) ==
    IF root[x] = Null THEN {}
    ELSE IF root[x] \in Nodes THEN MembersOf(root[x]) \cup {Invalid} ELSE {root[x]}

\* What the application has a JSON& to.
Accessible == UNION {Closure(v, Selected) : v \in live} \ (Vars \ live)

\* delete: the members of a node go with it, and what its own mRoot points to.
DeletedBy(x) == MembersOf(x) \cup ({root[x]} \ {x, Null})
Doomed(x) == Closure(x, DeletedBy)

\* Every pointer deleted comes from new, and is deleted once.
Deletable(n) ==
    /\ Doomed(n) \subseteq Allocated
    /\ \A m \in Doomed(n) :
          Cardinality({p \in Doomed(n) : root[p] = m /\ p # m})
          + Cardinality({<<p, l>> \in Doomed(n) \X Labels :
                            l \in DOMAIN members[p] /\ members[p][l] = m})
          = IF m = n THEN 0 ELSE 1

\* The state of the heap after the nodes of D are deleted and those of K made,
\* K and M giving their kinds and their members.
Heap(D, K, M) ==
    /\ kind' = [n \in Nodes |-> IF n \in DOMAIN K THEN K[n]
                                ELSE IF n \in D THEN "free" ELSE kind[n]]
    /\ members' = [n \in Nodes |-> IF n \in DOMAIN M THEN M[n]
                                   ELSE IF n \in D THEN <<>> ELSE members[n]]

\* mRoot of the instances after D is deleted; R gives those that are assigned.
Roots(D, R) ==
    root' = [x \in Instances |-> IF x \in DOMAIN R THEN R[x]
                                 ELSE IF x \in D THEN x ELSE root[x]]

Crash == crashed' = TRUE /\ UNCHANGED <<live, root, kind, members>>

\* delete of whatever a variable holds, unless it is pure.
Held(x) == IF root[x] \in {x, Null} THEN {} ELSE Doomed(root[x])
Cleanable(x) == root[x] \in {x, Null} \/ Deletable(root[x])

Fresh(k) == CHOOSE S \in SUBSET Free : Cardinality(S) = k /\ \A s \in S, f \in Free \ S : s < f

\* copy() of a node: its members are copied, and not what their mRoot may hold.
Original(y) == IF root[y] \in Nodes THEN Closure(root[y], MembersOf) ELSE {}

CopyMap(y) ==
    LET from == Original(y)
        to == Fresh(Cardinality(from))
    IN  CHOOSE f \in [from -> to] : IsInjective(f)

CanCopy(y) == Cardinality(Original(y)) <= Cardinality(Free)

CopyMembers(y, f) ==
    [n \in Range(f) |->
        LET from == members[Inverse(f, DOMAIN f, Range(f))[n]]
        IN  [l \in DOMAIN from |-> f[from[l]]]]

CopyKinds(y, f) == [n \in Range(f) |-> kind[Inverse(f, DOMAIN f, Range(f))[n]]]

\* Where mRoot of a copy points: to the copy of a node, or to itself.
CopyRoot(x, y, f) == IF root[y] \in Nodes THEN f[root[y]] ELSE x

-----------------------------------------------------------------------------
(* Variables of the application                                            *)

Construct(v) ==
    /\ v \notin live
    /\ live' = live \cup {v}
    /\ Roots({}, [x \in {v} |-> v])
    /\ UNCHANGED <<kind, members, crashed>>

\* JSON(const JSON&)
CopyConstruct(v, y) ==
    /\ v \notin live
    /\ root[y] # Null /\ CanCopy(y)
    /\ LET f == CopyMap(y)
       IN  Heap({}, CopyKinds(y, f), CopyMembers(y, f)) /\ Roots({}, [x \in {v} |-> CopyRoot(v, y, f)])
    /\ live' = live \cup {v}
    /\ UNCHANGED crashed

\* A variable that holds a tree is moved, or, where any is, whatever there is.
Movable(y) == Moves = "any" \/ (Moves = "trees" /\ y \in live /\ root[y] \in Nodes)

\* JSON(JSON&&): what it is moved from is left with no mRoot at all.
MoveConstruct(v, y) ==
    /\ Movable(y)
    /\ v \notin live
    /\ Roots({}, [x \in {v, y} |-> IF x = v THEN root[y] ELSE Null])
    /\ live' = live \cup {v}
    /\ UNCHANGED <<kind, members, crashed>>

\* Mutant of Assign: the old tree is deleted first, and then the other copied.
AssignCleanFirst(x, y) ==
    /\ x \in live /\ x # y
    /\ root[y] # Null /\ CanCopy(y)
    /\ LET f == CopyMap(y)
       IN  /\ IF Original(y) \cap Held(x) = {}
              THEN /\ Heap(Held(x), CopyKinds(y, f), CopyMembers(y, f))
                   /\ Roots(Held(x), [z \in {x} |-> CopyRoot(x, y, f)])
                   /\ UNCHANGED <<live, crashed>>
              ELSE Crash

\* operator=(const JSON&) of a variable: the copy is made before the old tree is
\* deleted.  On a node, and on mInvalid, it does nothing.
Assign(x, y) ==
    /\ x \in live /\ x # y
    /\ root[y] # Null /\ CanCopy(y)
    /\ IF Cleanable(x)
       THEN /\ LET f == CopyMap(y)
               IN  /\ Heap(Held(x), CopyKinds(y, f), CopyMembers(y, f))
                   /\ Roots(Held(x), [z \in {x} |-> CopyRoot(x, y, f)])
            /\ UNCHANGED <<live, crashed>>
       ELSE Crash

\* operator=(JSON&&), of any instance: a swap.
MoveAssign(x, y) ==
    /\ Movable(x) /\ Movable(y)
    /\ x # y
    /\ Roots({}, [z \in {x, y} |-> IF z = x THEN root[y] ELSE root[x]])
    /\ UNCHANGED <<live, kind, members, crashed>>

\* ~JSON() of a variable
Destroy(v) ==
    /\ v \in live
    /\ IF Cleanable(v)
       THEN /\ Heap(Held(v), <<>>, <<>>)
            /\ Roots(Held(v), [x \in {v} |-> v])
            /\ live' = live \ {v}
            /\ UNCHANGED crashed
       ELSE Crash

-----------------------------------------------------------------------------
(* Building                                                                *)

\* parse(): whatever the instance holds is deleted; then mRoot is a new Object,
\* with one member or none.
Parse(x, k) ==
    /\ x \in Vars \/ ParseMember
    /\ x # Invalid
    /\ Cardinality(Free) >= 2
    /\ LET new == Fresh(2)
           top == Min(new)
           below == Max(new)
           made == IF k = "none" THEN {top} ELSE new
       IN  IF Cleanable(x)
           THEN /\ Heap(Held(x), [n \in made |-> IF n = top THEN "object" ELSE k],
                        [n \in made |-> IF n = top /\ k # "none" THEN [l \in {0} |-> below]
                                        ELSE <<>>])
                /\ Roots(Held(x), [z \in {x} |-> top])
                /\ UNCHANGED <<live, crashed>>
           ELSE Crash

\* Adding to a pure JSON: it gets an Object first.
AddRoot(x) ==
    /\ x \in live
    /\ root[x] = x
    /\ Free # {}
    /\ LET new == Fresh(1)
       IN  Heap({}, [n \in new |-> "object"], [n \in new |-> <<>>])
           /\ Roots({}, [z \in {x} |-> Min(new)])
    /\ UNCHANGED <<live, crashed>>

\* addObject, addList and addValue are virtual: a variable passes them on to its
\* mRoot, a node takes them itself.
Target(x) == IF x \in Vars THEN root[x] ELSE x

\* Mutant of GeneratedKey: the number of members, which may be a key already.
CountKey(n) == {Cardinality(DOMAIN members[n])} \cap Labels

\* Object::generateKey: the first unused key from the number of members on.
GeneratedKey(n) ==
    LET unused == {l \in Labels : l >= Cardinality(DOMAIN members[n]) /\ l \notin DOMAIN members[n]}
    IN  IF unused = {} THEN {} ELSE {Min(unused)}

\* Where the new member goes: behind the others in a List, under the name given or
\* generated in an Object; a Value takes no member.
Places(n) ==
    CASE kind[n] = "list" -> {Cardinality(DOMAIN members[n])} \cap Labels
      [] kind[n] = "object" -> Labels \cup GeneratedKey(n)
      [] OTHER -> {}

\* addObject() and addList(): what was under the key is not looked at, which does
\* not matter for a key that is generated.
AddContainer(x, k) ==
    /\ Target(x) \in Allocated
    /\ Free # {}
    /\ \E l \in Places(Target(x)) :
          /\ l \in DOMAIN members[Target(x)] => Replace \/ l \in GeneratedKey(Target(x))
          /\ LET new == Fresh(1)
             IN  Heap({}, [n \in new |-> k],
                      [n \in new \cup {Target(x)} |->
                          IF n \in new THEN <<>>
                          ELSE [m \in DOMAIN members[n] \cup {l} |->
                                   IF m = l THEN Min(new) ELSE members[n][m]]])
    /\ UNCHANGED <<live, root, crashed>>

\* What addValue() deletes: the member that was under the key.
Replaced(n, l) ==
    IF kind[n] = "object" /\ l \in DOMAIN members[n] THEN Doomed(members[n][l]) ELSE {}

AddValue(x) ==
    /\ Target(x) \in Allocated
    /\ Free # {}
    /\ \E l \in Places(Target(x)) :
          LET n == Target(x)
              new == Fresh(1)
          IN  IF l \in DOMAIN members[n] => Deletable(members[n][l])
              THEN /\ Heap(Replaced(n, l), [m \in new |-> "value"],
                           [m \in new \cup {n} |->
                               IF m \in new THEN <<>>
                               ELSE [j \in DOMAIN members[n] \cup {l} |->
                                        IF j = l THEN Min(new) ELSE members[n][j]]])
                   /\ Roots(Replaced(n, l), <<>>)
                   /\ UNCHANGED <<live, crashed>>
              ELSE Crash

-----------------------------------------------------------------------------

Next ==
    /\ ~crashed
    /\ \/ \E v \in Vars : Construct(v) \/ Destroy(v) \/ AddRoot(v)
       \/ \E v \in Vars, y \in Accessible : CopyConstruct(v, y) \/ MoveConstruct(v, y)
       \/ \E x, y \in Accessible : Assign(x, y) \/ MoveAssign(x, y)
       \/ \E x \in Accessible : \/ \E k \in {"none", "value", "list"} : Parse(x, k)
                                \/ \E k \in {"object", "list"} : AddContainer(x, k)
                                \/ AddValue(x)

Spec == Init /\ [][Next]_vars

-----------------------------------------------------------------------------
(* Properties                                                              *)

\* The instances and places that point to a node.
Holders(n) == {x \in live \cup {Invalid} \cup Allocated : root[x] = n /\ x # n}
Parents(n) == {<<p, l>> \in Allocated \X Labels : l \in DOMAIN members[p] /\ members[p][l] = n}

\* Every node is owned once, by a variable or by one place in one node, and nothing
\* points to a node that is deleted: no copy, assignment from a part of the same
\* tree, replacement or parse() makes two owners or none.
OneOwner ==
    /\ ~crashed
    /\ \A n \in Nodes :
          Cardinality(Holders(n)) + Cardinality(Parents(n)) <= IF n \in Allocated THEN 1 ELSE 0
    /\ \A x \in live \cup {Invalid} : root[x] \in {x, Null} \cup Nodes

\* Every node will be deleted with some variable.
NothingLeaks == \A n \in Allocated : \E v \in live \cup {Invalid} : n \in Doomed(v)

=============================================================================
