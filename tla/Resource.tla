------------------------------ MODULE Resource ------------------------------
(***************************************************************************)
(* Resources and their groups (xfw/src/xresource.c): x_resource_prepare,   *)
(* _load and _unload, x_repository_parse, _prepare, _load and _unload, and *)
(* the "group" property, called by several threads.                        *)
(*                                                                         *)
(* Both kinds of object are claimed by a compare-and-swap on their state,  *)
(* and whoever does not get one returns at once.  A class method calls the *)
(* resources the object is made of: a pass its texture units, a texture    *)
(* unit its textures (gfw/src/gpass.c, gtexunit.c); a group calls its      *)
(* resources.  A thread's calls are a stack of frames.                     *)
(***************************************************************************)
EXTENDS Integers, Sequences, FiniteSets

CONSTANTS
  Thread,
  Resource,
  Group,
  Uses,             \* what each class method of each resource calls, in order
  Scripted,         \* what reading a group's scripts adds to it
  Direct,           \* the resources that threads call themselves
  Movable,          \* the resources whose group threads set
  Order,            \* resource_order_cmp: by class, then by address
  None

Op == {"prepare", "load", "unload"}
Object == Resource \cup Group
Elements(s) == {s[i] : i \in 1 .. Len(s)}

\* A class calls the same resources in its methods (gpass.c:105, gtechnique.c:24,
\* gtexunit.c:26), or none in the later ones (gmesh.c:73, gmaterial.c:70).
ASSUME ResourceAssumption ==
  /\ Resource \cap Group = {} /\ None \notin Object
  /\ Uses \in [Op -> [Resource -> Seq(Resource)]]
  /\ \A r \in Resource :
       /\ Elements(Uses["unload"][r]) \subseteq Elements(Uses["load"][r])
       /\ Elements(Uses["load"][r]) \subseteq Elements(Uses["prepare"][r])
  /\ Scripted \in [Group -> SUBSET Resource]
  /\ Direct \subseteq Resource /\ Movable \subseteq Resource
  /\ Order \in [Resource -> Nat]
  /\ \A q, r \in Resource : q # r => Order[q] # Order[r]
  /\ IsFiniteSet(Resource)
  /\ \A S \in SUBSET Resource : \E s \in [1 .. Cardinality(S) -> S] :
       \A i, j \in DOMAIN s : i < j => Order[s[i]] < Order[s[j]]

VARIABLES
  state,            \* xResource.state and ResourceGroup.state
  group,            \* xResource.group
  resources,        \* ResourceGroup.resources, an array sorted by Order
  stack,            \* each thread's calls, the innermost last
  data,             \* what the class methods have made of each resource
  taken             \* the resources that a group's last operation went through

vars == <<state, group, resources, stack, data, taken>>

Steady == {"unloaded", "parsed", "prepared", "loaded"}
Transient == {"parsing", "preparing", "loading", "unloading"}

Place == {"read", "cas", "parse", "list", "methods", "set"}

TypeOK ==
  /\ state \in [Object -> Steady \cup Transient]
  /\ group \in [Resource -> Group \cup {None}]
  /\ resources \in [Group -> SUBSET Resource]
  /\ data \in [Resource -> {"none", "prepared", "loaded"}]
  /\ taken \in [Group -> SUBSET Resource]
  /\ stack \in [Thread -> Seq([op : Op \cup {"parse"}, x : Object, at : Place,
                               from : Steady, stages : Seq(Op),
                               list : Seq(Resource), todo : Seq(Resource)])]

Init ==
  /\ state = [x \in Object |-> "unloaded"]
  /\ group = [r \in Resource |-> None]
  /\ resources = [g \in Group |-> {}]
  /\ stack = [t \in Thread |-> << >>]
  /\ data = [r \in Resource |-> "none"]
  /\ taken = [g \in Group |-> {}]

-----------------------------------------------------------------------------
(* The state machine *)

\* Mutant of From: load also claims an object that is being unloaded.
FromUnloading(op, x) ==
  CASE op = "parse"   -> {"unloaded"}
    [] op = "prepare" -> IF x \in Group THEN {"unloaded", "parsed"} ELSE {"unloaded"}
    [] op = "load"    -> {"unloaded", "prepared", "unloading"}
    [] op = "unload"  -> {"loaded", "prepared"} \cup (IF x \in Group THEN {"parsed"} ELSE {})

\* The states from which an operation claims the object.
From(op, x) ==
  CASE op = "parse"   -> {"unloaded"}
    [] op = "prepare" -> IF x \in Group THEN {"unloaded", "parsed"} ELSE {"unloaded"}
    [] op = "load"    -> {"unloaded", "prepared"} \cup (IF x \in Group THEN {"parsed"} ELSE {})
    [] op = "unload"  -> {"loaded", "prepared"} \cup (IF x \in Group THEN {"parsed"} ELSE {})

During == [parse |-> "parsing", prepare |-> "preparing",
           load |-> "loading", unload |-> "unloading"]

After == [parse |-> "parsed", prepare |-> "prepared",
          load |-> "loaded", unload |-> "unloaded"]

\* The rounds of calls an operation makes: load prepares first what is not.
Stages(op, from) ==
  CASE op = "parse" -> << >>
    [] op = "load" /\ from \in {"unloaded", "parsed"} -> <<"prepare", "load">>
    [] OTHER -> <<op>>

\* What the class method leaves a resource with.
Made == [prepare |-> "prepared", load |-> "loaded", unload |-> "none"]

\* A call: prepare of a resource and parse of a group compare at once, the
\* others read the state first.
Call(op, x) ==
  [op |-> op, x |-> x, from |-> "unloaded", stages |-> << >>,
   at |-> IF op = "parse" \/ (op = "prepare" /\ x \in Resource) THEN "cas" ELSE "read",
   list |-> << >>, todo |-> << >>]

Top(t) == stack[t][Len(stack[t])]

\* The innermost call of t goes on as f.
Continue(t, f) == stack' = [stack EXCEPT ![t][Len(stack[t])] = f]

Return(t) == stack' = [stack EXCEPT ![t] = SubSeq(@, 1, Len(@) - 1)]

\* group_parse has been done, or is not called for: what is gone through next.
Listed(f) ==
  [f EXCEPT !.at = IF f.x \in Group THEN "list" ELSE "methods",
            !.list = IF f.x \in Group THEN << >> ELSE Uses[Head(f.stages)][f.x],
            !.todo = IF f.x \in Group THEN << >> ELSE Uses[Head(f.stages)][f.x]]

-----------------------------------------------------------------------------
(* Steps *)

\* A thread calls an operation of a resource or a group.
Begin(t) ==
  /\ stack[t] = << >>
  /\ \/ \E r \in Direct, op \in Op : stack' = [stack EXCEPT ![t] = <<Call(op, r)>>]
     \/ \E g \in Group, op \in Op \cup {"parse"} :
          stack' = [stack EXCEPT ![t] = <<Call(op, g)>>]
  /\ UNCHANGED <<state, group, resources, data, taken>>

\* state = x_atomic_int_get; another state than the operation's: return.
Read(t) ==
  LET f == Top(t) IN
  /\ stack[t] # << >> /\ f.at = "read"
  /\ \/ /\ state[f.x] \in From(f.op, f.x)
        /\ Continue(t, [f EXCEPT !.at = "cas", !.from = state[f.x]])
     \/ state[f.x] \notin From(f.op, f.x) /\ Return(t)
  /\ UNCHANGED <<state, group, resources, data, taken>>

\* x_atomic_int_cas; a state that has changed since: return.
Cas(t) ==
  LET f == Top(t) IN
  /\ stack[t] # << >> /\ f.at = "cas"
  /\ \/ /\ state[f.x] = f.from
        /\ state' = [state EXCEPT ![f.x] = During[f.op]]
        /\ LET g == [f EXCEPT !.stages = Stages(f.op, f.from)] IN
           Continue(t, IF f.x \in Group /\ f.from = "unloaded" /\ f.op # "unload"
                       THEN [g EXCEPT !.at = "parse"] ELSE Listed(g))
     \/ state[f.x] # f.from /\ Return(t) /\ UNCHANGED state
  /\ UNCHANGED <<group, resources, data, taken>>

\* group_parse: the scripts create the group's resources.
Parse(t) ==
  LET f == Top(t) IN
  /\ stack[t] # << >> /\ f.at = "parse"
  /\ LET made == {r \in Scripted[f.x] : group[r] = None} IN
       /\ group' = [r \in Resource |-> IF r \in made THEN f.x ELSE group[r]]
       /\ resources' = [resources EXCEPT ![f.x] = @ \cup made]
  /\ Continue(t, IF f.op = "parse" THEN [f EXCEPT !.at = "set"] ELSE Listed(f))
  /\ UNCHANGED <<state, data, taken>>

\* x_ptr_array_dup under the lock: the group's resources in their order.
Snapshot(t) ==
  LET f == Top(t)
      held == resources[f.x]
      s == CHOOSE s \in [1 .. Cardinality(held) -> held] :
             \A i, j \in DOMAIN s : i < j => Order[s[i]] < Order[s[j]]
  IN
  /\ stack[t] # << >> /\ f.at = "list"
  /\ Continue(t, [f EXCEPT !.at = "methods", !.list = s, !.todo = s])
  /\ taken' = [taken EXCEPT ![f.x] = held]
  /\ UNCHANGED <<state, group, resources, data>>

\* x_ptr_array_foreach: the next resource of the round is called.
CallNext(t) ==
  LET f == Top(t) IN
  /\ stack[t] # << >> /\ f.at = "methods" /\ f.todo # << >>
  /\ stack' = [stack EXCEPT ![t] =
       Append([@ EXCEPT ![Len(stack[t])] = [f EXCEPT !.todo = Tail(@)]],
              Call(Head(f.stages), Head(f.todo)))]
  /\ UNCHANGED <<state, group, resources, data, taken>>

\* Mutant of EndRound: the second round of a group goes through nothing.
EndRoundOnce(t) ==
  LET f == Top(t) IN
  /\ stack[t] # << >> /\ f.at = "methods" /\ f.todo = << >>
  /\ data' = IF f.x \in Resource
             THEN [data EXCEPT ![f.x] = Made[Head(f.stages)]] ELSE data
  /\ Continue(t,
       IF Len(f.stages) = 1 THEN [f EXCEPT !.at = "set"]
       ELSE LET g == [f EXCEPT !.stages = Tail(@)] IN
            IF f.x \in Group THEN g ELSE Listed(g))
  /\ UNCHANGED <<state, group, resources, taken>>

\* The round ends: the class method returns, the next one is called.
EndRound(t) ==
  LET f == Top(t) IN
  /\ stack[t] # << >> /\ f.at = "methods" /\ f.todo = << >>
  /\ data' = IF f.x \in Resource
             THEN [data EXCEPT ![f.x] = Made[Head(f.stages)]] ELSE data
  /\ Continue(t,
       IF Len(f.stages) = 1 THEN [f EXCEPT !.at = "set"]
       ELSE LET g == [f EXCEPT !.stages = Tail(@)] IN
            IF f.x \in Group THEN [g EXCEPT !.todo = f.list] ELSE Listed(g))
  /\ UNCHANGED <<state, group, resources, taken>>

\* The state is set and the operation returns.
Finish(t) ==
  LET f == Top(t) IN
  /\ stack[t] # << >> /\ f.at = "set"
  /\ state' = [state EXCEPT ![f.x] = After[f.op]]
  /\ Return(t)
  /\ UNCHANGED <<group, resources, data, taken>>

\* x_ptr_array_remove_data tests the index it finds with "> 0": the first
\* resource of an array stays in it.
Without(S, r) ==
  IF \E q \in S : Order[q] < Order[r] THEN S \ {r} ELSE S

\* set_property and resource_dispose: out of one group, into another or none.
SetGroup(t, r, g) ==
  /\ stack[t] = << >> /\ r \in Movable /\ group[r] # g
  /\ group' = [group EXCEPT ![r] = g]
  /\ resources' = [h \in Group |->
       (IF h = group[r] THEN Without(resources[h], r) ELSE resources[h])
         \cup (IF h = g THEN {r} ELSE {})]
  /\ UNCHANGED <<state, stack, data, taken>>

-----------------------------------------------------------------------------

Step(t) ==
  Read(t) \/ Cas(t) \/ Parse(t) \/ Snapshot(t) \/ CallNext(t) \/ EndRound(t) \/ Finish(t)

Next ==
  \E t \in Thread :
    Begin(t) \/ Step(t) \/ \E r \in Movable, g \in Group \cup {None} : SetGroup(t, r, g)

Spec == Init /\ [][Next]_vars

-----------------------------------------------------------------------------
(* Properties *)

\* The calls that have claimed object x: a thread and a place in its stack.
Claims(x) ==
  {c \in UNION {{t} \X (1 .. Len(stack[t])) : t \in Thread} :
     LET f == stack[c[1]][c[2]] IN f.x = x /\ f.at \notin {"read", "cas"}}

\* An object in a transient state has been claimed by one call, whose state it
\* is, and an object in a steady state by none: the class methods of one
\* resource never run twice at a time, neither in two threads nor nested.
OneClaim ==
  \A x \in Object :
    IF state[x] \in Steady THEN Claims(x) = {}
    ELSE \E t \in Thread : \E i \in 1 .. Len(stack[t]) :
           Claims(x) = {<<t, i>>} /\ state[x] = During[stack[t][i].op]

\* The class methods follow each other as they rely on it: prepare on what is
\* not prepared, load on what is, unload on what is prepared or loaded, and the
\* state says which, although it is read before it is compared.
MethodsInOrder ==
  /\ \A t \in Thread : \A i \in 1 .. Len(stack[t]) :
       LET f == stack[t][i] IN
       f.at = "methods" /\ f.x \in Resource =>
         data[f.x] \in (CASE Head(f.stages) = "prepare" -> {"none"}
                          [] Head(f.stages) = "load"    -> {"prepared"}
                          [] OTHER                      -> {"prepared", "loaded"})
  /\ \A r \in Resource :
       /\ state[r] = "unloaded" => data[r] = "none"
       /\ state[r] \in {"prepared", "loaded"} => data[r] = state[r]

\* One call at a time works on a resource, and the calls follow each other as
\* the class methods need it, over threads that interleave and nested calls.
ClaimedInOrder == TypeOK /\ OneClaim /\ MethodsInOrder

\* The resources that the methods named in ops reach from those of S: the least
\* set that has S and that they do not call out of.
Under(ops, S) ==
  LET Closed == {T \in {S \cup X : X \in SUBSET (Resource \ S)} :
                   \A op \in ops, r \in T : Elements(Uses[op][r]) \subseteq T}
  IN {r \in Resource : \A T \in Closed : r \in T}

\* What is called from elsewhere than group g, or leaves its group.
Outside(g) ==
  Under(Op, Direct \cup Movable \cup UNION {taken[h] : h \in Group \ {g}})

\* A group stands for its resources: when nobody else calls them, those that
\* its last operation went through, and all that they use, are where the group
\* is, whichever threads called the group's operations at the same time.
GroupIsWhole ==
  \A g \in Group : \A r \in Under(Op, taken[g]) \ Outside(g) :
    /\ state[g] = "loaded" /\ r \in Under({"load"}, taken[g]) => state[r] = "loaded"
    /\ state[g] = "prepared" => state[r] \in {"prepared", "loaded"}
    /\ state[g] \in {"unloaded", "parsed"} /\ r \in Under({"unload"}, taken[g])
         => state[r] = "unloaded"

=============================================================================
